------------------------- MODULE EpubCommitProofs -------------------------
(***************************************************************************)
(* Theorems of EpubCommit: for any number of processes, with any ids, and  *)
(* any stages left behind, no book is mixed from two builds.               *)
(***************************************************************************)
EXTENDS EpubCommit, TLAPS

\* A stage has one builder, and holds what that builder wrote.
StagesOwned ==
  /\ \A b \in Builders : phase[b] \in Staged =>
       /\ dirs[stage[b]].here
       /\ dirs[stage[b]].by = IF phase[b] = "writing" THEN {} ELSE {b}
       /\ \A c \in Builders \ {b} : phase[c] \in Staged => stage[c] # stage[b]
  /\ \A n \in StageNames : ~dirs[n].here => dirs[n].by = {}

\* A builder that looks for a name has a try left.
TriesLeft == \A b \in Builders : phase[b] \in {"begin", "staging"} => tries[b] < StageTries

IInv == TypeOK /\ StagesOwned /\ BooksUnmixed

LEMMA InitIInv == Init => IInv
<1> SUFFICES ASSUME Init PROVE IInv
  OBVIOUS
<1>1. \A p \in Pids : <<p, 0>> \in StageNames
  BY BoundsAssumption DEF StageNames
<1>2. \A b \in Builders : PidOf[ProcessOf[b]] \in Pids
  BY FunctionsAssumption
<1>3. NoDir \in Dirs /\ NewDir \in Dirs
  BY DEF NoDir, NewDir, Dirs
<1>4. NoBook \in Books /\ OlderBook \in Books
  BY DEF NoBook, OlderBook, Books
<1>5. strays \subseteq StageNames
  BY BoundsAssumption DEF Init, StageNames
<1>6. phase = [b \in Builders |-> "begin"]
  BY DEF Init
<1>7. TypeOK
  <2>1. dirs \in [StageNames -> Dirs] /\ book \in [Outputs -> Books]
    BY <1>3, <1>4 DEF Init
  <2>2. /\ sequence \in [Processes -> 0..MaxSequence + 1]
        /\ tries \in [Builders -> 0..StageTries]
    BY BoundsAssumption DEF Init
  <2>3. /\ overwrite \in [Processes -> BOOLEAN] /\ stage \in [Builders -> StageNames]
        /\ temp \in [Builders -> SUBSET Builders] /\ raced \in [Builders -> BOOLEAN]
        /\ uncleaned \in BOOLEAN
    BY DEF Init
  <2>4. phase \in [Builders -> {"begin", "staging", "cleaned", "committing"}
                                 \cup Staged \cup Ended]
    BY <1>6
  <2> QED BY <1>5, <2>1, <2>2, <2>3, <2>4 DEF TypeOK
<1>8. StagesOwned
  BY <1>6 DEF Init, StagesOwned, Staged, NoDir, NewDir
<1>9. BooksUnmixed
  BY <1>6 DEF Init, BooksUnmixed
<1> QED BY <1>7, <1>8, <1>9 DEF IInv

\* Steps that leave the directories and the books alone, and take no builder
\* into a phase with a stage or a package.
LEMMA PhaseStep ==
  ASSUME IInv, TypeOK', UNCHANGED <<stage, dirs, temp, book>>,
         \A b \in Builders : phase'[b] # phase[b] =>
           phase'[b] \notin Staged \cup {"cleaned"}
             /\ (phase'[b] = "committing" => phase[b] = "cleaned")
  PROVE  IInv'
<1>1. \A b \in Builders : phase'[b] \in Staged => phase'[b] = phase[b]
  OBVIOUS
<1>2. StagesOwned'
  BY <1>1 DEF IInv, StagesOwned
<1>3. BooksUnmixed'
  BY DEF IInv, BooksUnmixed, Staged
<1> QED BY <1>2, <1>3 DEF IInv

\* A step of one builder that removes its stage, or leaves it, and has no stage
\* or package afterwards.
LEMMA LeaveStep ==
  ASSUME IInv, TypeOK', NEW b \in Builders, phase[b] \in Staged, NEW to,
         phase' = [phase EXCEPT ![b] = to], to \notin Staged,
         to \in {"cleaned", "committing"} => phase[b] = "packaged",
         Removed(b) \/ UNCHANGED dirs,
         UNCHANGED <<stage, temp, book>>
  PROVE  IInv'
<1>1. \A c \in Builders : phase'[c] \in Staged => c # b /\ phase'[c] = phase[c]
  BY DEF IInv, TypeOK
<1>2. \A c \in Builders : phase'[c] \in Staged => dirs'[stage[c]] = dirs[stage[c]]
  <2> SUFFICES ASSUME NEW c \in Builders, phase'[c] \in Staged
               PROVE  dirs'[stage[c]] = dirs[stage[c]]
    OBVIOUS
  <2>1. stage[c] # stage[b] /\ stage[c] \in StageNames
    BY <1>1 DEF IInv, TypeOK, StagesOwned
  <2> QED BY <2>1 DEF Removed, IInv, TypeOK
<1>3. \A n \in StageNames : ~dirs'[n].here => dirs'[n].by = {}
  BY DEF Removed, NoDir, IInv, TypeOK, StagesOwned
<1>4. StagesOwned'
  BY <1>1, <1>2, <1>3 DEF IInv, StagesOwned
<1>5. \A c \in Builders : phase'[c] \in {"packaged", "cleaned", "committing"} =>
        phase[c] \in {"packaged", "cleaned", "committing"}
  BY DEF IInv, TypeOK, Staged
<1>6. BooksUnmixed'
  BY <1>5 DEF IInv, BooksUnmixed
<1> QED BY <1>4, <1>6 DEF IInv

\* The name the loop tries next.
LEMMA NameType ==
  ASSUME TypeOK, NEW b \in Builders, sequence[ProcessOf[b]] <= MaxSequence
  PROVE  /\ ProcessOf[b] \in Processes
         /\ sequence[ProcessOf[b]] \in 0..MaxSequence
         /\ <<PidOf[ProcessOf[b]], sequence[ProcessOf[b]]>> \in StageNames
<1>1. ProcessOf[b] \in Processes
  BY FunctionsAssumption
<1>2. PidOf[ProcessOf[b]] \in Pids
  BY <1>1, FunctionsAssumption
<1>3. sequence[ProcessOf[b]] \in 0..MaxSequence + 1
  BY <1>1 DEF TypeOK
<1>4. sequence[ProcessOf[b]] \in 0..MaxSequence
  BY <1>3, BoundsAssumption
<1> QED BY <1>1, <1>2, <1>4 DEF StageNames

LEMMA CreateStep ==
  ASSUME IInv, TypeOK', NEW b \in Builders, CreateStage(b)
  PROVE  IInv'
<1> DEFINE name == <<PidOf[ProcessOf[b]], sequence[ProcessOf[b]]>>
<1>1. CASE CreateDir(name) /\ stage' = [stage EXCEPT ![b] = name] /\ Goes(b, "writing")
  <2>1. name \in StageNames
    BY NameType DEF CreateStage, IInv
  <2> HIDE DEF name
  <2>2. /\ ~dirs[name].here /\ dirs' = [dirs EXCEPT ![name] = NewDir]
        /\ stage' = [stage EXCEPT ![b] = name] /\ phase' = [phase EXCEPT ![b] = "writing"]
    BY <1>1 DEF CreateDir, Goes
  <2>3. temp' = temp /\ book' = book
    BY DEF CreateStage
  <2>4. ASSUME NEW c \in Builders \ {b}, phase'[c] \in Staged
        PROVE  /\ phase'[c] = phase[c] /\ stage'[c] = stage[c] /\ stage[c] # name
               /\ dirs'[stage[c]] = dirs[stage[c]]
    BY <2>2, <2>4 DEF IInv, TypeOK, StagesOwned
  <2>5. /\ phase'[b] = "writing" /\ stage'[b] = name
        /\ dirs'[name].here /\ dirs'[name].by = {}
    BY <2>1, <2>2 DEF IInv, TypeOK, NewDir
  <2>6. \A n \in StageNames : ~dirs'[n].here => dirs'[n].by = {}
    BY <2>2, <2>5 DEF IInv, TypeOK, StagesOwned
  <2>7. StagesOwned'
    <3> SUFFICES ASSUME NEW c \in Builders, phase'[c] \in Staged
                 PROVE  /\ dirs'[stage'[c]].here
                        /\ dirs'[stage'[c]].by = IF phase'[c] = "writing" THEN {} ELSE {c}
                        /\ \A d \in Builders \ {c} : phase'[d] \in Staged => stage'[d] # stage'[c]
      BY <2>6 DEF StagesOwned
    <3>1. CASE c = b
      BY <2>4, <2>5, <3>1
    <3>2. CASE c # b
      BY <2>4, <2>5, <3>2 DEF IInv, StagesOwned
    <3> QED BY <3>1, <3>2
  <2>8. BooksUnmixed'
    BY <2>2, <2>3 DEF IInv, TypeOK, BooksUnmixed
  <2> QED BY <2>7, <2>8 DEF IInv
<1>2. CASE UNCHANGED <<stage, dirs>> /\ (Goes(b, "failed") \/ UNCHANGED phase)
  BY <1>2, PhaseStep DEF CreateStage, Goes, IInv, TypeOK, Staged
<1> QED BY <1>1, <1>2 DEF CreateStage

LEMMA WriteStep ==
  ASSUME IInv, TypeOK', NEW b \in Builders, Write(b)
  PROVE  IInv'
<1>1. /\ phase[b] = "writing" /\ stage[b] \in StageNames
      /\ dirs' = [dirs EXCEPT ![stage[b]].by = @ \cup {b}]
      /\ phase' = [phase EXCEPT ![b] = "written"]
      /\ stage' = stage /\ temp' = temp /\ book' = book
  BY DEF Write, Goes, IInv, TypeOK
<1>2. dirs[stage[b]].here /\ dirs[stage[b]].by = {} /\ dirs[stage[b]] \in Dirs
  BY <1>1 DEF IInv, TypeOK, StagesOwned, Staged
<1>3. dirs'[stage[b]].here /\ dirs'[stage[b]].by = {b} /\ phase'[b] = "written"
  BY <1>1, <1>2 DEF IInv, TypeOK, Dirs
<1>4. \A n \in StageNames : n # stage[b] => dirs'[n] = dirs[n]
  BY <1>1 DEF IInv, TypeOK
<1>5. ASSUME NEW c \in Builders \ {b}
      PROVE  phase'[c] = phase[c] /\ (phase[c] \in Staged => dirs'[stage[c]] = dirs[stage[c]])
  BY <1>1, <1>4 DEF IInv, TypeOK, StagesOwned, Staged
<1>6. StagesOwned'
  <2>1. ASSUME NEW c \in Builders, phase'[c] \in Staged
        PROVE  /\ dirs'[stage[c]].here
               /\ dirs'[stage[c]].by = IF phase'[c] = "writing" THEN {} ELSE {c}
               /\ \A d \in Builders \ {c} : phase'[d] \in Staged => stage[d] # stage[c]
    <3>1. \A d \in Builders : phase'[d] \in Staged => phase[d] \in Staged
      BY <1>1, <1>5 DEF Staged
    <3>2. \A d \in Builders \ {c} : phase'[d] \in Staged => stage[d] # stage[c]
      BY <2>1, <3>1 DEF IInv, StagesOwned
    <3>3. CASE c = b
      BY <1>3, <3>2, <3>3
    <3>4. CASE c # b
      BY <1>5, <2>1, <3>2, <3>4 DEF IInv, StagesOwned
    <3> QED BY <3>3, <3>4
  <2>2. \A n \in StageNames : ~dirs'[n].here => dirs'[n].by = {}
    BY <1>3, <1>4 DEF IInv, StagesOwned
  <2> QED BY <1>1, <2>1, <2>2 DEF StagesOwned
<1>7. BooksUnmixed'
  BY <1>1, <1>5, <1>3 DEF IInv, BooksUnmixed
<1> QED BY <1>6, <1>7 DEF IInv

LEMMA PackageStep ==
  ASSUME IInv, TypeOK', NEW b \in Builders, Package(b)
  PROVE  IInv'
<1>1. /\ phase[b] = "written" /\ temp' = [temp EXCEPT ![b] = dirs[stage[b]].by]
      /\ phase' = [phase EXCEPT ![b] = "packaged"]
      /\ stage' = stage /\ dirs' = dirs /\ book' = book
  BY DEF Package, Goes
<1>2. dirs[stage[b]].by = {b}
  BY <1>1 DEF IInv, StagesOwned, Staged
<1>3. temp'[b] = {b} /\ \A c \in Builders \ {b} : temp'[c] = temp[c] /\ phase'[c] = phase[c]
  BY <1>1, <1>2 DEF IInv, TypeOK
<1>4. StagesOwned'
  <2>1. phase'[b] = "packaged" /\ phase[b] \in Staged /\ phase'[b] \in Staged
    BY <1>1 DEF IInv, TypeOK, Staged
  <2>2. \A c \in Builders : phase'[c] \in Staged => phase[c] \in Staged
    BY <1>3, <2>1
  <2>3. \A c \in Builders : phase'[c] = "writing" <=> phase[c] = "writing"
    BY <1>1, <1>3, <2>1
  <2> QED BY <1>1, <2>2, <2>3 DEF IInv, StagesOwned
<1>5. BooksUnmixed'
  BY <1>1, <1>3 DEF IInv, BooksUnmixed
<1> QED BY <1>4, <1>5 DEF IInv

LEMMA CommitStep ==
  ASSUME IInv, TypeOK', NEW b \in Builders, Commit(b)
  PROVE  IInv'
<1>1. /\ phase[b] = "committing" /\ phase' = [phase EXCEPT ![b] = "built"]
      /\ book' = [book EXCEPT ![OutputOf[b]] = Built(temp[b])]
      /\ stage' = stage /\ dirs' = dirs /\ temp' = temp
  BY DEF Commit, Goes
<1>2. temp[b] = {b}
  BY <1>1 DEF IInv, BooksUnmixed
<1>3. \A c \in Builders : phase'[c] # phase[c] => phase'[c] = "built"
  BY <1>1 DEF IInv, TypeOK
<1>4. StagesOwned'
  BY <1>1, <1>3 DEF IInv, StagesOwned, Staged
<1>5. \A o \in Outputs : book'[o] = book[o] \/ book'[o] = Built({b})
  BY <1>1, <1>2 DEF IInv, TypeOK
<1>6. BooksUnmixed'
  BY <1>1, <1>3, <1>5 DEF IInv, BooksUnmixed
<1> QED BY <1>4, <1>6 DEF IInv

-----------------------------------------------------------------------------
LEMMA InitTriesLeft == Init => TriesLeft
  BY BoundsAssumption DEF Init, TriesLeft

LEMMA NextTypeOK == TypeOK /\ TriesLeft /\ [Next]_vars => TypeOK'
<1> SUFFICES ASSUME TypeOK, TriesLeft, [Next]_vars PROVE TypeOK'
  OBVIOUS
<1> DEFINE Phases == {"begin", "staging", "cleaned", "committing"} \cup Staged \cup Ended
<1>1. ASSUME NEW b \in Builders, NEW to \in Phases, Goes(b, to)
      PROVE  phase' \in [Builders -> Phases]
  BY <1>1 DEF TypeOK, Goes
<1>2. ASSUME NEW b \in Builders PROVE Removed(b) => dirs' \in [StageNames -> Dirs]
  BY DEF TypeOK, Removed, NoDir, Dirs
<1>3. ASSUME NEW b \in Builders, Begin(b) PROVE TypeOK'
  BY <1>1, <1>3 DEF Begin, TypeOK, Ended
<1>4. ASSUME NEW b \in Builders, CreateStage(b) PROVE TypeOK'
  <2> DEFINE p == ProcessOf[b]
             name == <<PidOf[p], sequence[p]>>
  <2>1. p \in Processes /\ sequence[p] \in 0..MaxSequence /\ name \in StageNames
    BY <1>4, NameType DEF CreateStage
  <2>2. /\ sequence' = [sequence EXCEPT ![p] = @ + 1]
        /\ \/ dirs' = [dirs EXCEPT ![name] = NewDir] /\ stage' = [stage EXCEPT ![b] = name]
              /\ Goes(b, "writing") /\ tries' = tries
           \/ /\ dirs' = dirs /\ stage' = stage /\ tries' = [tries EXCEPT ![b] = @ + 1]
              /\ Goes(b, "failed") \/ phase' = phase
        /\ UNCHANGED <<overwrite, strays, temp, book, raced, uncleaned>>
    BY <1>4 DEF CreateStage, CreateDir
  <2>3. phase[b] = "staging"
    BY <1>4 DEF CreateStage
  <2> HIDE DEF name, p
  <2>4. sequence' \in [Processes -> 0..MaxSequence + 1]
    <3>1. sequence[p] + 1 \in 0..MaxSequence + 1
      BY <2>1, BoundsAssumption
    <3> QED BY <2>2, <3>1 DEF TypeOK
  <2>5. phase' \in [Builders -> Phases]
    BY <1>1, <2>2 DEF TypeOK, Staged, Ended
  <2>6. stage' \in [Builders -> StageNames]
    BY <2>1, <2>2 DEF TypeOK
  <2>7. dirs' \in [StageNames -> Dirs]
    <3>1. NewDir \in Dirs
      BY DEF NewDir, Dirs
    <3> QED BY <2>1, <2>2, <3>1 DEF TypeOK
  <2>8. tries' \in [Builders -> 0..StageTries]
    <3>1. tries[b] + 1 \in 0..StageTries
      BY <2>3, BoundsAssumption DEF TypeOK, TriesLeft
    <3> QED BY <2>2, <3>1 DEF TypeOK
  <2> QED BY <2>2, <2>4, <2>5, <2>6, <2>7, <2>8 DEF TypeOK
<1>5. ASSUME NEW b \in Builders, Write(b) PROVE TypeOK'
  <2>1. dirs' \in [StageNames -> Dirs]
    <3>1. stage[b] \in StageNames /\ dirs[stage[b]] \in Dirs
      BY DEF TypeOK
    <3>2. [dirs[stage[b]] EXCEPT !.by = @ \cup {b}] \in Dirs
      BY <3>1 DEF Dirs
    <3> QED BY <1>5, <3>2 DEF Write, TypeOK
  <2>2. phase' \in [Builders -> Phases]
    BY <1>1, <1>5 DEF Write, Staged
  <2> QED BY <1>5, <2>1, <2>2 DEF Write, TypeOK
<1>6. ASSUME NEW b \in Builders, Package(b) PROVE TypeOK'
  <2>1. temp' \in [Builders -> SUBSET Builders]
    BY <1>6 DEF Package, TypeOK, Dirs
  <2>2. phase' \in [Builders -> Phases]
    BY <1>1, <1>6 DEF Package, Staged
  <2> QED BY <1>6, <2>1, <2>2 DEF Package, TypeOK
<1>7. ASSUME NEW b \in Builders, CleanUp(b) PROVE TypeOK'
  BY <1>1, <1>2, <1>7 DEF CleanUp, TypeOK
<1>8. ASSUME NEW b \in Builders, LookAgain(b) PROVE TypeOK'
  BY <1>1, <1>8 DEF LookAgain, Look, TypeOK, Ended
<1>9. ASSUME NEW b \in Builders, Commit(b) PROVE TypeOK'
  <2>1. book' \in [Outputs -> Books]
    <3>1. Built(temp[b]) \in Books
      BY DEF Built, Books, TypeOK
    <3> QED BY <1>9, <3>1 DEF Commit, TypeOK
  <2>2. raced' \in [Builders -> BOOLEAN]
    BY <1>9 DEF Commit, TypeOK
  <2>3. phase' \in [Builders -> Phases]
    BY <1>1, <1>9 DEF Commit, Ended
  <2> QED BY <1>9, <2>1, <2>2, <2>3 DEF Commit, TypeOK
<1>10. ASSUME NEW b \in Builders, Fail(b) PROVE TypeOK'
  <2>1. dirs' \in [StageNames -> Dirs] /\ uncleaned' \in BOOLEAN
    BY <1>2, <1>10 DEF Fail, Drop, TypeOK
  <2>2. phase' \in [Builders -> Phases]
    BY <1>1, <1>10 DEF Fail, Ended
  <2> QED BY <1>10, <2>1, <2>2 DEF Fail, TypeOK
<1>11. ASSUME NEW p \in Processes, Kill(p) PROVE TypeOK'
  <2>1. phase' \in [Builders -> Phases]
    BY <1>11 DEF Kill, TypeOK, Ended
  <2> QED BY <1>11, <2>1 DEF Kill, TypeOK
<1>12. CASE UNCHANGED vars
  BY <1>12 DEF vars, TypeOK
<1> QED BY <1>3, <1>4, <1>5, <1>6, <1>7, <1>8, <1>9, <1>10, <1>11, <1>12 DEF Next

LEMMA NextTriesLeft == TypeOK /\ TriesLeft /\ [Next]_vars => TriesLeft'
<1> SUFFICES ASSUME TypeOK, TriesLeft, [Next]_vars PROVE TriesLeft'
  OBVIOUS
<1>1. ASSUME NEW b \in Builders, CreateStage(b) PROVE TriesLeft'
  <2>1. CASE tries' = tries /\ Goes(b, "writing")
    BY <2>1 DEF Goes, TypeOK, TriesLeft
  <2>2. CASE /\ tries' = [tries EXCEPT ![b] = @ + 1]
             /\ IF tries[b] + 1 = StageTries THEN Goes(b, "failed") ELSE UNCHANGED phase
    <3>1. phase[b] = "staging" /\ tries[b] < StageTries /\ tries[b] \in Nat
      BY <1>1, BoundsAssumption DEF CreateStage, TypeOK, TriesLeft
    <3>2. phase'[b] = "failed" \/ tries'[b] < StageTries
      BY <2>2, <3>1, BoundsAssumption DEF Goes, TypeOK
    <3>3. \A c \in Builders \ {b} : tries'[c] = tries[c] /\ phase'[c] = phase[c]
      BY <2>2 DEF Goes, TypeOK
    <3> QED BY <3>2, <3>3 DEF TriesLeft
  <2> QED BY <1>1, <2>1, <2>2 DEF CreateStage, GivesUp
<1>2. ASSUME tries' = tries,
             \A b \in Builders : phase'[b] # phase[b] =>
               phase[b] = "begin" \/ phase'[b] \notin {"begin", "staging"}
      PROVE  TriesLeft'
  BY <1>2 DEF TriesLeft
<1>3. ASSUME NEW b \in Builders, Begin(b) PROVE TriesLeft'
  BY <1>2, <1>3 DEF Begin, Goes, TypeOK
<1>4. ASSUME NEW b \in Builders, Write(b) \/ Package(b) \/ CleanUp(b) PROVE TriesLeft'
  BY <1>2, <1>4 DEF Write, Package, CleanUp, Goes, TypeOK
<1>5. ASSUME NEW b \in Builders, LookAgain(b) \/ Commit(b) \/ Fail(b) PROVE TriesLeft'
  BY <1>2, <1>5 DEF LookAgain, Look, Commit, Fail, Goes, TypeOK
<1>6. ASSUME NEW p \in Processes, Kill(p) PROVE TriesLeft'
  BY <1>2, <1>6 DEF Kill, TypeOK
<1>7. CASE UNCHANGED vars
  BY <1>7 DEF vars, TriesLeft
<1> QED BY <1>1, <1>3, <1>4, <1>5, <1>6, <1>7 DEF Next

LEMMA NextIInv == IInv /\ TriesLeft /\ [Next]_vars => IInv'
<1> SUFFICES ASSUME IInv, TriesLeft, [Next]_vars PROVE IInv'
  OBVIOUS
<1>1. TypeOK'
  BY NextTypeOK DEF IInv
<1>2. ASSUME NEW b \in Builders, Begin(b) PROVE IInv'
  BY <1>1, <1>2, PhaseStep DEF Begin, Goes, Staged, IInv, TypeOK
<1>3. ASSUME NEW b \in Builders, LookAgain(b) PROVE IInv'
  BY <1>1, <1>3, PhaseStep DEF LookAgain, Look, Goes, Staged, IInv, TypeOK
<1>4. ASSUME NEW b \in Builders, CleanUp(b) PROVE IInv'
  <2>1. /\ phase[b] = "packaged" /\ Removed(b) /\ phase' = [phase EXCEPT ![b] = "cleaned"]
        /\ UNCHANGED <<stage, temp, book>>
    BY <1>4 DEF CleanUp, Goes
  <2>2. phase[b] \in Staged /\ "cleaned" \notin Staged
    BY <2>1 DEF Staged
  <2> QED BY <1>1, <2>1, <2>2, LeaveStep
<1>5. ASSUME NEW b \in Builders, Fail(b) PROVE IInv'
  <2>1. phase' = [phase EXCEPT ![b] = "failed"] /\ UNCHANGED <<stage, temp, book>>
    BY <1>5 DEF Fail, Goes
  <2>2. "failed" \notin Staged
    BY DEF Staged
  <2>3. CASE phase[b] \in Staged
    <3>1. Removed(b) \/ UNCHANGED dirs
      BY <1>5, <2>3 DEF Fail, Drop
    <3> QED BY <1>1, <2>1, <2>2, <2>3, <3>1, LeaveStep
  <2>4. CASE phase[b] \notin Staged
    <3>1. UNCHANGED dirs
      BY <1>5, <2>4 DEF Fail, Drop
    <3> QED BY <1>1, <2>1, <2>2, <3>1, PhaseStep DEF IInv, TypeOK
  <2> QED BY <2>3, <2>4
<1>6. ASSUME NEW p \in Processes, Kill(p) PROVE IInv'
  BY <1>1, <1>6, PhaseStep DEF Kill, Staged, IInv, TypeOK
<1>7. CASE UNCHANGED vars
  BY <1>1, <1>7, PhaseStep DEF vars
<1> QED BY <1>1, <1>2, <1>3, <1>4, <1>5, <1>6, <1>7, CreateStep, WriteStep, PackageStep,
           CommitStep DEF Next

-----------------------------------------------------------------------------
\* What the theorems rest on: the invariant of the stages, inductive together
\* with the tries a builder has left.
LEMMA EpubInvariant == Spec => [](IInv /\ TriesLeft)
<1>1. IInv /\ TriesLeft /\ [Next]_vars => (IInv /\ TriesLeft)'
  BY NextIInv, NextTriesLeft DEF IInv
<1> QED BY <1>1, InitIInv, InitTriesLeft, PTL DEF Spec

\* Every variable of the build has its type; with it, no builder tries more than
\* StageTries names for its stage.
THEOREM EpubTypeOK == Spec => []TypeOK
<1>1. IInv /\ TriesLeft => TypeOK
  BY DEF IInv
<1> QED BY <1>1, EpubInvariant, PTL

\* A stage directory stays until its builder is done with it: whatever the
\* processes' ids and the stages left behind, no other builder removes it.
THEOREM EpubStagesStay == Spec => []StagesStay
<1>1. IInv /\ TriesLeft => StagesStay
  BY DEF IInv, StagesOwned, StagesStay
<1> QED BY <1>1, EpubInvariant, PTL

\* No book is mixed from two builds: what a builder packages and renames to its
\* path is what it wrote itself, for any processes, ids and stages left behind.
THEOREM EpubBooksUnmixed == Spec => []BooksUnmixed
<1>1. IInv /\ TriesLeft => BooksUnmixed
  BY DEF IInv
<1> QED BY <1>1, EpubInvariant, PTL

-----------------------------------------------------------------------------
(***************************************************************************)
(* What is left behind, and what is replaced.                              *)
(***************************************************************************)

\* Unless something was not cleaned up, a stage directory was there before or is
\* some builder's that works on it.
Accounted ==
  uncleaned \/ \A n \in StageNames : dirs[n].here =>
    n \in strays \/ \E b \in Builders : phase[b] \in Staged /\ stage[b] = n

\* A builder about to commit over a book may, or the book has come since it looked.
Looked ==
  \A b \in Builders : phase[b] = "committing" /\ Exists(b) => MayReplace(b) \/ raced[b]

\* Steps that move one builder, and no directory away from it.
LEMMA AccountedMoves ==
  ASSUME IInv, Accounted, NEW b \in Builders, NEW to, phase' = [phase EXCEPT ![b] = to],
         phase[b] \in Staged => to \in Staged,
         \A n \in StageNames : dirs'[n].here => dirs[n].here,
         UNCHANGED <<strays, stage, uncleaned>>
  PROVE  Accounted'
BY DEF IInv, TypeOK, Accounted

LEMMA AccountedStep == IInv /\ Accounted /\ [Next]_vars => Accounted'
<1> SUFFICES ASSUME IInv, Accounted, [Next]_vars PROVE Accounted'
  OBVIOUS
<1> USE DEF Goes
<1>1. ASSUME NEW b \in Builders, Begin(b) \/ LookAgain(b) \/ Commit(b) PROVE Accounted'
  <2>1. /\ UNCHANGED <<dirs, strays, stage, uncleaned>> /\ phase[b] \notin Staged
        /\ \E to : phase' = [phase EXCEPT ![b] = to]
    BY <1>1 DEF Begin, LookAgain, Look, Commit, Staged
  <2>. QED BY <2>1, AccountedMoves
<1>2. ASSUME NEW b \in Builders, CreateStage(b) PROVE Accounted'
  <2> DEFINE name == <<PidOf[ProcessOf[b]], sequence[ProcessOf[b]]>>
  <2>1. name \in StageNames /\ phase[b] = "staging" /\ phase[b] \notin Staged
    BY <1>2, NameType DEF CreateStage, IInv, Staged
  <2>2. UNCHANGED <<strays, uncleaned>>
    BY <1>2 DEF CreateStage
  <2>3. CASE CreateDir(name) /\ stage' = [stage EXCEPT ![b] = name] /\ Goes(b, "writing")
    <3> HIDE DEF name
    <3>1. phase'[b] \in Staged /\ stage'[b] = name
      BY <2>3 DEF IInv, TypeOK, Staged
    <3>2. \A c \in Builders : phase[c] \in Staged => phase'[c] \in Staged /\ stage'[c] = stage[c]
      BY <2>1, <2>3 DEF IInv, TypeOK
    <3>3. \A n \in StageNames : dirs'[n].here => dirs[n].here \/ n = name
      BY <2>1, <2>3 DEF CreateDir, IInv, TypeOK
    <3>. QED BY <2>2, <3>1, <3>2, <3>3 DEF Accounted
  <2>4. CASE UNCHANGED <<stage, dirs>> /\ (Goes(b, "failed") \/ UNCHANGED phase)
    <3>1. \A c \in Builders : phase[c] \in Staged => phase'[c] \in Staged
      BY <2>1, <2>4 DEF IInv, TypeOK
    <3>. QED BY <2>2, <2>4, <3>1 DEF Accounted
  <2>. QED BY <1>2, <2>3, <2>4 DEF CreateStage
<1>3. ASSUME NEW b \in Builders, Write(b) \/ Package(b) PROVE Accounted'
  <2>1. /\ UNCHANGED <<strays, stage, uncleaned>>
        /\ \E to \in Staged : phase' = [phase EXCEPT ![b] = to]
    BY <1>3 DEF Write, Package, Staged
  <2>2. \A n \in StageNames : dirs'[n].here => dirs[n].here
    BY <1>3 DEF Write, Package, IInv, TypeOK, Dirs
  <2>. QED BY <2>1, <2>2, AccountedMoves
<1>4. ASSUME NEW b \in Builders, Removed(b), UNCHANGED <<strays, stage, uncleaned>>,
             NEW to, phase' = [phase EXCEPT ![b] = to]
      PROVE  Accounted'
  <2>1. \A n \in StageNames : dirs'[n].here => dirs[n].here /\ n # stage[b]
    BY <1>4 DEF Removed, NoDir, IInv, TypeOK
  <2>2. \A c \in Builders : c # b /\ phase[c] \in Staged => phase'[c] \in Staged
    BY <1>4 DEF IInv, TypeOK
  <2>. QED BY <1>4, <2>1, <2>2 DEF Accounted
<1>5. ASSUME NEW b \in Builders, CleanUp(b) PROVE Accounted'
  BY <1>4, <1>5 DEF CleanUp
<1>6. ASSUME NEW b \in Builders, Fail(b) PROVE Accounted'
  <2>1. CASE Removed(b) /\ UNCHANGED uncleaned
    BY <1>4, <1>6, <2>1 DEF Fail
  <2>2. CASE uncleaned'
    BY <2>2 DEF Accounted
  <2>3. CASE UNCHANGED <<dirs, uncleaned>> /\ phase[b] \notin Staged
    BY <1>6, <2>3, AccountedMoves DEF Fail
  <2>. QED BY <1>6, <2>1, <2>2, <2>3 DEF Fail, Drop
<1>7. ASSUME NEW p \in Processes, Kill(p) PROVE Accounted'
  BY <1>7 DEF Kill, Accounted
<1>8. CASE UNCHANGED vars
  BY <1>8 DEF vars, Accounted
<1> QED BY <1>1, <1>2, <1>3, <1>5, <1>6, <1>7, <1>8 DEF Next

LEMMA LookedStep == IInv /\ Looked /\ [Next]_vars => Looked'
<1> SUFFICES ASSUME IInv, Looked, [Next]_vars PROVE Looked'
  OBVIOUS
<1> USE DEF Goes, Looked, Exists, MayReplace, IInv, TypeOK
<1>1. ASSUME NEW b \in Builders, LookAgain(b) PROVE Looked'
  BY <1>1 DEF LookAgain, Look
<1>2. ASSUME NEW b \in Builders, Commit(b) PROVE Looked'
  <2>1. \A c \in Builders : phase'[c] = "committing" => phase[c] = "committing"
    BY <1>2 DEF Commit
  <2>2. \A c \in Builders : raced[c] => raced'[c]
    BY <1>2 DEF Commit
  <2>3. \A c \in Builders : phase[c] = "committing" /\ OutputOf[c] = OutputOf[b] => raced'[c]
    BY <1>2 DEF Commit
  <2>4. \A c \in Builders : OutputOf[c] # OutputOf[b] => book'[OutputOf[c]] = book[OutputOf[c]]
    BY <1>2, FunctionsAssumption DEF Commit
  <2>5. overwrite' = overwrite
    BY <1>2 DEF Commit
  <2>. QED BY <2>1, <2>2, <2>3, <2>4, <2>5
<1>3. ASSUME UNCHANGED <<overwrite, book, raced>>,
             \A b \in Builders : phase'[b] = "committing" => phase[b] = "committing"
      PROVE  Looked'
  BY <1>3
<1>4. ASSUME NEW b \in Builders, Begin(b) \/ Write(b) \/ Package(b) \/ CleanUp(b) \/ Fail(b)
      PROVE  Looked'
  BY <1>3, <1>4 DEF Begin, Write, Package, CleanUp, Fail
<1>5. ASSUME NEW b \in Builders, CreateStage(b) PROVE Looked'
  BY <1>3, <1>5 DEF CreateStage
<1>6. ASSUME NEW p \in Processes, Kill(p) PROVE Looked'
  BY <1>3, <1>6 DEF Kill
<1>7. CASE UNCHANGED vars
  BY <1>3, <1>7 DEF vars
<1> QED BY <1>1, <1>2, <1>4, <1>5, <1>6, <1>7 DEF Next

\* When everyone has ended, and nobody was killed or could not remove its stage,
\* only the stages that were there before are, however many builders failed.
THEOREM EpubNothingLeft == Spec => []NothingLeft
<1>1. Init => Accounted
  BY DEF Init, Accounted, NoDir
<1>2. Accounted => NothingLeft
  BY DEF Accounted, NothingLeft, Staged, Ended
<1>3. IInv /\ TriesLeft => IInv
  OBVIOUS
<1> QED BY <1>1, <1>2, <1>3, AccountedStep, EpubInvariant, PTL DEF Spec

\* Without --overwrite a build replaces a book only if that came to the path after
\* the build's second look, for any number of builders of any processes.
THEOREM EpubReplaces == Spec => ReplacesOnlyInRace
<1>1. Init => Looked
  BY DEF Init, Looked
<1>2. Looked /\ [Next]_vars =>
        [\A b \in Builders :
           (phase[b] = "committing" /\ phase'[b] = "built" /\ Exists(b)) =>
             MayReplace(b) \/ raced[b]]_vars
  BY DEF Looked
<1> QED BY <1>1, <1>2, LookedStep, EpubInvariant, PTL DEF Spec, ReplacesOnlyInRace
=============================================================================
