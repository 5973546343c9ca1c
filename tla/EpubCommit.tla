---------------------------- MODULE EpubCommit ----------------------------
(***************************************************************************)
(* How build_volume of src/epub.rs brings a book to its path: a stage      *)
(* directory of its own, a package made from it in an atomic temporary     *)
(* file, and a rename. Builders are the threads of several processes that  *)
(* work in one output directory; those of a process share STAGE_SEQUENCE.  *)
(* Processes may have the same id, one after the other or in containers.   *)
(*                                                                         *)
(* What a stage or a book holds is the set of the builders that wrote it.  *)
(***************************************************************************)
EXTENDS Integers

CONSTANTS
  Builders, Processes, Pids, Outputs,
  ProcessOf, PidOf, OutputOf,  \* functions: builder to process, process to id,
                               \* builder to output path
  StageTries,                  \* 100
  MaxSequence, MaxStray        \* bounds: of STAGE_SEQUENCE, and of the part of
                               \* it that earlier processes may have left

ASSUME FunctionsAssumption ==
  /\ ProcessOf \in [Builders -> Processes]
  /\ PidOf \in [Processes -> Pids]
  /\ OutputOf \in [Builders -> Outputs]
ASSUME BoundsAssumption ==
  StageTries \in Nat \ {0} /\ MaxSequence \in Nat /\ MaxStray \in 0..MaxSequence
VARIABLES
  overwrite,  \* --overwrite, by process
  phase,      \* of each builder
  sequence,   \* STAGE_SEQUENCE, by process
  tries,      \* names tried for a stage
  stage,      \* the name of a builder's stage
  dirs,       \* the stage directories that exist, and what they hold
  temp,       \* what a builder's atomic temporary file holds
  book,       \* the files at the output paths
  strays,     \* stage names left behind by processes killed before
  raced,      \* history: a book came to the path after the builder's last look
  uncleaned   \* history: a builder was killed, or a directory not removed

vars == <<overwrite, phase, sequence, tries, stage, dirs, temp, book, strays, raced,
          uncleaned>>

StageNames == Pids \X (0..MaxSequence)

Dirs == [here : BOOLEAN, by : SUBSET Builders]
NoDir == [here |-> FALSE, by |-> {}]
NewDir == [here |-> TRUE, by |-> {}]

Books == [kind : {"none", "older", "built"}, by : SUBSET Builders]
NoBook == [kind |-> "none", by |-> {}]
OlderBook == [kind |-> "older", by |-> {}]
Built(by) == [kind |-> "built", by |-> by]

Init ==
  /\ overwrite \in [Processes -> BOOLEAN]
  /\ phase = [b \in Builders |-> "begin"]
  /\ sequence = [p \in Processes |-> 0]
  /\ tries = [b \in Builders |-> 0]
  /\ stage \in [Builders -> StageNames]
  /\ \A b \in Builders : stage[b] = <<PidOf[ProcessOf[b]], 0>>
  /\ strays \in SUBSET (Pids \X (0..MaxStray))
  /\ dirs = [n \in StageNames |-> IF n \in strays THEN NewDir ELSE NoDir]
  /\ temp = [b \in Builders |-> {}]
  /\ book \in [Outputs -> {NoBook, OlderBook}]
  /\ raced = [b \in Builders |-> FALSE]
  /\ uncleaned = FALSE

Exists(b) == book[OutputOf[b]] # NoBook
MayReplace(b) == overwrite[ProcessOf[b]]
Goes(b, to) == phase' = [phase EXCEPT ![b] = to]

\* The first look at the output path.
Begin(b) ==
  /\ phase[b] = "begin"
  /\ IF Exists(b) /\ ~MayReplace(b) THEN Goes(b, "refused") ELSE Goes(b, "staging")
  /\ UNCHANGED <<overwrite, strays, sequence, tries, stage, dirs, temp, book, raced, uncleaned>>

\* Mutant of CreateDir: create_dir_all, for which an existing directory will do.
CreateDirAll(name) ==
  dirs' = [dirs EXCEPT ![name] = IF @.here THEN @ ELSE NewDir]

\* create_dir
CreateDir(name) ==
  /\ ~dirs[name].here
  /\ dirs' = [dirs EXCEPT ![name] = NewDir]

\* Mutant of GivesUp: one try too many.
GivesUpLate(n) == n > StageTries

\* The loop of StageDirectory::create ends.
GivesUp(n) == n = StageTries

\* One turn of the loop of StageDirectory::create.
CreateStage(b) ==
  LET p == ProcessOf[b]
      name == <<PidOf[p], sequence[p]>>
  IN
  /\ phase[b] = "staging"
  /\ sequence[p] <= MaxSequence
  /\ sequence' = [sequence EXCEPT ![p] = @ + 1]
  /\ \/ /\ CreateDir(name)
        /\ stage' = [stage EXCEPT ![b] = name]
        /\ Goes(b, "writing")
        /\ UNCHANGED tries
     \/ /\ dirs[name].here
        /\ tries' = [tries EXCEPT ![b] = @ + 1]
        /\ IF GivesUp(tries[b] + 1) THEN Goes(b, "failed") ELSE UNCHANGED phase
        /\ UNCHANGED <<stage, dirs>>
  /\ UNCHANGED <<overwrite, strays, temp, book, raced, uncleaned>>

\* The chapters, the style sheet and the package documents are written.
Write(b) ==
  /\ phase[b] = "writing"
  /\ dirs[stage[b]].here
  /\ dirs' = [dirs EXCEPT ![stage[b]].by = @ \cup {b}]
  /\ Goes(b, "written")
  /\ UNCHANGED <<overwrite, strays, sequence, tries, stage, temp, book, raced, uncleaned>>

\* package_stage reads the members back from the stage, and validates.
Package(b) ==
  /\ phase[b] = "written"
  /\ dirs[stage[b]].here
  /\ temp' = [temp EXCEPT ![b] = dirs[stage[b]].by]
  /\ Goes(b, "packaged")
  /\ UNCHANGED <<overwrite, strays, sequence, tries, stage, dirs, book, raced, uncleaned>>

\* Mutant of Removed: the stages of the whole process are removed.
RemovedAll(b) == dirs' = [n \in StageNames |-> IF n[1] = stage[b][1] THEN NoDir ELSE dirs[n]]

Removed(b) == dirs' = [dirs EXCEPT ![stage[b]] = NoDir]

\* StageDirectory::cleanup
CleanUp(b) ==
  /\ phase[b] = "packaged"
  /\ Removed(b)
  /\ Goes(b, "cleaned")
  /\ UNCHANGED <<overwrite, strays, sequence, tries, stage, temp, book, raced, uncleaned>>

\* Mutant of Look: the path is not looked at again.
LookAway(b) == Goes(b, "committing")

\* The second look; what is there is refused, and the package discarded.
Look(b) ==
  IF Exists(b) /\ ~MayReplace(b) THEN Goes(b, "refused") ELSE Goes(b, "committing")

LookAgain(b) ==
  /\ phase[b] = "cleaned"
  /\ Look(b)
  /\ UNCHANGED <<overwrite, strays, sequence, tries, stage, dirs, temp, book, raced, uncleaned>>

Commit(b) ==
  /\ phase[b] = "committing"
  /\ book' = [book EXCEPT ![OutputOf[b]] = Built(temp[b])]
  /\ raced' = [c \in Builders |->
                raced[c] \/ (phase[c] = "committing" /\ OutputOf[c] = OutputOf[b])]
  /\ Goes(b, "built")
  /\ UNCHANGED <<overwrite, strays, sequence, tries, stage, dirs, temp, uncleaned>>

Staged == {"writing", "written", "packaged"}

\* Mutant of Drop: nothing is removed on an error.
DropNothing(b) == UNCHANGED <<dirs, uncleaned>>

\* Drop of the StageDirectory: an error of the removal is ignored.
Drop(b) ==
  IF phase[b] \in Staged
    THEN \/ Removed(b) /\ UNCHANGED uncleaned
         \/ UNCHANGED dirs /\ uncleaned' = TRUE
    ELSE UNCHANGED <<dirs, uncleaned>>

\* An I/O error, malformed source, validation or the removal of the stage fails,
\* or the rename does; the temporary file goes with its handle.
Fail(b) ==
  /\ phase[b] \in Staged \cup {"staging", "committing"}
  /\ Drop(b)
  /\ Goes(b, "failed")
  /\ UNCHANGED <<overwrite, strays, sequence, tries, stage, temp, book, raced>>

Ended == {"refused", "failed", "built", "killed"}

Kill(p) ==
  /\ \E b \in Builders : ProcessOf[b] = p /\ phase[b] \notin Ended
  /\ phase' = [b \in Builders |->
                IF ProcessOf[b] = p /\ phase[b] \notin Ended THEN "killed" ELSE phase[b]]
  /\ uncleaned' = TRUE
  /\ UNCHANGED <<overwrite, strays, sequence, tries, stage, dirs, temp, book, raced>>

Next ==
  \/ \E b \in Builders :
       \/ Begin(b) \/ CreateStage(b) \/ Write(b) \/ Package(b) \/ CleanUp(b)
       \/ LookAgain(b) \/ Commit(b) \/ Fail(b)
  \/ \E p \in Processes : Kill(p)

Spec == Init /\ [][Next]_vars

-----------------------------------------------------------------------------
(***************************************************************************)
(* Properties.                                                             *)
(***************************************************************************)

TypeOK ==
  /\ overwrite \in [Processes -> BOOLEAN]
  /\ phase \in [Builders -> {"begin", "staging", "cleaned", "committing"} \cup Staged \cup Ended]
  /\ sequence \in [Processes -> 0..MaxSequence + 1]
  /\ tries \in [Builders -> 0..StageTries]
  /\ stage \in [Builders -> StageNames]
  /\ dirs \in [StageNames -> Dirs]
  /\ temp \in [Builders -> SUBSET Builders]
  /\ book \in [Outputs -> Books]
  /\ strays \subseteq StageNames
  /\ raced \in [Builders -> BOOLEAN]
  /\ uncleaned \in BOOLEAN

\* No book is mixed from two builds, whatever ids the processes have and
\* whatever stages were left behind: a book a builder committed is its own.
BooksUnmixed ==
  /\ \A o \in Outputs : book[o] \in {NoBook, OlderBook} \cup {Built({b}) : b \in Builders}
  /\ \A b \in Builders : phase[b] \in {"packaged", "cleaned", "committing"} => temp[b] = {b}

\* A stage directory stays until its builder is done with it: no other builder
\* removes it.
StagesStay ==
  \A b \in Builders : phase[b] \in Staged => dirs[stage[b]].here

\* When everyone has ended, and nobody was killed or could not remove its stage,
\* no stage directory is left but those there from the beginning.
NothingLeft ==
  (~uncleaned /\ \A b \in Builders : phase[b] \in Ended) =>
    \A n \in StageNames : dirs[n].here => n \in strays

\* Without --overwrite a build replaces a book only if that came to the path
\* after the build's second look at it.
ReplacesOnlyInRace ==
  [][\A b \in Builders :
       (phase[b] = "committing" /\ phase'[b] = "built" /\ Exists(b)) =>
         MayReplace(b) \/ raced[b]]_vars

\* docs/REQUIREMENTS.md: an existing EPUB is refused by default, and replaced
\* only when --overwrite was given.
ReplacesOnlyOnRequest ==
  [][\A o \in Outputs :
       (book[o] # NoBook /\ book'[o] # book[o]) =>
         \E b \in Builders : OutputOf[b] = o /\ MayReplace(b)]_vars
=============================================================================
