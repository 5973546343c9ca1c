---------------------------- MODULE ImportProofs ----------------------------
(***************************************************************************)
(* Theorems about Import for every set of files, commits, sessions and     *)
(* modes: any number of sessions race, fail and die. The argument is the   *)
(* write lock: between the validation of finalize_import and its commit    *)
(* the session is the only writer of the file it is attached to, and       *)
(* whoever takes the path away from it detaches it.                        *)
(***************************************************************************)
EXTENDS Import, TLAPS

\* The labels of a rebuild, and those at which it owns a staging database.
RebuildLabels == {"open", "file", "finalizing", "verify", "publish", "check", "done"}
StagingLabels == {"open", "file", "finalizing", "verify", "publish"}

\* A rebuild works on a staging database of its own commit, complete before it
\* is ready and ready before it is published.
StagingInv ==
  \A s \in Sessions :
    /\ mode[s] = "rebuild" => pc[s] \in RebuildLabels
    /\ mode[s] = "rebuild" /\ pc[s] \in StagingLabels =>
         staging[s].commit = want[s] /\ want[s] # NoCommit
    /\ staging[s].phase = "ready" => CatalogComplete(staging[s])
    /\ mode[s] = "rebuild" /\ pc[s] = "finalizing" =>
         staging[s].phase = "importing" /\ CatalogComplete(staging[s])
    /\ pc[s] = "publish" => mode[s] = "rebuild" /\ staging[s].phase = "ready"

\* SQLite's lock: one writer of the file at the path.
OneWriter == \A s, t \in Sessions : Writes(s) /\ Writes(t) => s = t

\* What finalize_import validated still holds when it commits.
FinalizingInv ==
  \A s \in Sessions :
    pc[s] = "finalizing" /\ Attached(s) =>
      target.phase = "importing" /\ CatalogComplete(target)

TargetInv == target.phase = "ready" => CatalogComplete(target)

IInv == TypeOK /\ StagingInv /\ OneWriter /\ FinalizingInv /\ TargetInv
-----------------------------------------------------------------------------
(***************************************************************************)
(* The databases the operators build.                                      *)
(***************************************************************************)

LEMMA Shapes ==
  /\ \A p \in Phases : Fresh(p) \in Databases
  /\ NoDatabase \in Databases /\ Named(NoDatabase)
  /\ \A p \in {"foreign", "blank", "migrated"} : Named(Fresh(p))
  /\ \A c \in Commits :
       /\ Importing(c) \in Databases /\ Named(Importing(c))
       /\ Importing(c).commit = c /\ Importing(c).phase = "importing"
       /\ ReadyCorpus(c) \in Databases /\ Named(ReadyCorpus(c))
BY NoCommitAssumption
   DEF Fresh, NoDatabase, Importing, ReadyCorpus, Databases, Named, Phases

\* Setting one file's mark, or the phase, keeps a database one.
LEMMA Changes ==
  ASSUME NEW db \in Databases, Named(db)
  PROVE  /\ \A f \in Files : \A m \in {"complete", "drifted"} :
              /\ [db EXCEPT !.files[f] = m] \in Databases
              /\ Named([db EXCEPT !.files[f] = m])
              /\ [db EXCEPT !.files[f] = m].phase = db.phase
              /\ [db EXCEPT !.files[f] = m].commit = db.commit
         /\ [db EXCEPT !.phase = "ready"] \in Databases
         /\ db.phase = "importing" => Named([db EXCEPT !.phase = "ready"])
         /\ [db EXCEPT !.phase = "ready"].phase = "ready"
         /\ [db EXCEPT !.phase = "ready"].commit = db.commit
         /\ [db EXCEPT !.phase = "ready"].files = db.files
BY DEF Databases, Phases, Named

LEMMA CompleteChanges ==
  ASSUME NEW db \in Databases
  PROVE  /\ \A f \in Files :
              CatalogComplete(db) => CatalogComplete([db EXCEPT !.files[f] = "complete"])
         /\ CatalogComplete(db) => CatalogComplete([db EXCEPT !.phase = "ready"])
         /\ \A c : CatalogComplete(ReadyCorpus(c))
BY DEF Databases, CatalogComplete, ReadyCorpus
-----------------------------------------------------------------------------
(***************************************************************************)
(* Types.                                                                  *)
(***************************************************************************)

LEMMA TypeInit == Init => TypeOK
<1>1. \A c \in Commits : ReadyCorpus(c) \in Databases /\ Named(ReadyCorpus(c))
  BY Shapes
<1>2. Fresh("foreign") \in Databases /\ Named(Fresh("foreign"))
  BY Shapes DEF Phases
<1>3. NoDatabase \in Databases /\ Named(NoDatabase)
  BY Shapes
<1>. QED BY <1>1, <1>2, <1>3 DEF Init, TypeOK, Labels

LEMMA RacedTypes ==
  ASSUME TypeOK, NEW s, NEW label, Goto(s, label)
  PROVE  raced' \in BOOLEAN
<1>1. Racing \in BOOLEAN
  BY DEF Racing
<1>. QED BY <1>1 DEF Goto, TypeOK

\* What a session leaves behind is typed, whatever detached says.
LEMMA GoneTypes ==
  ASSUME TypeOK, NEW s \in Sessions, NEW label \in Labels,
         NEW detached \in [Sessions -> BOOLEAN], Gone(s, label, detached)
  PROVE  /\ pc' \in [Sessions -> Labels]
         /\ mode' \in [Sessions -> {"new", "resume", "rebuild"}]
         /\ want' \in [Sessions -> Commits \cup {NoCommit}]
         /\ moved' \in [Sessions -> BOOLEAN]
         /\ staging' \in [Sessions -> Databases]
         /\ file' \in [Sessions -> Files \cup {NoFile}]
         /\ raced' \in BOOLEAN
         /\ \A t \in Sessions :
              Named(staging'[t]) /\ (t # s => want'[t] = want[t] /\ pc'[t] = pc[t])
         /\ pc'[s] = label
         /\ label # "idle" => want'[s] = want[s]
<1>1. NoDatabase \in Databases /\ Named(NoDatabase)
  BY Shapes
<1>2. raced' \in BOOLEAN
  BY RacedTypes DEF Gone
<1>. QED BY <1>1, <1>2 DEF Gone, Goto, TypeOK

LEMMA CommitTypes ==
  ASSUME TypeOK, NEW s \in Sessions, NEW db \in Databases, Named(db), Commit(s, db)
  PROVE  /\ target' \in Databases /\ Named(target')
         /\ staging' \in [Sessions -> Databases]
         /\ \A t \in Sessions : Named(staging'[t])
         /\ journal' \in {"none", "own", "foreign"}
BY DEF Commit, EndWrite, TypeOK

LEMMA WorkingTypes ==
  ASSUME TypeOK, NEW s \in Sessions
  PROVE  Working(s) \in Databases /\ Named(Working(s))
BY DEF TypeOK, Working

\* The phase finalization starts from is what makes its commit a database.
LEMMA TypeStep == TypeOK /\ StagingInv /\ FinalizingInv /\ [Next]_vars => TypeOK'
<1> SUFFICES ASSUME TypeOK, StagingInv, FinalizingInv, [Next]_vars PROVE TypeOK'
  OBVIOUS
<1> USE DEF At, Goto
<1>1. Detached \in [Sessions -> BOOLEAN]
  BY DEF Detached, TypeOK
<1>2. ASSUME NEW s \in Sessions, Step(s) PROVE TypeOK'
  <2>0. ASSUME NEW label, Goto(s, label) PROVE raced' \in BOOLEAN
    BY <2>0, RacedTypes
  <2>1. ASSUME NEW m \in Modes, NEW c \in Commits, NEW label \in Labels,
               Begin(s, m, c, label)
        PROVE  /\ pc' \in [Sessions -> Labels]
               /\ mode' \in [Sessions -> {"new", "resume", "rebuild"}]
               /\ want' \in [Sessions -> Commits \cup {NoCommit}]
               /\ moved' \in [Sessions -> BOOLEAN]
               /\ file' \in [Sessions -> Files \cup {NoFile}]
               /\ raced' \in BOOLEAN
               /\ \A t \in Sessions : pc'[t] # "idle" => want'[t] # NoCommit
    BY <2>0, <2>1, ModesAssumption, NoCommitAssumption DEF Begin, TypeOK
  <2>2. ASSUME NEW c \in Commits, BeginNew(s, c) \/ BeginResume(s, c) PROVE TypeOK'
    <3>1. PICK m \in Modes, label \in Labels : Begin(s, m, c, label)
      BY <2>2 DEF BeginNew, BeginResume, Begin, Labels
    <3>2. UNCHANGED <<target, journal, staging>>
      BY <2>2 DEF BeginNew, BeginResume
    <3>. QED BY <2>1, <3>1, <3>2 DEF TypeOK, Named
  <2>21. ASSUME NEW c \in Commits, BeginRebuild(s, c) PROVE TypeOK'
    <3>1. PICK m \in Modes, label \in Labels : Begin(s, m, c, label)
      BY <2>21 DEF BeginRebuild, Begin, Labels
    <3>2. UNCHANGED <<target, journal>>
      BY <2>21 DEF BeginRebuild
    <3>3. Importing(c) \in Databases /\ Named(Importing(c))
      BY Shapes
    <3>4. staging' \in [Sessions -> Databases] /\ \A t \in Sessions : Named(staging'[t])
      BY <2>21, <3>3 DEF BeginRebuild, TypeOK
    <3>. QED BY <2>1, <3>1, <3>2, <3>4 DEF TypeOK, Named
  <2>3. CASE Reserve(s)
    <3>1. CASE Reservable(target)
      <4>1. Fresh("blank") \in Databases /\ Named(Fresh("blank"))
        BY Shapes DEF Phases
      <4>. QED BY <2>0, <2>3, <3>1, <4>1 DEF Reserve, TypeOK, Labels
    <3>2. CASE ~Reservable(target)
      <4>1. Gone(s, "idle", moved) /\ UNCHANGED <<target, journal>>
        BY <2>3, <3>2 DEF Reserve
      <4>. QED BY <4>1, GoneTypes DEF TypeOK, Labels
    <3>. QED BY <3>1, <3>2
  <2>4. CASE BeginSetUp(s)
    BY <2>0, <2>4 DEF BeginSetUp, BeginWrite, TypeOK, Labels
  <2>5. CASE CommitMigration(s)
    <3>1. Fresh("migrated") \in Databases /\ Named(Fresh("migrated"))
      BY Shapes DEF Phases
    <3>. QED BY <2>0, <2>5, <3>1, CommitTypes DEF CommitMigration, TypeOK, Labels
  <2>6. CASE CommitCorpus(s)
    <3>1. want[s] \in Commits
      BY <2>6 DEF CommitCorpus, TypeOK
    <3>. QED BY <2>0, <2>6, <3>1, Shapes, CommitTypes DEF CommitCorpus, TypeOK, Labels
  <2>7. ASSUME NEW f \in Files, BeginFile(s, f) PROVE TypeOK'
    BY <2>0, <2>7 DEF BeginFile, BeginWrite, TypeOK, Labels
  <2>8. CASE CommitFile(s)
    <3> DEFINE db == [Working(s) EXCEPT !.files[file[s]] = "complete"]
    <3>1. db \in Databases /\ Named(db)
      <4>1. CASE file[s] \in Files
        BY <4>1, WorkingTypes, Changes
      <4>2. CASE file[s] \notin Files
        <5>1. db = Working(s)
          BY <4>2, WorkingTypes DEF Databases
        <5>. QED BY <5>1, WorkingTypes
      <4>. QED BY <4>1, <4>2
    <3>2. Commit(s, db)
      BY <2>8 DEF CommitFile
    <3>. QED BY <2>0, <2>8, <3>1, <3>2, CommitTypes DEF CommitFile, TypeOK, Labels
  <2>9. CASE RollBackFile(s)
    BY <2>0, <2>9 DEF RollBackFile, EndWrite, TypeOK, Labels
  <2>10. CASE BeginFinalize(s)
    BY <2>0, <2>10 DEF BeginFinalize, BeginWrite, TypeOK, Labels
  <2>11. CASE CommitReady(s)
    <3> DEFINE db == [Working(s) EXCEPT !.phase = "ready"]
    <3>1. db \in Databases
      BY WorkingTypes, Changes
    <3>2. Attached(s) \/ ~WorksInPlace(mode[s]) => Named(db)
      <4>1. Attached(s) \/ ~WorksInPlace(mode[s]) => Working(s).phase = "importing"
        BY <2>11 DEF CommitReady, FinalizingInv, StagingInv, Working, Attached, WorksInPlace
      <4>. QED BY <4>1, WorkingTypes, Changes
    <3>3. Commit(s, db)
      BY <2>11 DEF CommitReady
    <3>4. target' \in Databases /\ Named(target')
      BY <3>1, <3>2, <3>3 DEF Commit, TypeOK
    <3>5. staging' \in [Sessions -> Databases] /\ \A t \in Sessions : Named(staging'[t])
      BY <3>1, <3>2, <3>3 DEF Commit, TypeOK
    <3>. QED BY <2>0, <2>11, <3>3, <3>4, <3>5 DEF CommitReady, Commit, EndWrite, TypeOK, Labels
  <2>12. CASE Verify(s) \/ CheckPublished(s)
    <3>1. Gone(s, "done", moved) /\ UNCHANGED <<target, journal>> /\ pc[s] # "idle"
      BY <2>12 DEF Verify, CheckPublished
    <3>. QED BY <3>1, GoneTypes DEF TypeOK, Labels
  <2>13. CASE VerifyStaging(s)
    BY <2>0, <2>13 DEF VerifyStaging, TypeOK, Labels
  <2>14. CASE Publish(s)
    <3>1. Gone(s, "check", Detached) /\ pc[s] # "idle" /\ target' = staging[s]
      BY <2>14 DEF Publish
    <3>2. journal' \in {"none", "own", "foreign"}
      BY <2>14 DEF Publish, TypeOK
    <3>. QED BY <1>1, <3>1, <3>2, GoneTypes DEF TypeOK, Labels
  <2>15. CASE FailNew(s)
    <3>1. Gone(s, "idle", Detached) /\ target' = NoDatabase /\ journal' = "none"
      BY <2>15 DEF FailNew
    <3>. QED BY <1>1, <3>1, GoneTypes, Shapes DEF TypeOK, Labels
  <2>16. CASE Leave(s)
    <3>1. Gone(s, "idle", moved) /\ target' = target
      BY <2>16 DEF Leave
    <3>2. journal' \in {"none", "own", "foreign"}
      BY <2>16 DEF Leave, EndWrite, TypeOK
    <3>. QED BY <3>1, <3>2, GoneTypes DEF TypeOK, Labels
  <2>17. CASE Crash(s)
    <3>1. Gone(s, "idle", moved) /\ target' \in {target, Fresh("foreign")} /\ UNCHANGED journal
      BY <2>17 DEF Crash
    <3>. QED BY <3>1, GoneTypes, Shapes DEF TypeOK, Labels, Phases
  <2>18. CASE RollBackHot(s)
    <3>1. target' \in {target, Fresh("foreign")} /\ journal' = "none" /\ UNCHANGED session
      BY <2>18 DEF RollBackHot
    <3>2. target' \in Databases /\ Named(target')
      BY <3>1, Shapes DEF TypeOK, Phases
    <3>. QED BY <3>1, <3>2 DEF session, TypeOK, Named
  <2>. QED
    BY <1>2, <2>2, <2>21, <2>3, <2>4, <2>5, <2>6, <2>7, <2>8, <2>9, <2>10, <2>11,
       <2>12, <2>13, <2>14, <2>15, <2>16, <2>17, <2>18 DEF Step
<1>3. ASSUME NEW f \in Files, Drift(f) PROVE TypeOK'
  <2>1. target \in Databases /\ Named(target)
    BY DEF TypeOK
  <2>2. target' \in Databases /\ Named(target')
    BY <1>3, <2>1, Changes DEF Drift
  <2>. QED BY <1>3, <2>2 DEF Drift, session, TypeOK, Named
<1>4. CASE UNCHANGED vars
  BY <1>4 DEF vars, TypeOK, Named
<1>. QED BY <1>2, <1>3, <1>4 DEF Next

-----------------------------------------------------------------------------
(***************************************************************************)
(* Sessions.                                                               *)
(***************************************************************************)

\* A step of one session leaves the others where they are; their connection can
\* only lose its file.
LEMMA OnlySelf ==
  ASSUME TypeOK, NEW s \in Sessions, Step(s), NEW t \in Sessions, t # s
  PROVE  /\ pc'[t] = pc[t] /\ mode'[t] = mode[t] /\ want'[t] = want[t]
         /\ staging'[t] = staging[t]
         /\ moved'[t] = moved[t] \/ moved'[t] = Detached[t]
<1> USE DEF TypeOK, Begin, Gone, At, Goto, Commit
<1>1. ASSUME NEW c \in Commits, BeginNew(s, c) \/ BeginResume(s, c) \/ BeginRebuild(s, c)
      PROVE  /\ pc'[t] = pc[t] /\ mode'[t] = mode[t] /\ want'[t] = want[t]
             /\ staging'[t] = staging[t] /\ moved'[t] = moved[t]
  BY <1>1 DEF BeginNew, BeginResume, BeginRebuild
<1>2. CASE Reserve(s) \/ BeginSetUp(s) \/ CommitMigration(s) \/ CommitCorpus(s)
  BY <1>2 DEF Reserve, BeginSetUp, CommitMigration, CommitCorpus
<1>3. CASE (\E f \in Files : BeginFile(s, f)) \/ CommitFile(s) \/ RollBackFile(s)
  BY <1>3 DEF BeginFile, CommitFile, RollBackFile
<1>4. CASE BeginFinalize(s) \/ CommitReady(s)
  BY <1>4 DEF BeginFinalize, CommitReady
<1>5. CASE Verify(s) \/ VerifyStaging(s) \/ CheckPublished(s)
  BY <1>5 DEF Verify, VerifyStaging, CheckPublished
<1>6. CASE Publish(s) \/ FailNew(s)
  BY <1>6 DEF Publish, FailNew, Detached
<1>7. CASE Leave(s) \/ Crash(s) \/ RollBackHot(s)
  BY <1>7 DEF Leave, Crash, RollBackHot, session
<1>. QED BY <1>1, <1>2, <1>3, <1>4, <1>5, <1>6, <1>7 DEF Step

\* A write transaction on the file at the path is only entered when there is
\* none, and no step of another session enters it.
LEMMA EnterWrite ==
  ASSUME TypeOK, NEW s \in Sessions, Step(s), NEW t \in Sessions, Writes(t)', ~Writes(t)
  PROVE  t = s /\ ~Locked
<1>1. t = s
  <2> SUFFICES ASSUME t # s PROVE FALSE
    OBVIOUS
  <2>1. pc'[t] = pc[t] /\ mode'[t] = mode[t] /\ (moved[t] => moved'[t])
    BY OnlySelf DEF Detached
  <2>. QED BY <2>1 DEF Writes, Attached
<1>2. ~Locked
  <2> SUFFICES ASSUME Locked PROVE FALSE
    OBVIOUS
  <2> USE <1>1 DEF TypeOK, Writes, Attached, WriteLabels, Begin, Gone, At, Goto
  <2>1. ASSUME NEW c \in Commits, BeginNew(s, c) \/ BeginResume(s, c) \/ BeginRebuild(s, c)
        PROVE  FALSE
    BY <2>1 DEF BeginNew, BeginResume, BeginRebuild
  <2>2. CASE Reserve(s) \/ CommitMigration(s) \/ CommitCorpus(s) \/ CommitFile(s) \/ RollBackFile(s)
    BY <2>2 DEF Reserve, CommitMigration, CommitCorpus, CommitFile, RollBackFile
  <2>3. CASE (\E f \in Files : BeginFile(s, f)) \/ BeginSetUp(s) \/ BeginFinalize(s)
    BY <2>3 DEF BeginFile, BeginSetUp, BeginFinalize, BeginWrite
  <2>4. CASE CommitReady(s) \/ Verify(s) \/ VerifyStaging(s) \/ CheckPublished(s)
    BY <2>4 DEF CommitReady, Verify, VerifyStaging, CheckPublished
  <2>5. CASE Publish(s) \/ FailNew(s) \/ Leave(s) \/ Crash(s)
    BY <2>5 DEF Publish, FailNew, Leave, Crash
  <2>6. CASE RollBackHot(s)
    BY <2>6 DEF RollBackHot, session
  <2>. QED BY <2>1, <2>2, <2>3, <2>4, <2>5, <2>6 DEF Step
<1>. QED BY <1>1, <1>2

LEMMA OneWriterStep == TypeOK /\ OneWriter /\ [Next]_vars => OneWriter'
<1> SUFFICES ASSUME TypeOK, OneWriter, [Next]_vars,
                    NEW t \in Sessions, NEW u \in Sessions, Writes(t)', Writes(u)'
             PROVE  t = u
  BY DEF OneWriter
<1>1. ASSUME NEW s \in Sessions, Step(s) PROVE t = u
  <2>1. CASE Writes(t) /\ Writes(u)
    BY <2>1 DEF OneWriter
  <2>2. CASE Writes(t) /\ ~Writes(u)
    BY <1>1, <2>2, EnterWrite DEF Locked
  <2>3. CASE ~Writes(t) /\ Writes(u)
    BY <1>1, <2>3, EnterWrite DEF Locked
  <2>4. CASE ~Writes(t) /\ ~Writes(u)
    BY <1>1, <2>4, EnterWrite
  <2>. QED BY <2>1, <2>2, <2>3, <2>4
<1>2. CASE (\E f \in Files : Drift(f)) \/ UNCHANGED vars
  BY <1>2 DEF Drift, session, vars, Writes, Attached, OneWriter
<1>. QED BY <1>1, <1>2 DEF Next

\* While a session writes, the file at the path changes under another one's hand
\* only by being taken away from it.
LEMMA WriterKeepsTarget ==
  ASSUME TypeOK, OneWriter, NEW t \in Sessions, Writes(t), target.phase # "absent",
         NEW s \in Sessions, Step(s), s # t
  PROVE  target' = target \/ ~Attached(t)'
<1>1. Locked /\ ~Writes(s)
  BY DEF Locked, OneWriter
<1>2. pc[t] \in ConnectedLabels /\ WorksInPlace(mode[t])
  BY DEF Writes, Attached, ConnectedLabels
<1>3. CASE CommitMigration(s) \/ CommitCorpus(s) \/ CommitFile(s) \/ CommitReady(s)
  BY <1>1, <1>3 DEF CommitMigration, CommitCorpus, CommitFile, CommitReady, Commit,
                    Writes, WriteLabels, At
<1>4. CASE Publish(s) \/ FailNew(s)
  <2>1. moved' = [Detached EXCEPT ![s] = FALSE] /\ mode'[t] = mode[t]
    BY <1>4, OnlySelf DEF Publish, FailNew, Gone
  <2>2. moved'[t]
    BY <1>2, <2>1 DEF Detached
  <2>. QED BY <2>2 DEF Attached
<1>5. CASE Crash(s) \/ RollBackHot(s)
  BY <1>1, <1>5 DEF Crash, RollBackHot, HotJournal
<1>6. CASE Reserve(s)
  BY <1>6 DEF Reserve, Reservable
<1>7. ASSUME NEW c \in Commits, BeginNew(s, c) \/ BeginResume(s, c) \/ BeginRebuild(s, c)
      PROVE  target' = target
  BY <1>7 DEF BeginNew, BeginResume, BeginRebuild
<1>8. CASE (\E f \in Files : BeginFile(s, f)) \/ BeginSetUp(s) \/ RollBackFile(s)
           \/ BeginFinalize(s) \/ Verify(s) \/ VerifyStaging(s) \/ CheckPublished(s) \/ Leave(s)
  BY <1>8 DEF BeginFile, BeginSetUp, RollBackFile, BeginFinalize, Verify, VerifyStaging,
              CheckPublished, Leave
<1>. QED BY <1>3, <1>4, <1>5, <1>6, <1>7, <1>8 DEF Step

LEMMA FinalizingStep ==
  TypeOK /\ OneWriter /\ FinalizingInv /\ [Next]_vars => FinalizingInv'
<1> SUFFICES ASSUME TypeOK, OneWriter, FinalizingInv, [Next]_vars,
                    NEW t \in Sessions, pc'[t] = "finalizing", Attached(t)'
             PROVE  target'.phase = "importing" /\ CatalogComplete(target')
  BY DEF FinalizingInv, CatalogComplete
<1>1. CASE UNCHANGED vars
  BY <1>1 DEF vars, FinalizingInv, Attached
<1>2. ASSUME NEW f \in Files, Drift(f) PROVE FALSE
  BY <1>2 DEF Drift, session, Locked, Writes, Attached, WriteLabels
<1>3. ASSUME NEW s \in Sessions, Step(s), s # t
      PROVE  target'.phase = "importing" /\ CatalogComplete(target')
  <2>1. pc[t] = "finalizing" /\ Attached(t)
    BY <1>3, OnlySelf DEF Attached, Detached
  <2>2. Writes(t) /\ target.phase = "importing" /\ CatalogComplete(target)
    BY <2>1 DEF FinalizingInv, Writes, WriteLabels
  <2>3. target' = target
    BY <1>3, <2>2, WriterKeepsTarget
  <2>. QED BY <2>2, <2>3
<1>4. CASE Step(t)
  <2>1. CASE BeginFinalize(t)
    BY <2>1 DEF BeginFinalize, Attached, Working, ImportingFor
  <2>2. CASE RollBackHot(t)
    BY <2>2 DEF RollBackHot, session, HotJournal, Locked, Writes, Attached, WriteLabels
  <2>3. CASE ~BeginFinalize(t) /\ ~RollBackHot(t)
    <3> SUFFICES pc'[t] # "finalizing"
      OBVIOUS
    <3> USE DEF TypeOK, Begin, Gone, At, Goto
    <3>1. ASSUME NEW c \in Commits, BeginNew(t, c) \/ BeginResume(t, c) \/ BeginRebuild(t, c)
          PROVE  pc'[t] # "finalizing"
      BY <3>1 DEF BeginNew, BeginResume, BeginRebuild
    <3>2. CASE Reserve(t) \/ BeginSetUp(t) \/ CommitMigration(t) \/ CommitCorpus(t)
      BY <3>2 DEF Reserve, BeginSetUp, CommitMigration, CommitCorpus
    <3>3. CASE (\E f \in Files : BeginFile(t, f)) \/ CommitFile(t) \/ RollBackFile(t) \/ CommitReady(t)
      BY <3>3 DEF BeginFile, CommitFile, RollBackFile, CommitReady
    <3>4. CASE Verify(t) \/ VerifyStaging(t) \/ CheckPublished(t) \/ Publish(t)
      BY <3>4 DEF Verify, VerifyStaging, CheckPublished, Publish
    <3>5. CASE FailNew(t) \/ Leave(t) \/ Crash(t)
      BY <3>5 DEF FailNew, Leave, Crash
    <3>. QED BY <1>4, <2>3, <3>1, <3>2, <3>3, <3>4, <3>5 DEF Step
  <2>. QED BY <2>1, <2>2, <2>3
<1>. QED BY <1>1, <1>2, <1>3, <1>4 DEF Next

LEMMA TargetStep ==
  TypeOK /\ StagingInv /\ FinalizingInv /\ TargetInv /\ [Next]_vars => TargetInv'
<1> SUFFICES ASSUME TypeOK, StagingInv, FinalizingInv, TargetInv, [Next]_vars,
                    target'.phase = "ready"
             PROVE  CatalogComplete(target')
  BY DEF TargetInv, CatalogComplete
<1>1. CASE target' = target
  BY <1>1 DEF TargetInv
<1>2. ASSUME NEW s \in Sessions, Step(s), target' # target
      PROVE  CatalogComplete(target')
  <2>1. CASE CommitMigration(s) \/ CommitCorpus(s)
    BY <2>1, <1>2 DEF CommitMigration, CommitCorpus, Commit, Fresh, Importing
  <2>2. CASE CommitFile(s)
    <3>1. target' = [target EXCEPT !.files[file[s]] = "complete"]
      BY <1>2, <2>2 DEF CommitFile, Commit, Working, Attached
    <3>2. CASE file[s] \in Files
      <4>1. target.phase = "ready"
        BY <3>1, <3>2, Changes DEF TypeOK
      <4>. QED BY <3>1, <3>2, <4>1, CompleteChanges DEF TargetInv, TypeOK
    <3>3. CASE file[s] \notin Files
      BY <1>2, <3>1, <3>3 DEF TypeOK, Databases
    <3>. QED BY <3>2, <3>3
  <2>3. CASE CommitReady(s)
    <3>1. Attached(s) /\ target' = [target EXCEPT !.phase = "ready"]
      BY <1>2, <2>3 DEF CommitReady, Commit, Working, Attached
    <3>2. CatalogComplete(target)
      BY <2>3, <3>1 DEF CommitReady, At, FinalizingInv
    <3>. QED BY <3>1, <3>2, CompleteChanges DEF TypeOK
  <2>4. CASE Publish(s)
    BY <2>4 DEF Publish, At, StagingInv
  <2>5. CASE Reserve(s) \/ FailNew(s) \/ Crash(s) \/ RollBackHot(s)
    BY <1>2, <2>5 DEF Reserve, FailNew, Crash, RollBackHot, Fresh, NoDatabase
  <2>6. ASSUME NEW c \in Commits, BeginNew(s, c) \/ BeginResume(s, c) \/ BeginRebuild(s, c)
        PROVE  target' = target
    BY <2>6 DEF BeginNew, BeginResume, BeginRebuild
  <2>7. CASE (\E f \in Files : BeginFile(s, f)) \/ BeginSetUp(s) \/ RollBackFile(s)
             \/ BeginFinalize(s) \/ Verify(s) \/ VerifyStaging(s) \/ CheckPublished(s) \/ Leave(s)
    BY <1>2, <2>7 DEF BeginFile, BeginSetUp, RollBackFile, BeginFinalize, Verify,
                      VerifyStaging, CheckPublished, Leave
  <2>. QED BY <1>2, <2>1, <2>2, <2>3, <2>4, <2>5, <2>6, <2>7 DEF Step
<1>3. ASSUME NEW f \in Files, Drift(f) PROVE FALSE
  BY <1>3, Changes DEF Drift, TypeOK
<1>. QED BY <1>1, <1>2, <1>3 DEF Next, vars

\* StagingInv of one session.
StagingOf(s) ==
  /\ mode[s] = "rebuild" => pc[s] \in RebuildLabels
  /\ mode[s] = "rebuild" /\ pc[s] \in StagingLabels =>
       staging[s].commit = want[s] /\ want[s] # NoCommit
  /\ staging[s].phase = "ready" => CatalogComplete(staging[s])
  /\ mode[s] = "rebuild" /\ pc[s] = "finalizing" =>
       staging[s].phase = "importing" /\ CatalogComplete(staging[s])
  /\ pc[s] = "publish" => mode[s] = "rebuild" /\ staging[s].phase = "ready"

LEMMA GoneStaging ==
  ASSUME TypeOK, StagingInv, NEW s \in Sessions, NEW label \in {"idle", "done", "check"},
         NEW detached, Gone(s, label, detached)
  PROVE  StagingOf(s)'
BY DEF Gone, Goto, TypeOK, StagingInv, StagingOf, NoDatabase, Fresh, RebuildLabels,
       StagingLabels, CatalogComplete

LEMMA StagingStep == TypeOK /\ StagingInv /\ [Next]_vars => StagingInv'
<1> SUFFICES ASSUME TypeOK, StagingInv, [Next]_vars, NEW t \in Sessions
             PROVE  StagingOf(t)'
  BY DEF StagingInv, StagingOf, CatalogComplete
<1>0. StagingOf(t)
  BY DEF StagingInv, StagingOf
<1>1. CASE UNCHANGED vars \/ \E f \in Files : Drift(f)
  BY <1>0, <1>1 DEF vars, Drift, session, StagingOf, CatalogComplete
<1>2. ASSUME NEW s \in Sessions, Step(s), s # t PROVE StagingOf(t)'
  BY <1>0, <1>2, OnlySelf DEF StagingOf, CatalogComplete
<1>3. CASE Step(t)
  <2> USE <1>0 DEF TypeOK, At, Goto
  <2>1. ASSUME NEW c \in Commits, BeginNew(t, c) \/ BeginResume(t, c) PROVE StagingOf(t)'
    BY <2>1 DEF BeginNew, BeginResume, Begin, StagingOf, CatalogComplete, RebuildLabels, StagingLabels
  <2>2. ASSUME NEW c \in Commits, BeginRebuild(t, c) PROVE StagingOf(t)'
    <3>1. staging'[t] = Importing(c) /\ want'[t] = c /\ pc'[t] = "open" /\ c # NoCommit
      BY <2>2, NoCommitAssumption DEF BeginRebuild, Begin
    <3>2. staging'[t].commit = c /\ staging'[t].phase = "importing"
      BY <3>1, Shapes
    <3>. QED BY <3>1, <3>2 DEF StagingOf, RebuildLabels
  <2>3. CASE Reserve(t)
    <3>1. CASE Reservable(target)
      BY <2>3, <3>1 DEF Reserve, StagingOf, CatalogComplete, RebuildLabels
    <3>2. CASE ~Reservable(target)
      BY <2>3, <3>2, GoneStaging DEF Reserve
    <3>. QED BY <3>1, <3>2
  <2>4. CASE BeginSetUp(t) \/ CommitMigration(t) \/ CommitCorpus(t)
    <3>1. mode[t] # "rebuild"
      BY <2>4 DEF BeginSetUp, CommitMigration, CommitCorpus, StagingOf, RebuildLabels
    <3>2. /\ UNCHANGED <<mode, staging>>
          /\ pc'[t] \in {"migrating", "initializing", "init", "open"}
      BY <2>4, <3>1 DEF BeginSetUp, CommitMigration, CommitCorpus, Commit, WorksInPlace
    <3>. QED BY <3>1, <3>2 DEF StagingOf, CatalogComplete
  <2>5. CASE (\E f \in Files : BeginFile(t, f)) \/ RollBackFile(t)
    BY <2>5 DEF BeginFile, RollBackFile, StagingOf, CatalogComplete, RebuildLabels, StagingLabels
  <2>6. CASE CommitFile(t)
    <3>1. pc[t] = "file" /\ pc'[t] = "open" /\ UNCHANGED <<mode, want>>
      BY <2>6 DEF CommitFile
    <3>2. CASE mode[t] = "rebuild"
      <4> DEFINE db == [staging[t] EXCEPT !.files[file[t]] = "complete"]
      <4>1. staging'[t] = db
        BY <2>6, <3>2 DEF CommitFile, Commit, WorksInPlace, Working
      <4>2. db.phase = staging[t].phase /\ db.commit = staging[t].commit
        BY DEF Databases
      <4>3. CatalogComplete(staging[t]) => CatalogComplete(db)
        BY DEF Databases, CatalogComplete
      <4>. QED BY <3>1, <3>2, <4>1, <4>2, <4>3
           DEF StagingOf, RebuildLabels, StagingLabels, CatalogComplete
    <3>3. CASE mode[t] # "rebuild"
      <4>1. staging' = staging
        BY <2>6, <3>3 DEF CommitFile, Commit, WorksInPlace
      <4>. QED BY <3>1, <3>3, <4>1 DEF StagingOf, CatalogComplete
    <3>. QED BY <3>2, <3>3
  <2>7. CASE BeginFinalize(t)
    BY <2>7 DEF BeginFinalize, ImportingFor, Working, WorksInPlace, StagingOf,
                CatalogComplete, RebuildLabels, StagingLabels
  <2>8. CASE CommitReady(t)
    <3>1. pc[t] = "finalizing" /\ pc'[t] = "verify" /\ UNCHANGED <<mode, want>>
      BY <2>8 DEF CommitReady
    <3>2. CASE mode[t] = "rebuild"
      <4> DEFINE db == [staging[t] EXCEPT !.phase = "ready"]
      <4>1. staging'[t] = db
        BY <2>8, <3>2 DEF CommitReady, Commit, WorksInPlace, Working
      <4>2. db.commit = staging[t].commit /\ db.files = staging[t].files
        BY Changes
      <4>. QED BY <3>1, <3>2, <4>1, <4>2
           DEF StagingOf, RebuildLabels, StagingLabels, CatalogComplete
    <3>3. CASE mode[t] # "rebuild"
      <4>1. staging' = staging
        BY <2>8, <3>3 DEF CommitReady, Commit, WorksInPlace
      <4>. QED BY <3>1, <3>3, <4>1 DEF StagingOf, CatalogComplete
    <3>. QED BY <3>2, <3>3
  <2>9. CASE Verify(t) \/ CheckPublished(t) \/ Publish(t) \/ FailNew(t) \/ Leave(t) \/ Crash(t)
    BY <2>9, GoneStaging DEF Verify, CheckPublished, Publish, FailNew, Leave, Crash
  <2>10. CASE VerifyStaging(t)
    BY <2>10 DEF VerifyStaging, WorksInPlace, StagingOf, RebuildLabels, StagingLabels, CatalogComplete
  <2>11. CASE RollBackHot(t)
    BY <2>11 DEF RollBackHot, session, StagingOf, CatalogComplete
  <2>. QED BY <1>3, <2>1, <2>2, <2>3, <2>4, <2>5, <2>6, <2>7, <2>8, <2>9, <2>10, <2>11 DEF Step
<1>. QED BY <1>1, <1>2, <1>3 DEF Next

-----------------------------------------------------------------------------
(***************************************************************************)
(* Theorems.                                                               *)
(***************************************************************************)

LEMMA IInvInit == Init => IInv
<1> SUFFICES ASSUME Init PROVE IInv
  OBVIOUS
<1>1. TypeOK
  BY TypeInit
<1>2. StagingInv
  BY Shapes DEF Init, StagingInv, NoDatabase, Fresh
<1>3. OneWriter /\ FinalizingInv
  BY DEF Init, OneWriter, FinalizingInv, Writes, WriteLabels
<1>4. TargetInv
  <2>1. CASE target \in {NoDatabase, Fresh("foreign")}
    BY <2>1 DEF TargetInv, NoDatabase, Fresh
  <2>2. ASSUME NEW c \in Commits, target = ReadyCorpus(c) PROVE TargetInv
    BY <2>2 DEF TargetInv, ReadyCorpus, CatalogComplete
  <2>. QED BY <2>1, <2>2 DEF Init
<1>. QED BY <1>1, <1>2, <1>3, <1>4 DEF IInv

LEMMA IInvStep == IInv /\ [Next]_vars => IInv'
BY TypeStep, StagingStep, OneWriterStep, FinalizingStep, TargetStep DEF IInv

\* The inductive invariant of the import, whatever sessions race, fail and die.
THEOREM ImportInvariant == Spec => []IInv
<1>. QED BY IInvInit, IInvStep, PTL DEF Spec

\* Every variable keeps its type, and a database names its source commit exactly
\* when it holds a corpus.
THEOREM ImportTypeOK == Spec => []TypeOK
<1>1. IInv => TypeOK
  BY DEF IInv
<1>. QED BY <1>1, ImportInvariant, PTL

\* A database at the destination that says it is ready holds the whole catalogue,
\* verified, under any interleaving of any number of sessions of any mode.
THEOREM ImportReady == Spec => []ReadyImpliesComplete
<1>1. IInv => ReadyImpliesComplete
  BY DEF IInv, TypeOK, TargetInv, CatalogComplete, ReadyImpliesComplete, Named, Databases
<1>. QED BY <1>1, ImportInvariant, PTL

\* A rebuild touches the destination only to swap in the complete ready corpus of
\* its own commit, however many other sessions work on the same path.
THEOREM ImportRebuild == Spec => RebuildSwapsOnly
<1> DEFINE Swaps(s) ==
      mode[s] = "rebuild" /\ pc'[s] # pc[s] =>
        target' = target \/ target' = ReadyCorpus(want[s])
<1>1. ASSUME IInv, [Next]_vars, NEW t \in Sessions, mode[t] = "rebuild", pc'[t] # pc[t]
      PROVE  target' = target \/ target' = ReadyCorpus(want[t])
  <2> USE <1>1 DEF IInv
  <2>1. Step(t)
    <3>1. ~UNCHANGED vars /\ ~\E f \in Files : Drift(f)
      BY DEF vars, Drift, session
    <3>. QED BY <3>1, OnlySelf DEF Next
  <2>2. pc[t] \in RebuildLabels /\ ~Attached(t)
    BY DEF StagingInv, Attached, WorksInPlace
  <2>3. CASE Publish(t)
    <3>1. staging[t].phase = "ready" /\ CatalogComplete(staging[t]) /\ staging[t].commit = want[t]
      BY <2>3 DEF Publish, At, StagingInv, StagingLabels
    <3>2. staging[t] \in Databases
      BY DEF TypeOK
    <3>3. staging[t] = ReadyCorpus(want[t])
      BY <3>1, <3>2 DEF Databases, ReadyCorpus, CatalogComplete
    <3>. QED BY <2>3, <3>3 DEF Publish
  <2>4. CASE CommitMigration(t) \/ CommitCorpus(t) \/ CommitFile(t) \/ CommitReady(t)
    BY <2>2, <2>4 DEF CommitMigration, CommitCorpus, CommitFile, CommitReady, Commit
  <2>5. CASE Crash(t) \/ FailNew(t) \/ Reserve(t)
    BY <2>2, <2>5 DEF Crash, FailNew, Reserve, Writes, RebuildLabels, CreationLabels, At
  <2>6. CASE RollBackHot(t)
    BY <1>1, <2>6 DEF RollBackHot, session
  <2>7. ASSUME NEW c \in Commits, BeginNew(t, c) \/ BeginResume(t, c) \/ BeginRebuild(t, c)
        PROVE  target' = target
    BY <2>7 DEF BeginNew, BeginResume, BeginRebuild
  <2>8. CASE (\E f \in Files : BeginFile(t, f)) \/ BeginSetUp(t) \/ RollBackFile(t)
             \/ BeginFinalize(t) \/ Verify(t) \/ VerifyStaging(t) \/ CheckPublished(t) \/ Leave(t)
    BY <2>8 DEF BeginFile, BeginSetUp, RollBackFile, BeginFinalize, Verify,
                VerifyStaging, CheckPublished, Leave
  <2>. QED BY <2>1, <2>3, <2>4, <2>5, <2>6, <2>7, <2>8 DEF Step
<1>2. IInv /\ [Next]_vars => [\A s \in Sessions : Swaps(s)]_vars
  BY <1>1
<1>. QED BY <1>2, ImportInvariant, PTL DEF Spec, RebuildSwapsOnly

(***************************************************************************)
(* Import implements CorpusCell, for any sets of files, commits, sessions  *)
(* and modes; and as long as no rebuild runs beside another session a      *)
(* ready database stays servable and finalize keeps its word.              *)
(*                                                                         *)
(* The argument has two halves. Whatever races, a session that is still    *)
(* creating a database is alone attached to it, and a file is missing      *)
(* until the transaction that holds it commits. While nothing has raced,   *)
(* every session's place tells the phase and the commit of the target.     *)
(***************************************************************************)
\* A target that holds no corpus says nothing of files or commits.
ShapeInv == target.phase \in {"importing", "ready"} \/ target = Fresh(target.phase)

Creates(s) == pc[s] \in CreationLabels /\ Attached(s)

\* Who creates the database at the path has not made it a corpus yet, and is
\* the only one to create it.
CreationInv ==
  /\ \A s \in Sessions : Creates(s) => target.phase \in {"blank", "migrated", "foreign"}
  /\ \A s, t \in Sessions : Creates(s) /\ Creates(t) => s = t

\* The file of an open transaction is still missing.
FileInv ==
  \A s \in Sessions : pc[s] = "file" /\ Attached(s) =>
    /\ target.phase = "importing"
    /\ file[s] \in Files
    /\ target.files[file[s]] = "missing"

CellInv == ShapeInv /\ CreationInv /\ FileInv

\* What the place of a session tells of the target when nothing has raced.
Place(s) ==
  /\ ~moved[s]
  /\ pc[s] \in {"migrate", "migrating"} => target.phase = "blank"
  /\ pc[s] \in {"init", "initializing"} => target.phase = "migrated"
  /\ pc[s] \in {"open", "file", "finalizing"} /\ mode[s] # "rebuild" =>
       target.phase \in {"importing", "ready"} /\ target.commit = want[s]
  /\ (pc[s] = "verify" /\ mode[s] # "rebuild") \/ pc[s] \in {"check", "done"} =>
       target.phase = "ready" /\ target.commit = want[s]

\* And the journal: it is the open transaction's, or was left by one that did not
\* make the database ready.
Journals ==
  /\ journal \in {"none", "own"}
  /\ journal # "none" => target.phase \in {"blank", "migrated", "importing"}
  /\ \A s \in Sessions :
       /\ Writes(s) => journal = "own"
       /\ mode[s] = "rebuild" => journal = "none"

Calm == Journals /\ \A s \in Sessions : Place(s)

CalmInv == Contended \/ Calm

FullInv == IInv /\ CellInv /\ CalmInv
-----------------------------------------------------------------------------
(***************************************************************************)
(* Steps.                                                                  *)
(***************************************************************************)

\* The steps that begin a session.
Begins(s) == \E c \in Commits : BeginNew(s, c) \/ BeginResume(s, c) \/ BeginRebuild(s, c)

\* The steps that may change the target.
Moves(s) ==
  \/ Reserve(s) \/ CommitMigration(s) \/ CommitCorpus(s) \/ CommitFile(s) \/ CommitReady(s)
  \/ Publish(s) \/ FailNew(s) \/ Crash(s) \/ RollBackHot(s)

LEMMA Others ==
  ASSUME NEW s, Step(s), ~Moves(s)
  PROVE  target' = target
<1>1. CASE Begins(s)
  BY <1>1 DEF Begins, BeginNew, BeginResume, BeginRebuild
<1>2. CASE (\E f \in Files : BeginFile(s, f)) \/ BeginSetUp(s) \/ RollBackFile(s) \/ BeginFinalize(s)
  BY <1>2 DEF BeginFile, BeginSetUp, RollBackFile, BeginFinalize
<1>3. CASE Verify(s) \/ VerifyStaging(s) \/ CheckPublished(s) \/ Leave(s)
  BY <1>3 DEF Verify, VerifyStaging, CheckPublished, Leave
<1>. QED BY <1>1, <1>2, <1>3 DEF Step, Moves, Begins

LEMMA StepRaces ==
  ASSUME NEW s, Step(s)
  PROVE  raced' = (raced \/ Racing) \/ UNCHANGED session
<1> USE DEF Goto
<1>1. CASE Begins(s)
  BY <1>1 DEF Begins, BeginNew, BeginResume, BeginRebuild, Begin
<1>2. CASE (\E f \in Files : BeginFile(s, f)) \/ BeginSetUp(s) \/ RollBackFile(s) \/ BeginFinalize(s)
  BY <1>2 DEF BeginFile, BeginSetUp, RollBackFile, BeginFinalize
<1>3. CASE Verify(s) \/ VerifyStaging(s) \/ CheckPublished(s) \/ Leave(s)
  BY <1>3 DEF Verify, VerifyStaging, CheckPublished, Leave, Gone
<1>4. CASE Reserve(s) \/ CommitMigration(s) \/ CommitCorpus(s) \/ CommitFile(s) \/ CommitReady(s)
  BY <1>4 DEF Reserve, CommitMigration, CommitCorpus, CommitFile, CommitReady, Gone
<1>5. CASE Publish(s) \/ FailNew(s) \/ Crash(s) \/ RollBackHot(s)
  BY <1>5 DEF Publish, FailNew, Crash, RollBackHot, Gone
<1>. QED BY <1>1, <1>2, <1>3, <1>4, <1>5 DEF Step, Begins

\* Once a race has been it has been.
LEMMA ContendedStays ==
  ASSUME [Next]_vars, Contended
  PROVE  Contended'
<1>1. ASSUME NEW s \in Sessions, Step(s) PROVE Contended'
  BY <1>1, StepRaces DEF session, Contended, Racing
<1>2. CASE (\E f \in Files : Drift(f)) \/ UNCHANGED vars
  BY <1>2 DEF Drift, session, vars, Contended, Racing
<1>. QED BY <1>1, <1>2 DEF Next

\* Only a session that begins makes a race.
LEMMA RaceBegins ==
  ASSUME TypeOK, NEW s \in Sessions, Step(s), ~Contended, Contended'
  PROVE  Begins(s)
<1> SUFFICES ASSUME ~Begins(s) PROVE FALSE
  OBVIOUS
<1>1. /\ pc'[s] # "idle" => pc[s] # "idle"
      /\ mode'[s] = "rebuild" => mode[s] = "rebuild"
  <2> USE DEF TypeOK, Gone, At, Goto
  <2>1. CASE (\E f \in Files : BeginFile(s, f)) \/ BeginSetUp(s) \/ RollBackFile(s) \/ BeginFinalize(s)
    BY <2>1 DEF BeginFile, BeginSetUp, RollBackFile, BeginFinalize
  <2>2. CASE Verify(s) \/ VerifyStaging(s) \/ CheckPublished(s) \/ Leave(s)
    BY <2>2 DEF Verify, VerifyStaging, CheckPublished, Leave
  <2>3. CASE Reserve(s) \/ CommitMigration(s) \/ CommitCorpus(s) \/ CommitFile(s) \/ CommitReady(s)
    BY <2>3 DEF Reserve, CommitMigration, CommitCorpus, CommitFile, CommitReady
  <2>4. CASE Publish(s) \/ FailNew(s) \/ Crash(s) \/ RollBackHot(s)
    BY <2>4 DEF Publish, FailNew, Crash, RollBackHot, session
  <2>. QED BY <2>1, <2>2, <2>3, <2>4 DEF Step, Begins
<1>2. \A t \in Sessions : /\ pc'[t] # "idle" => pc[t] # "idle"
                          /\ mode'[t] = "rebuild" => mode[t] = "rebuild"
  BY <1>1, OnlySelf
<1>3. Racing' => Racing
  BY <1>2 DEF Racing
<1>4. raced' => raced \/ Racing
  BY StepRaces DEF session
<1>. QED BY <1>3, <1>4 DEF Contended

\* Beside a rebuild that has not raced nobody is at work.
LEMMA Alone ==
  ASSUME ~Contended, NEW s \in Sessions, NEW t \in Sessions, s # t,
         mode[s] = "rebuild", pc[s] # "idle"
  PROVE  pc[t] = "idle"
BY DEF Contended, Racing

LEMMA OnlyOwnFile ==
  ASSUME TypeOK, NEW s \in Sessions, Step(s), NEW t \in Sessions, t # s
  PROVE  file'[t] = file[t]
<1> USE DEF TypeOK, Begin, Gone
<1>1. CASE Begins(s)
  BY <1>1 DEF Begins, BeginNew, BeginResume, BeginRebuild
<1>2. CASE (\E f \in Files : BeginFile(s, f)) \/ BeginSetUp(s) \/ RollBackFile(s) \/ BeginFinalize(s)
  BY <1>2 DEF BeginFile, BeginSetUp, RollBackFile, BeginFinalize
<1>3. CASE Verify(s) \/ VerifyStaging(s) \/ CheckPublished(s) \/ Leave(s)
  BY <1>3 DEF Verify, VerifyStaging, CheckPublished, Leave
<1>4. CASE Reserve(s) \/ CommitMigration(s) \/ CommitCorpus(s) \/ CommitFile(s) \/ CommitReady(s)
  BY <1>4 DEF Reserve, CommitMigration, CommitCorpus, CommitFile, CommitReady
<1>5. CASE Publish(s) \/ FailNew(s) \/ Crash(s) \/ RollBackHot(s)
  BY <1>5 DEF Publish, FailNew, Crash, RollBackHot, session
<1>. QED BY <1>1, <1>2, <1>3, <1>4, <1>5 DEF Step, Begins

\* The connections that publishing, or deleting, leaves without their file.
LEMMA LosesFile ==
  ASSUME TypeOK, NEW s \in Sessions, Publish(s) \/ FailNew(s),
         NEW t \in Sessions, pc[t] \in ConnectedLabels
  PROVE  ~(pc'[t] \in ConnectedLabels /\ Attached(t)')
<1>1. CASE t = s
  BY <1>1 DEF Publish, FailNew, Gone, Goto, TypeOK, ConnectedLabels, CreationLabels, WriteLabels
<1>2. CASE t # s
  <2>1. mode'[t] = mode[t]
    BY <1>2 DEF Publish, FailNew, Gone, TypeOK
  <2>2. moved'[t] = Detached[t]
    BY <1>2 DEF Publish, FailNew, Gone, Detached
  <2>. QED BY <2>1, <2>2 DEF Detached, Attached
<1>. QED BY <1>1, <1>2
-----------------------------------------------------------------------------
(***************************************************************************)
(* What holds however sessions race.                                       *)
(***************************************************************************)

LEMMA FreshShape == \A p : Fresh(p).phase = p
BY DEF Fresh

LEMMA ImportingShape == \A c : Importing(c).phase = "importing"
BY DEF Importing, Fresh

LEMMA ShapeStep ==
  ASSUME IInv, CellInv, NEW s \in Sessions, Step(s), target' # target
  PROVE  ShapeInv'
<1> USE FreshShape
<1>1. CASE Reserve(s) \/ FailNew(s) \/ Crash(s) \/ RollBackHot(s)
  BY <1>1 DEF Reserve, FailNew, Crash, RollBackHot, NoDatabase, ShapeInv
<1>2. CASE CommitMigration(s) \/ CommitCorpus(s)
  BY <1>2, ImportingShape DEF CommitMigration, CommitCorpus, Commit, ShapeInv
<1>3. CASE CommitFile(s)
  <2>1. Attached(s) /\ target' = [target EXCEPT !.files[file[s]] = "complete"]
    BY <1>3 DEF CommitFile, Commit, Working, Attached
  <2>2. target.phase = "importing" /\ file[s] \in Files
    BY <1>3, <2>1 DEF CommitFile, At, CellInv, FileInv
  <2>. QED BY <2>1, <2>2, Changes DEF IInv, TypeOK, ShapeInv
<1>4. CASE CommitReady(s)
  <2>1. target' = [target EXCEPT !.phase = "ready"]
    BY <1>4 DEF CommitReady, Commit, Working, Attached
  <2>. QED BY <2>1, Changes DEF IInv, TypeOK, ShapeInv
<1>5. CASE Publish(s)
  BY <1>5 DEF Publish, At, IInv, StagingInv, ShapeInv
<1>. QED BY <1>1, <1>2, <1>3, <1>4, <1>5, Others DEF Moves

\* A connection that creates has got its file in Reserve, which found the path
\* absent.
LEMMA EnterCreation ==
  ASSUME TypeOK, NEW s \in Sessions, Step(s), NEW t \in Sessions, Creates(t)', ~Creates(t)
  PROVE  t = s /\ Reserve(s) /\ Reservable(target)
<1>1. t = s
  <2> SUFFICES ASSUME t # s PROVE FALSE
    OBVIOUS
  <2>1. pc'[t] = pc[t] /\ mode'[t] = mode[t] /\ (moved[t] => moved'[t])
    BY OnlySelf DEF Detached
  <2>. QED BY <2>1 DEF Creates, Attached
<1> USE <1>1 DEF TypeOK, Creates, Attached, CreationLabels, Begin, Gone, At, Goto
<1>2. ~Begins(s)
  BY DEF Begins, BeginNew, BeginResume, BeginRebuild
<1>3. ~((\E f \in Files : BeginFile(s, f)) \/ BeginSetUp(s) \/ RollBackFile(s) \/ BeginFinalize(s))
  BY DEF BeginFile, BeginSetUp, RollBackFile, BeginFinalize
<1>4. ~(Verify(s) \/ VerifyStaging(s) \/ CheckPublished(s) \/ Leave(s))
  BY DEF Verify, VerifyStaging, CheckPublished, Leave
<1>5. ~(CommitMigration(s) \/ CommitCorpus(s) \/ CommitFile(s) \/ CommitReady(s))
  BY DEF CommitMigration, CommitCorpus, CommitFile, CommitReady
<1>6. ~(Publish(s) \/ FailNew(s) \/ Crash(s) \/ RollBackHot(s))
  BY DEF Publish, FailNew, Crash, RollBackHot, session
<1>7. Reserve(s)
  BY <1>2, <1>3, <1>4, <1>5, <1>6 DEF Step, Begins
<1>8. Reservable(target)
  BY <1>7 DEF Reserve
<1>. QED BY <1>1, <1>7, <1>8

LEMMA CreationPhase ==
  ASSUME IInv, CellInv, NEW s \in Sessions, Step(s), NEW t \in Sessions, Creates(t)'
  PROVE  target'.phase \in {"blank", "migrated", "foreign"}
<1> USE FreshShape
<1>1. CASE ~Creates(t)
  <2>1. Reserve(s) /\ Reservable(target)
    BY <1>1, EnterCreation DEF IInv
  <2>. QED BY <2>1 DEF Reserve
<1>2. CASE Creates(t) /\ target' = target
  BY <1>2 DEF CellInv, CreationInv
<1>3. CASE Creates(t) /\ target' # target
  <2>1. target.phase \in {"blank", "migrated", "foreign"}
    BY <1>3 DEF CellInv, CreationInv
  <2>2. CASE Reserve(s)
    BY <1>3, <2>1, <2>2 DEF Reserve, Reservable
  <2>3. CASE CommitMigration(s)
    BY <1>3, <2>3 DEF CommitMigration, Commit
  <2>4. CASE CommitCorpus(s)
    <3>1. Creates(s)
      BY <1>3, <2>4 DEF CommitCorpus, Commit, Creates, CreationLabels, At
    <3>2. s = t
      BY <1>3, <3>1 DEF CellInv, CreationInv
    <3>. QED BY <2>4, <3>2 DEF CommitCorpus, Goto, Creates, CreationLabels, IInv, TypeOK
  <2>5. CASE CommitFile(s)
    BY <1>3, <2>1, <2>5 DEF CommitFile, Commit, At, CellInv, FileInv
  <2>6. CASE CommitReady(s)
    BY <1>3, <2>1, <2>6 DEF CommitReady, Commit, At, IInv, FinalizingInv
  <2>7. CASE Publish(s) \/ FailNew(s)
    BY <1>3, <2>7, LosesFile DEF Creates, ConnectedLabels, IInv
  <2>8. CASE Crash(s) \/ RollBackHot(s)
    BY <1>3, <2>8 DEF Crash, RollBackHot
  <2>. QED BY <1>3, <2>2, <2>3, <2>4, <2>5, <2>6, <2>7, <2>8, Others DEF Moves
<1>. QED BY <1>1, <1>2, <1>3

LEMMA CreationAlone ==
  ASSUME IInv, CellInv, NEW s \in Sessions, Step(s),
         NEW t \in Sessions, NEW u \in Sessions, Creates(t)', Creates(u)'
  PROVE  t = u
<1>1. CASE Creates(t) /\ Creates(u)
  BY <1>1 DEF CellInv, CreationInv
<1>2. CASE ~Creates(t) /\ ~Creates(u)
  BY <1>2, EnterCreation DEF IInv
<1>3. CASE (Creates(t) /\ ~Creates(u)) \/ (~Creates(t) /\ Creates(u))
  <2>1. Reservable(target)
    BY <1>3, EnterCreation DEF IInv
  <2>2. target.phase \in {"blank", "migrated", "foreign"}
    BY <1>3 DEF CellInv, CreationInv
  <2>. QED BY <2>1, <2>2 DEF Reservable
<1>. QED BY <1>1, <1>2, <1>3

LEMMA FileStep ==
  ASSUME IInv, CellInv, NEW s \in Sessions, Step(s),
         NEW t \in Sessions, pc'[t] = "file", Attached(t)'
  PROVE  /\ target'.phase = "importing"
         /\ file'[t] \in Files
         /\ target'.files[file'[t]] = "missing"
<1> USE DEF IInv
<1>1. CASE s # t
  <2>1. pc[t] = "file" /\ Attached(t) /\ file'[t] = file[t]
    BY <1>1, OnlySelf, OnlyOwnFile DEF Attached, Detached
  <2>2. /\ target.phase = "importing" /\ file[t] \in Files
        /\ target.files[file[t]] = "missing"
    BY <2>1 DEF CellInv, FileInv
  <2>3. target' = target
    BY <1>1, <2>1, <2>2, WriterKeepsTarget DEF Writes, WriteLabels
  <2>. QED BY <2>1, <2>2, <2>3
<1>2. CASE s = t
  <2> USE <1>2 DEF TypeOK, Begin, Gone, At, Goto
  <2>1. ASSUME NEW f \in Files, BeginFile(s, f)
        PROVE  /\ target'.phase = "importing"
               /\ file'[t] \in Files
               /\ target'.files[file'[t]] = "missing"
    <3>1. Working(s) = target /\ target' = target /\ file'[t] = f
      BY <2>1 DEF BeginFile, Working, Attached
    <3>. QED BY <2>1, <3>1 DEF BeginFile, ImportingFor
  <2>2. ~Begins(s)
    BY DEF Begins, BeginNew, BeginResume, BeginRebuild
  <2>3. ~(BeginSetUp(s) \/ RollBackFile(s) \/ BeginFinalize(s))
    BY DEF BeginSetUp, RollBackFile, BeginFinalize
  <2>4. ~(Verify(s) \/ VerifyStaging(s) \/ CheckPublished(s) \/ Leave(s))
    BY DEF Verify, VerifyStaging, CheckPublished, Leave
  <2>5. ~(Reserve(s) \/ CommitMigration(s) \/ CommitCorpus(s) \/ CommitFile(s) \/ CommitReady(s))
    BY DEF Reserve, CommitMigration, CommitCorpus, CommitFile, CommitReady
  <2>6. ~(Publish(s) \/ FailNew(s) \/ Crash(s))
    BY DEF Publish, FailNew, Crash
  <2>7. ~RollBackHot(s)
    BY DEF RollBackHot, session, HotJournal, Locked, Writes, Attached, WriteLabels
  <2>. QED BY <2>1, <2>2, <2>3, <2>4, <2>5, <2>6, <2>7 DEF Step, Begins
<1>. QED BY <1>1, <1>2

LEMMA DriftKeeps ==
  ASSUME TypeOK, NEW f \in Files, Drift(f)
  PROVE  /\ UNCHANGED <<journal, session>>
         /\ target'.phase = target.phase /\ target'.commit = target.commit
         /\ target.phase = "importing"
         /\ \A s \in Sessions : ~Writes(s)
         /\ \A g \in Files : target'.files[g] = "missing" <=> target.files[g] = "missing"
BY DEF Drift, Locked, TypeOK, Databases

LEMMA CellStep == IInv /\ CellInv /\ [Next]_vars => CellInv'
<1> SUFFICES ASSUME IInv, CellInv, [Next]_vars PROVE CellInv'
  OBVIOUS
<1>1. ASSUME NEW s \in Sessions, Step(s) PROVE CellInv'
  <2>1. ShapeInv'
    <3>1. CASE target' = target
      BY <3>1 DEF CellInv, ShapeInv, Fresh
    <3>2. CASE target' # target
      BY <1>1, <3>2, ShapeStep
    <3>. QED BY <3>1, <3>2
  <2>2. CreationInv'
    BY <1>1, CreationPhase, CreationAlone DEF CreationInv
  <2>3. FileInv'
    BY <1>1, FileStep DEF FileInv
  <2>. QED BY <2>1, <2>2, <2>3 DEF CellInv
<1>2. ASSUME NEW f \in Files, Drift(f) PROVE CellInv'
  BY <1>2, DriftKeeps DEF IInv, session, CellInv, ShapeInv, CreationInv, FileInv, Creates,
                          Attached, Writes, WriteLabels
<1>3. CASE UNCHANGED vars
  BY <1>3 DEF vars, CellInv, ShapeInv, CreationInv, FileInv, Creates, Attached, Fresh
<1>. QED BY <1>1, <1>2, <1>3 DEF Next
-----------------------------------------------------------------------------
(***************************************************************************)
(* What holds while nothing has raced. In each lemma a session s takes a   *)
(* step that neither finds nor makes a race.                               *)
(***************************************************************************)

\* A step that leaves the target and every connection alone.
LEMMA PlaceOfOthers ==
  ASSUME TypeOK, NEW s \in Sessions, Step(s), NEW t \in Sessions, t # s, Place(t),
         moved'[t] = moved[t],
         target'.phase = target.phase, target'.commit = target.commit
  PROVE  Place(t)'
BY OnlySelf DEF Place

LEMMA WritesOfOthers ==
  ASSUME TypeOK, NEW s \in Sessions, Step(s), NEW t \in Sessions, t # s, Writes(t)'
  PROVE  Writes(t)
BY EnterWrite

\* Nobody but s is connected to what s creates, nor has finished with it.
LEMMA CreatorAlone ==
  ASSUME IInv, CellInv, Calm, ~Contended, NEW s \in Sessions, Creates(s),
         NEW t \in Sessions, t # s
  PROVE  pc[t] \in {"idle", "reserve"}
<1>1. mode[s] # "rebuild" /\ pc[s] # "idle" /\ target.phase \in {"blank", "migrated"}
  BY DEF Creates, Attached, WorksInPlace, CreationLabels, Calm, Place
<1>2. mode[t] # "rebuild"
  <2>1. mode[t] = "rebuild" => pc[t] # "idle"
    BY DEF IInv, StagingInv, RebuildLabels
  <2>. QED BY <1>1, <2>1, Alone
<1>3. ~moved[t]
  BY DEF Calm, Place
<1>4. pc[t] \notin CreationLabels
  BY <1>2, <1>3 DEF CellInv, CreationInv, Creates, Attached, WorksInPlace
<1>5. pc[t] \notin {"open", "file", "finalizing", "verify", "check", "done"}
  BY <1>1, <1>2 DEF Calm, Place
<1>6. pc[t] # "publish"
  BY <1>2 DEF IInv, StagingInv
<1>. QED BY <1>4, <1>5, <1>6 DEF CreationLabels, IInv, TypeOK, Labels

\* A rebuild finds every other session idle.
LEMMA RebuilderAlone ==
  ASSUME IInv, ~Contended, NEW s \in Sessions, mode[s] = "rebuild",
         NEW t \in Sessions, t # s
  PROVE  pc[t] = "idle" /\ mode[t] # "rebuild"
<1>1. pc[s] # "idle" /\ (mode[t] = "rebuild" => pc[t] # "idle")
  BY DEF IInv, StagingInv, RebuildLabels
<1>. QED BY <1>1, Alone

LEMMA BeginsCalm ==
  ASSUME IInv, CellInv, Calm, ~Contended, NEW s \in Sessions, Step(s), Begins(s)
  PROVE  Calm'
<1> USE DEF IInv, TypeOK
<1>0. PICK c \in Commits : BeginNew(s, c) \/ BeginResume(s, c) \/ BeginRebuild(s, c)
  BY DEF Begins
<1>01. PICK m \in {"new", "resume", "rebuild"}, label \in {"reserve", "open"} :
         /\ Begin(s, m, c, label)
         /\ m = "new" => label = "reserve"
         /\ m = "resume" => ImportingFor(target, c)
  BY <1>0 DEF BeginNew, BeginResume, BeginRebuild
<1>02. UNCHANGED <<target, journal>>
  BY <1>0 DEF BeginNew, BeginResume, BeginRebuild
<1>03. pc'[s] = label /\ mode'[s] = m /\ want'[s] = c /\ ~moved'[s]
  BY <1>01 DEF Begin, Goto
<1>1. /\ UNCHANGED <<target, journal>>
      /\ \A t \in Sessions : t # s => moved'[t] = moved[t]
      /\ ~moved'[s]
      /\ pc'[s] \in {"reserve", "open"}
  BY <1>01, <1>02, <1>03 DEF Begin
<1>2. Place(s)'
  BY <1>01, <1>02, <1>03 DEF Place, ImportingFor
<1>3. \A t \in Sessions : Place(t)'
  BY <1>1, <1>2, PlaceOfOthers DEF Calm
<1>4. ~Writes(s)'
  BY <1>1 DEF Writes, WriteLabels
<1>5. mode'[s] = "rebuild" => journal = "none"
  BY DEF Begins, BeginNew, BeginResume, BeginRebuild, Begin
<1>6. Journals'
  BY <1>1, <1>4, <1>5, WritesOfOthers, OnlySelf DEF Calm, Journals
<1>. QED BY <1>3, <1>6 DEF Calm

LEMMA ReserveCalm ==
  ASSUME IInv, CellInv, Calm, ~Contended, NEW s \in Sessions, Step(s), Reserve(s)
  PROVE  Calm'
<1> USE DEF IInv, TypeOK
<1>0. mode[s] # "rebuild"
  BY DEF Reserve, At, StagingInv, RebuildLabels
<1>1. CASE Reservable(target)
  <2>1. /\ target'.phase = "blank"
        /\ UNCHANGED <<journal, mode, want, moved>>
        /\ pc' = [pc EXCEPT ![s] = "migrate"]
        /\ target.phase = "absent"
    BY <1>1, FreshShape DEF Reserve, Reservable, Goto
  <2>2. ASSUME NEW t \in Sessions PROVE Place(t)'
    <3>1. CASE t = s
      BY <2>1, <3>1 DEF Place, Calm
    <3>2. CASE t # s
      BY <2>1, <3>2 DEF Place, Calm
    <3>. QED BY <3>1, <3>2
  <2>3. ~Writes(s)'
    BY <2>1 DEF Writes, WriteLabels
  <2>4. Journals'
    BY <2>1, <2>3, WritesOfOthers DEF Calm, Journals
  <2>. QED BY <2>2, <2>4 DEF Calm
<1>2. CASE ~Reservable(target)
  <2>1. Gone(s, "idle", moved) /\ UNCHANGED <<target, journal>>
    BY <1>2 DEF Reserve
  <2>2. /\ pc'[s] = "idle" /\ mode'[s] = "new" /\ ~moved'[s]
        /\ \A t \in Sessions : t # s => moved'[t] = moved[t]
    BY <2>1 DEF Gone, Goto
  <2>3. \A t \in Sessions : Place(t)'
    <3>1. Place(s)'
      BY <2>2 DEF Place
    <3>. QED BY <2>1, <2>2, <3>1, PlaceOfOthers DEF Calm
  <2>4. ~Writes(s)'
    BY <2>2 DEF Writes, WriteLabels
  <2>5. Journals'
    BY <2>1, <2>2, <2>4, WritesOfOthers, OnlySelf DEF Calm, Journals
  <2>. QED BY <2>3, <2>5 DEF Calm
<1>. QED BY <1>1, <1>2

\* Who creates works in place, on a connection that has its file.
LEMMA CreatorAttached ==
  ASSUME IInv, Calm, NEW s \in Sessions, pc[s] \in CreationLabels
  PROVE  mode[s] # "rebuild" /\ Attached(s) /\ Creates(s)
<1>1. mode[s] # "rebuild"
  BY DEF IInv, StagingInv, RebuildLabels, CreationLabels
<1>2. ~moved[s]
  BY DEF Calm, Place
<1>. QED BY <1>1, <1>2 DEF Attached, WorksInPlace, Creates

LEMMA SetUpCalm ==
  ASSUME IInv, CellInv, Calm, ~Contended, NEW s \in Sessions, Step(s), BeginSetUp(s)
  PROVE  Calm'
<1> USE DEF IInv, TypeOK
<1>1. pc[s] \in {"migrate", "init"} /\ UNCHANGED <<target, mode, want, moved>>
  BY DEF BeginSetUp, At
<1>2. mode[s] # "rebuild" /\ Creates(s)
  BY <1>1, CreatorAttached DEF CreationLabels
<1>3. /\ journal' = "own" /\ target.phase \in {"blank", "migrated"}
      /\ pc[s] = "migrate" => pc'[s] = "migrating" /\ target.phase = "blank"
      /\ pc[s] = "init" => pc'[s] = "initializing" /\ target.phase = "migrated"
  BY <1>1, <1>2 DEF BeginSetUp, BeginWrite, WorksInPlace, At, Goto, Calm, Place
<1>4. \A t \in Sessions : Place(t)'
  <2>1. Place(s)'
    BY <1>1, <1>3 DEF Place, Calm
  <2>. QED BY <1>1, <2>1, PlaceOfOthers DEF Calm
<1>5. \A t \in Sessions : mode'[t] # "rebuild"
  <2>1. \A t \in Sessions : mode[t] = "rebuild" => t # s /\ pc[s] = "idle"
    BY <1>2, RebuilderAlone
  <2>. QED BY <1>1, <2>1
<1>6. Journals'
  BY <1>1, <1>3, <1>5 DEF Journals
<1>. QED BY <1>4, <1>6 DEF Calm

\* A creator commits what leaves the target in a later phase.
LEMMA CreationCalm ==
  ASSUME IInv, CellInv, Calm, ~Contended, NEW s \in Sessions, Step(s),
         CommitMigration(s) \/ CommitCorpus(s)
  PROVE  Calm'
<1> USE DEF IInv, TypeOK
<1>1. pc[s] \in {"migrating", "initializing"} /\ UNCHANGED <<mode, want, moved>>
  BY DEF CommitMigration, CommitCorpus, At
<1>2. mode[s] # "rebuild" /\ Attached(s) /\ Creates(s)
  BY <1>1, CreatorAttached DEF CreationLabels
<1>3. journal' = "none"
  BY <1>2 DEF CommitMigration, CommitCorpus, Commit, EndWrite, WorksInPlace
<1>4. Place(s)'
  <2>1. ~moved'[s]
    BY <1>1 DEF Calm, Place
  <2>2. CASE CommitMigration(s)
    BY <1>2, <2>1, <2>2, FreshShape DEF CommitMigration, Commit, Goto, Place
  <2>3. CASE CommitCorpus(s)
    <3>1. want[s] \in Commits
      BY <1>1
    <3>2. target' = Importing(want[s]) /\ pc'[s] = "open"
      BY <1>2, <2>3 DEF CommitCorpus, Commit, Goto
    <3>3. target'.phase = "importing" /\ target'.commit = want'[s]
      BY <1>1, <3>1, <3>2, Shapes
    <3>. QED BY <2>1, <3>2, <3>3 DEF Place
  <2>. QED BY <2>2, <2>3
<1>5. ASSUME NEW t \in Sessions, t # s PROVE Place(t)'
  <2>1. pc'[t] \in {"idle", "reserve"} /\ ~moved'[t]
    BY <1>1, <1>2, <1>5, CreatorAlone, OnlySelf DEF Calm, Place
  <2>. QED BY <2>1 DEF Place
<1>6. \A t \in Sessions : ~Writes(t)'
  <2>1. ~Writes(s)'
    BY DEF CommitMigration, CommitCorpus, Goto, Writes, WriteLabels
  <2>2. \A t \in Sessions : t # s => ~Writes(t)'
    BY <1>2, CreatorAlone, WritesOfOthers DEF Writes, WriteLabels
  <2>. QED BY <2>1, <2>2
<1>. QED BY <1>3, <1>4, <1>5, <1>6 DEF Calm, Journals

\* Sessions that write, or stop writing, to a corpus they work on in place.
LEMMA InPlaceCalm ==
  ASSUME IInv, CellInv, Calm, ~Contended, NEW s \in Sessions, Step(s), mode[s] # "rebuild",
         (\E f \in Files : BeginFile(s, f)) \/ BeginFinalize(s) \/ RollBackFile(s)
  PROVE  Calm'
<1> USE DEF IInv, TypeOK
<1>1. /\ pc[s] \in {"open", "file"} /\ pc'[s] \in {"open", "file", "finalizing"}
      /\ UNCHANGED <<target, mode, want, moved>>
  BY DEF BeginFile, BeginFinalize, RollBackFile, At, Goto
<1>2. \A t \in Sessions : Place(t)'
  <2>1. Place(s)'
    BY <1>1 DEF Place, Calm
  <2>. QED BY <1>1, <2>1, PlaceOfOthers DEF Calm
<1>3. \A t \in Sessions : mode[t] # "rebuild"
  <2>1. \A t \in Sessions : mode[t] = "rebuild" => t # s /\ pc[s] = "idle"
    BY RebuilderAlone
  <2>. QED BY <1>1, <2>1
<1>4. CASE RollBackFile(s)
  <2>1. journal' = "none" /\ ~Writes(s)'
    BY <1>4 DEF RollBackFile, EndWrite, WorksInPlace, Goto, Writes, WriteLabels
  <2>2. Writes(s)
    BY <1>4 DEF RollBackFile, At, Writes, WriteLabels, Attached, WorksInPlace, Calm, Place
  <2>3. \A t \in Sessions : ~Writes(t)'
    BY <2>1, <2>2, WritesOfOthers DEF OneWriter
  <2>. QED BY <1>2, <2>1, <2>3 DEF Calm, Journals
<1>5. CASE ~RollBackFile(s)
  <2>1. Working(s) = target
    BY DEF Working, WorksInPlace
  <2>2. journal' = "own" /\ target.phase = "importing"
    BY <1>5, <2>1 DEF BeginFile, BeginFinalize, BeginWrite, WorksInPlace, ImportingFor
  <2>3. Journals'
    BY <1>1, <1>3, <2>2 DEF Journals
  <2>. QED BY <1>2, <2>3 DEF Calm
<1>. QED BY <1>4, <1>5

LEMMA CommitCalm ==
  ASSUME IInv, CellInv, Calm, ~Contended, NEW s \in Sessions, Step(s), mode[s] # "rebuild",
         CommitFile(s) \/ CommitReady(s)
  PROVE  Calm'
<1> USE DEF IInv, TypeOK
<1>1. /\ pc[s] \in {"file", "finalizing"} /\ pc'[s] \in {"open", "verify"}
      /\ UNCHANGED <<mode, want, moved>>
  BY DEF CommitFile, CommitReady, At, Goto
<1>2. Attached(s) /\ Writes(s)
  BY <1>1 DEF Attached, WorksInPlace, Writes, WriteLabels, Calm, Place
<1>3. /\ target.phase = "importing" /\ target.commit = want[s]
      /\ target'.commit = target.commit
      /\ pc'[s] = "open" => target'.phase = "importing"
      /\ pc'[s] = "verify" => target'.phase = "ready"
      /\ target'.phase \in {"importing", "ready"}
  <2>1. CASE CommitFile(s)
    <3>1. target' = [target EXCEPT !.files[file[s]] = "complete"] /\ pc'[s] = "open"
      BY <1>2, <2>1 DEF CommitFile, Commit, Working, Attached, Goto
    <3>2. target.phase = "importing" /\ file[s] \in Files
      BY <1>2, <2>1 DEF CommitFile, At, CellInv, FileInv
    <3>3. target.commit = want[s]
      BY <1>1 DEF Calm, Place
    <3>. QED BY <3>1, <3>2, <3>3, Changes
  <2>2. CASE CommitReady(s)
    <3>1. target' = [target EXCEPT !.phase = "ready"] /\ pc'[s] = "verify"
      BY <1>2, <2>2 DEF CommitReady, Commit, Working, Attached, Goto
    <3>2. target.phase = "importing"
      BY <1>2, <2>2 DEF CommitReady, At, FinalizingInv
    <3>3. target.commit = want[s]
      BY <1>1 DEF Calm, Place
    <3>. QED BY <3>1, <3>2, <3>3, Changes
  <2>. QED BY <2>1, <2>2
<1>4. Place(s)'
  BY <1>1, <1>3 DEF Place, Calm
<1>5. ASSUME NEW t \in Sessions, t # s PROVE Place(t)'
  BY <1>1, <1>3, <1>5, OnlySelf DEF Calm, Place
<1>6. journal' = "none"
  BY DEF CommitFile, CommitReady, Commit, EndWrite, WorksInPlace
<1>7. \A t \in Sessions : ~Writes(t)'
  <2>1. ~Writes(s)'
    BY <1>1 DEF Writes, WriteLabels
  <2>. QED BY <1>2, <2>1, WritesOfOthers DEF OneWriter
<1>. QED BY <1>4, <1>5, <1>6, <1>7 DEF Calm, Journals

\* A rebuild works on its staging database, which is no place of the target's.
LEMMA StagingCalm ==
  ASSUME IInv, CellInv, Calm, ~Contended, NEW s \in Sessions, Step(s), mode[s] = "rebuild",
         \/ (\E f \in Files : BeginFile(s, f)) \/ BeginFinalize(s) \/ RollBackFile(s)
         \/ CommitFile(s) \/ CommitReady(s) \/ VerifyStaging(s)
  PROVE  Calm'
<1> USE DEF IInv, TypeOK
<1>1. UNCHANGED <<target, journal, mode, want, moved>>
  BY DEF BeginFile, BeginFinalize, BeginWrite, RollBackFile, CommitFile, CommitReady,
         VerifyStaging, Commit, EndWrite, WorksInPlace, Attached
<1>2. pc'[s] \in {"open", "file", "finalizing", "verify", "publish"}
  BY DEF BeginFile, BeginFinalize, RollBackFile, CommitFile, CommitReady, VerifyStaging, Goto
<1>3. Place(s)'
  BY <1>1, <1>2 DEF Calm, Place
<1>4. \A t \in Sessions : Place(t)'
  BY <1>1, <1>3, PlaceOfOthers DEF Calm
<1>5. ~Writes(s)'
  BY <1>1 DEF Writes, Attached, WorksInPlace
<1>6. Journals'
  BY <1>1, <1>5, WritesOfOthers DEF Calm, Journals
<1>. QED BY <1>4, <1>6 DEF Calm

LEMMA VerifyCalm ==
  ASSUME IInv, CellInv, Calm, ~Contended, NEW s \in Sessions, Step(s),
         Verify(s) \/ CheckPublished(s)
  PROVE  Calm'
<1> USE DEF IInv, TypeOK
<1>1. /\ UNCHANGED <<target, journal, mode, want>> /\ pc'[s] = "done"
      /\ ~moved'[s] /\ \A t \in Sessions : t # s => moved'[t] = moved[t]
  BY DEF Verify, CheckPublished, Gone, Goto
<1>2. Place(s)'
  BY <1>1 DEF Calm, Place, Verify, CheckPublished, At, WorksInPlace
<1>3. \A t \in Sessions : Place(t)'
  BY <1>1, <1>2, PlaceOfOthers DEF Calm
<1>4. ~Writes(s)'
  BY <1>1 DEF Writes, WriteLabels
<1>5. Journals'
  BY <1>1, <1>4, WritesOfOthers DEF Calm, Journals
<1>. QED BY <1>3, <1>5 DEF Calm

LEMMA PublishCalm ==
  ASSUME IInv, CellInv, Calm, ~Contended, NEW s \in Sessions, Step(s), Publish(s)
  PROVE  Calm'
<1> USE DEF IInv, TypeOK
<1>1. pc[s] = "publish" /\ mode[s] = "rebuild" /\ journal = "none"
  BY DEF Publish, At, StagingInv, Calm, Journals
<1>2. target'.phase = "ready" /\ target'.commit = want[s]
  BY <1>1 DEF Publish, StagingInv, StagingLabels
<1>3. pc'[s] = "check" /\ UNCHANGED <<mode, want>> /\ ~moved'[s] /\ journal' = "none"
  BY <1>1 DEF Publish, Gone, Goto, Detached
<1>4. ASSUME NEW t \in Sessions, t # s PROVE pc'[t] = "idle" /\ ~moved'[t]
  <2>1. pc[t] = "idle" /\ ~moved[t]
    BY <1>1, <1>4, RebuilderAlone DEF Calm, Place
  <2>2. ~Detached[t]
    BY <2>1 DEF Detached, ConnectedLabels, CreationLabels, WriteLabels
  <2>. QED BY <1>4, <2>1, <2>2, OnlySelf
<1>5. \A t \in Sessions : Place(t)'
  BY <1>2, <1>3, <1>4 DEF Place
<1>6. \A t \in Sessions : ~Writes(t)'
  BY <1>3, <1>4 DEF Writes, WriteLabels
<1>. QED BY <1>3, <1>5, <1>6 DEF Calm, Journals

LEMMA FailNewCalm ==
  ASSUME IInv, CellInv, Calm, ~Contended, NEW s \in Sessions, Step(s), FailNew(s)
  PROVE  Calm'
<1> USE DEF IInv, TypeOK
<1>1. Creates(s)
  BY CreatorAttached DEF FailNew
<1>2. pc'[s] = "idle" /\ ~moved'[s] /\ journal' = "none"
  BY DEF FailNew, Gone, Goto, Detached
<1>3. ASSUME NEW t \in Sessions, t # s PROVE pc'[t] \in {"idle", "reserve"} /\ ~moved'[t]
  <2>1. pc[t] \in {"idle", "reserve"} /\ ~moved[t]
    BY <1>1, <1>3, CreatorAlone DEF Calm, Place
  <2>2. ~Detached[t]
    BY <2>1 DEF Detached, ConnectedLabels, CreationLabels, WriteLabels
  <2>. QED BY <1>3, <2>1, <2>2, OnlySelf
<1>4. \A t \in Sessions : Place(t)'
  BY <1>2, <1>3 DEF Place
<1>5. \A t \in Sessions : ~Writes(t)'
  BY <1>2, <1>3 DEF Writes, WriteLabels
<1>. QED BY <1>2, <1>4, <1>5 DEF Calm, Journals

\* A session that leaves or dies while nothing races takes nothing with it.
LEMMA EndCalm ==
  ASSUME IInv, CellInv, Calm, ~Contended, NEW s \in Sessions, Step(s), Leave(s) \/ Crash(s)
  PROVE  Calm'
<1> USE DEF IInv, TypeOK
<1>1. target' = target
  BY DEF Leave, Crash, Calm, Journals
<1>2. /\ pc'[s] = "idle" /\ ~moved'[s] /\ mode'[s] = "new"
      /\ \A t \in Sessions : t # s => moved'[t] = moved[t]
  BY DEF Leave, Crash, Gone, Goto
<1>3. Place(s)'
  BY <1>2 DEF Place
<1>4. \A t \in Sessions : Place(t)'
  BY <1>1, <1>2, <1>3, PlaceOfOthers DEF Calm
<1>5. ~Writes(s)'
  BY <1>2 DEF Writes, WriteLabels
<1>6. Journals'
  <2>1. CASE journal' = journal
    BY <1>1, <1>2, <1>5, <2>1, WritesOfOthers, OnlySelf DEF Calm, Journals
  <2>2. CASE journal' # journal
    <3>1. Writes(s) /\ journal' = "none"
      BY <2>2 DEF Leave, Crash, EndWrite, Writes, WriteLabels, Attached, Calm, Place
    <3>2. \A t \in Sessions : ~Writes(t)'
      BY <1>5, <3>1, WritesOfOthers DEF OneWriter
    <3>. QED BY <3>1, <3>2 DEF Journals
  <2>. QED BY <2>1, <2>2
<1>. QED BY <1>4, <1>6 DEF Calm

LEMMA HotCalm ==
  ASSUME IInv, CellInv, Calm, ~Contended, NEW s \in Sessions, RollBackHot(s)
  PROVE  Calm'
<1>1. target' = target /\ journal' = "none" /\ UNCHANGED session
  BY DEF RollBackHot, Calm, Journals
<1>2. \A t \in Sessions : ~Writes(t)'
  BY <1>1 DEF RollBackHot, HotJournal, Locked, Writes, Attached, session
<1>. QED BY <1>1, <1>2 DEF Calm, Journals, Place, session

LEMMA CalmStep == IInv /\ CellInv /\ CalmInv /\ [Next]_vars => CalmInv'
<1> SUFFICES ASSUME IInv, CellInv, CalmInv, [Next]_vars, ~Contended' PROVE Calm'
  BY DEF CalmInv
<1>1. ~Contended /\ Calm
  BY ContendedStays DEF CalmInv
<1>2. ASSUME NEW s \in Sessions, Step(s) PROVE Calm'
  <2>1. CASE mode[s] = "rebuild"
    BY <1>1, <1>2, <2>1, BeginsCalm, ReserveCalm, SetUpCalm, CreationCalm, StagingCalm, VerifyCalm,
       PublishCalm, FailNewCalm, EndCalm, HotCalm DEF Step, Begins
  <2>2. CASE mode[s] # "rebuild"
    <3>1. ~VerifyStaging(s)
      BY <2>2 DEF VerifyStaging, WorksInPlace
    <3>. QED
      BY <1>1, <1>2, <2>2, <3>1, BeginsCalm, ReserveCalm, SetUpCalm, CreationCalm, InPlaceCalm,
         CommitCalm, VerifyCalm, PublishCalm, FailNewCalm, EndCalm, HotCalm DEF Step, Begins
  <2>. QED BY <2>1, <2>2
<1>3. ASSUME NEW f \in Files, Drift(f) PROVE Calm'
  BY <1>1, <1>3, DriftKeeps DEF IInv, session, Calm, Journals, Place, Writes, Attached
<1>4. CASE UNCHANGED vars
  BY <1>1, <1>4 DEF vars, Calm, Journals, Place, Writes, Attached
<1>. QED BY <1>2, <1>3, <1>4 DEF Next
-----------------------------------------------------------------------------
(***************************************************************************)
(* Theorems.                                                               *)
(***************************************************************************)

LEMMA FullInit == Init => FullInv
<1> SUFFICES ASSUME Init PROVE FullInv
  OBVIOUS
<1>1. IInv
  BY IInvInit
<1>2. ShapeInv
  <2>1. CASE target \in {NoDatabase, Fresh("foreign")}
    BY <2>1, FreshShape DEF ShapeInv, NoDatabase
  <2>2. ASSUME NEW c \in Commits, target = ReadyCorpus(c) PROVE ShapeInv
    BY <2>2 DEF ShapeInv, ReadyCorpus
  <2>. QED BY <2>1, <2>2 DEF Init
<1>3. CreationInv /\ FileInv
  BY DEF Init, CreationInv, FileInv, Creates, CreationLabels
<1>4. Calm
  BY DEF Init, Calm, Journals, Place, Writes, WriteLabels
<1>. QED BY <1>1, <1>2, <1>3, <1>4 DEF FullInv, CellInv, CalmInv

LEMMA FullStep == FullInv /\ [Next]_vars => FullInv'
BY IInvStep, CellStep, CalmStep DEF FullInv

LEMMA ImportFullInvariant == Spec => []FullInv
<1>. QED BY FullInit, FullStep, PTL DEF Spec

\* Unless a rebuild has run beside another session, a ready database never has a
\* journal beside it: no session writes to it, and none that died did.
THEOREM ImportServable == Spec => []ReadyServable
<1>1. FullInv => ReadyServable
  BY DEF FullInv, CalmInv, Calm, Journals, ReadyServable
<1>. QED BY <1>1, ImportFullInvariant, PTL

\* And what finalize has returned Ok for is and stays a ready corpus of the commit
\* its session was begun for.
THEOREM ImportFinalizeOk == Spec => []FinalizeOkMeansReady
<1>1. FullInv => FinalizeOkMeansReady
  BY DEF FullInv, CalmInv, Calm, Place, FinalizeOkMeansReady
<1>. QED BY <1>1, ImportFullInvariant, PTL
-----------------------------------------------------------------------------
(***************************************************************************)
(* The refinement.                                                         *)
(***************************************************************************)

\* What the reader of a path sees of the database there.
View(db) ==
  [phase |-> IF db.phase \in {"importing", "ready"} THEN db.phase ELSE "none",
   commit |-> db.commit,
   files |-> {f \in Files : db.files[f] # "missing"}]

LEMMA Views ==
  /\ \A p : p \notin {"importing", "ready"} => View(Fresh(p)) = Cell!Empty
  /\ \A c : View(Importing(c)) = [phase |-> "importing", commit |-> c, files |-> {}]
  /\ \A c : View(ReadyCorpus(c)) = Cell!Ready(c)
<1>1. ASSUME NEW p, p \notin {"importing", "ready"} PROVE View(Fresh(p)) = Cell!Empty
  <2>1. {f \in Files : Fresh(p).files[f] # "missing"} = {}
    BY DEF Fresh
  <2>. QED BY <1>1, <2>1 DEF View, Fresh, Cell!Empty
<1>2. ASSUME NEW c
      PROVE  View(Importing(c)) = [phase |-> "importing", commit |-> c, files |-> {}]
  <2>1. {f \in Files : Importing(c).files[f] # "missing"} = {}
    BY DEF Importing, Fresh
  <2>. QED BY <2>1 DEF View, Importing, Fresh
<1>3. ASSUME NEW c PROVE View(ReadyCorpus(c)) = Cell!Ready(c)
  <2>1. {f \in Files : ReadyCorpus(c).files[f] # "missing"} = Files
    BY DEF ReadyCorpus
  <2>. QED BY <2>1 DEF View, ReadyCorpus, Cell!Ready
<1>. QED BY <1>1, <1>2, <1>3

\* A file that commits is one more, and readiness is only a change of phase.
LEMMA ViewChanges ==
  ASSUME NEW db \in Databases, db.phase = "importing"
  PROVE  /\ \A f \in Files :
              View([db EXCEPT !.files[f] = "complete"])
                = [View(db) EXCEPT !.files = @ \cup {f}]
         /\ CatalogComplete(db) =>
              /\ View(db).files = Files
              /\ View([db EXCEPT !.phase = "ready"]) = Cell!Ready(db.commit)
<1>1. ASSUME NEW f \in Files
      PROVE  View([db EXCEPT !.files[f] = "complete"])
               = [View(db) EXCEPT !.files = @ \cup {f}]
  <2> DEFINE after == [db EXCEPT !.files[f] = "complete"]
  <2>1. after.phase = db.phase /\ after.commit = db.commit
    BY DEF Databases
  <2>2. {g \in Files : after.files[g] # "missing"}
          = {g \in Files : db.files[g] # "missing"} \cup {f}
    BY DEF Databases
  <2>3. View(after) = [phase |-> "importing", commit |-> db.commit,
                       files |-> {g \in Files : db.files[g] # "missing"} \cup {f}]
    BY <2>1, <2>2 DEF View
  <2>4. View(db) = [phase |-> "importing", commit |-> db.commit,
                    files |-> {g \in Files : db.files[g] # "missing"}]
    BY DEF View
  <2>. QED BY <2>3, <2>4
<1>2. ASSUME CatalogComplete(db)
      PROVE  /\ View(db).files = Files
             /\ View([db EXCEPT !.phase = "ready"]) = Cell!Ready(db.commit)
  <2> DEFINE after == [db EXCEPT !.phase = "ready"]
  <2>1. after.phase = "ready" /\ after.commit = db.commit /\ after.files = db.files
    BY DEF Databases
  <2>2. {g \in Files : db.files[g] # "missing"} = Files
    BY <1>2 DEF CatalogComplete
  <2>. QED BY <2>1, <2>2 DEF View, Cell!Ready
<1>. QED BY <1>1, <1>2

\* Every step that changes the database at the path is one of the cell's, or none.
LEMMA MoveRefines ==
  ASSUME FullInv, NEW s \in Sessions, Step(s), target' # target
  PROVE  \/ View(target') = View(target)
         \/ \E c \in Commits : \/ /\ View(target) = Cell!Empty
                                  /\ View(target') = View(Importing(c))
                               \/ View(target') = Cell!Ready(c)
         \/ \E f \in Files : /\ View(target).phase = "importing"
                             /\ f \notin View(target).files
                             /\ View(target') = [View(target) EXCEPT !.files = @ \cup {f}]
         \/ /\ View(target).phase = "importing" /\ View(target).files = Files
            /\ View(target') = Cell!Ready(View(target).commit)
         \/ Contended /\ View(target') = Cell!Empty
<1> USE DEF FullInv, IInv, TypeOK
<1>1. target.phase \notin {"importing", "ready"} => View(target) = Cell!Empty
  BY Views DEF CellInv, ShapeInv
<1>2. CASE Reserve(s)
  BY <1>1, <1>2, Views DEF Reserve, Reservable
<1>3. CASE CommitMigration(s) \/ CommitCorpus(s)
  <2>1. Attached(s) /\ pc[s] \in CreationLabels
    BY <1>3 DEF CommitMigration, CommitCorpus, Commit, At, CreationLabels
  <2>2. View(target) = Cell!Empty
    BY <1>1, <2>1 DEF CellInv, CreationInv, Creates
  <2>3. want[s] \in Commits
    BY <2>1 DEF CreationLabels
  <2>. QED BY <1>3, <2>1, <2>2, <2>3, Views DEF CommitMigration, CommitCorpus, Commit
<1>4. CASE CommitFile(s)
  <2>1. Attached(s) /\ target' = [target EXCEPT !.files[file[s]] = "complete"]
    BY <1>4 DEF CommitFile, Commit, Working, Attached
  <2>2. /\ target.phase = "importing" /\ file[s] \in Files
        /\ target.files[file[s]] = "missing"
    BY <1>4, <2>1 DEF CommitFile, At, CellInv, FileInv
  <2>3. View(target).phase = "importing" /\ file[s] \notin View(target).files
    BY <2>2 DEF View
  <2>. QED BY <2>1, <2>2, <2>3, ViewChanges
<1>5. CASE CommitReady(s)
  <2>1. Attached(s) /\ target' = [target EXCEPT !.phase = "ready"]
    BY <1>5 DEF CommitReady, Commit, Working, Attached
  <2>2. target.phase = "importing" /\ CatalogComplete(target)
    BY <1>5, <2>1 DEF CommitReady, At, FinalizingInv
  <2>3. View(target).phase = "importing" /\ View(target).commit = target.commit
    BY <2>2 DEF View
  <2>. QED BY <2>1, <2>2, <2>3, ViewChanges
<1>6. CASE Publish(s)
  <2>1. /\ staging[s].phase = "ready" /\ CatalogComplete(staging[s])
        /\ staging[s].commit = want[s] /\ want[s] \in Commits
    BY <1>6 DEF Publish, At, StagingInv, StagingLabels
  <2>2. staging[s] = ReadyCorpus(want[s])
    BY <2>1 DEF Databases, ReadyCorpus, CatalogComplete
  <2>. QED BY <1>6, <2>1, <2>2, Views DEF Publish
<1>7. CASE FailNew(s) \/ Crash(s) \/ RollBackHot(s)
  <2>1. View(target') = Cell!Empty
    BY <1>7, Views DEF FailNew, Crash, RollBackHot, NoDatabase
  <2>2. CASE ~Contended
    <3>1. Calm
      BY <2>2 DEF CalmInv
    <3>2. FailNew(s)
      BY <1>7, <3>1 DEF Crash, RollBackHot, Calm, Journals
    <3>3. Creates(s)
      BY <3>1, <3>2, CreatorAttached DEF FailNew
    <3>. QED BY <1>1, <2>1, <3>3 DEF CellInv, CreationInv
  <2>. QED BY <2>1, <2>2
<1>. QED BY <1>2, <1>3, <1>4, <1>5, <1>6, <1>7, Others DEF Moves

\* To a reader of the destination path an import is a CorpusCell: empty, then one
\* whole file at a time, then ready, then replaced whole; and lost, as a whole, only
\* after a rebuild has run beside another session.
THEOREM ImportImplementsCell == Spec => ImplementsCell
<1> DEFINE Seen == View(target)
<1>1. Init => Cell!Init
  <2> SUFFICES ASSUME Init PROVE Cell!Init
    OBVIOUS
  <2>1. Seen \in {Cell!Empty} \cup {Cell!Ready(c) : c \in Commits}
    BY Views DEF Init, NoDatabase
  <2>2. Contended = FALSE
    BY DEF Init, Contended, Racing
  <2>. QED BY <2>1, <2>2 DEF Cell!Init, View
<1>2. FullInv /\ [Next]_vars => [Cell!Next]_<<Seen, Contended>>
  <2> SUFFICES ASSUME FullInv, [Next]_vars PROVE [Cell!Next]_<<Seen, Contended>>
    OBVIOUS
  <2>1. CASE Seen' = Seen
    <3>1. CASE Contended' = Contended
      BY <2>1, <3>1
    <3>2. CASE ~Contended /\ Contended'
      BY <2>1, <3>2 DEF Cell!Next, Cell!Contend, View
    <3>3. Contended \in BOOLEAN /\ Contended' \in BOOLEAN /\ (Contended => Contended')
      BY ContendedStays DEF FullInv, IInv, TypeOK, Contended, Racing
    <3>. QED BY <3>1, <3>2, <3>3
  <2>2. CASE Seen' # Seen
    <3>1. target' # target
      BY <2>2
    <3>2. ASSUME NEW f \in Files, Drift(f) PROVE FALSE
      <4>1. \A g \in Files : target'.files[g] = "missing" <=> target.files[g] = "missing"
        BY <3>2, DriftKeeps DEF FullInv, IInv
      <4>2. target'.phase = target.phase /\ target'.commit = target.commit
        BY <3>2, DriftKeeps DEF FullInv, IInv
      <4>3. Seen' = Seen
        BY <4>1, <4>2 DEF View
      <4>. QED BY <2>2, <4>3
    <3>3. PICK s \in Sessions : Step(s)
      BY <3>1, <3>2 DEF Next, vars
    <3>4. ~Begins(s)
      BY <3>1 DEF Begins, BeginNew, BeginResume, BeginRebuild
    <3>5. Contended' = Contended
      <4>1. Contended \in BOOLEAN /\ Contended' \in BOOLEAN /\ (Contended => Contended')
        BY ContendedStays DEF FullInv, IInv, TypeOK, Contended, Racing
      <4>2. Contended' => Contended
        BY <3>3, <3>4, RaceBegins DEF FullInv, IInv
      <4>. QED BY <4>1, <4>2
    <3> HIDE DEF Seen
    <3>6. \/ \E c \in Commits : \/ /\ Seen = Cell!Empty
                                   /\ Seen' = [phase |-> "importing", commit |-> c, files |-> {}]
                                \/ Seen' = Cell!Ready(c)
          \/ \E f \in Files : /\ Seen.phase = "importing"
                              /\ f \notin Seen.files
                              /\ Seen' = [Seen EXCEPT !.files = @ \cup {f}]
          \/ /\ Seen.phase = "importing" /\ Seen.files = Files
             /\ Seen' = Cell!Ready(Seen.commit)
          \/ Contended /\ Seen' = Cell!Empty
      BY <2>2, <3>1, <3>3, MoveRefines, Views DEF Seen
    <3>7. \/ \E c \in Commits : Cell!Create(c) \/ Cell!Replace(c)
          \/ \E f \in Files : Cell!AddFile(f)
          \/ Cell!MakeReady \/ Cell!Lose
      BY <3>6 DEF Seen, View, Cell!Create, Cell!Replace, Cell!AddFile, Cell!MakeReady, Cell!Lose
    <3>. QED BY <3>5, <3>7 DEF Cell!Next
  <2>. QED BY <2>1, <2>2
<1>. QED BY <1>1, <1>2, ImportFullInvariant, PTL DEF Spec, ImplementsCell, Cell!Spec, View
=============================================================================
