------------------------------- MODULE Import -------------------------------
(***************************************************************************)
(* The life of a corpus database under src/web_import.rs and the parts of  *)
(* src/web_db.rs it calls. Import sessions, each a process of its own,     *)
(* create ("new"), continue ("resume") or replace ("rebuild") the database *)
(* at one destination path; each may fail at any step or be killed.        *)
(*                                                                         *)
(* A database is abstracted to what the validations tell apart: how far it *)
(* was set up, the source commit, and for each source file whether its     *)
(* rows are there and agree with its recorded counts and digest. A write   *)
(* transaction is two steps, its first write and its end: in between it    *)
(* holds SQLite's write lock and a rollback journal stands at              *)
(* <path>-journal. SQLite itself is external; what is taken from it:       *)
(*   - one connection at a time has the write lock of a file (IMMEDIATE);  *)
(*   - a journal nobody holds the lock for is hot: a read-write connection *)
(*     rolls it back before it reads, a read-only one fails;               *)
(*   - a connection stays with the file it opened and refuses to write     *)
(*     once that file is no longer the one at its path;                    *)
(*   - the journal is deleted by name when a transaction ends.             *)
(* A call that is refused and changes nothing is a stuttering step.        *)
(***************************************************************************)
EXTENDS FiniteSets

CONSTANTS
  Files,      \* source files of the expected catalogue
  Commits,    \* source commits
  Sessions,   \* import sessions that may be live at once
  Modes,      \* the ImportModes the sessions use
  NoCommit, NoFile

ASSUME NoCommitAssumption == NoCommit \notin Commits
ASSUME NoFileAssumption == NoFile \notin Files
ASSUME ModesAssumption == Modes \subseteq {"new", "resume", "rebuild"}

VARIABLES
  target,     \* the database at the destination path
  journal,    \* <destination>-journal: of that database, or of one that has
              \* been replaced under its connection
  pc,         \* where each session stands
  mode,       \* ImportSession.mode
  want,       \* ImportSession.source_commit
  moved,      \* the file its connection opened is no longer at the path
  staging,    \* a rebuild's working database, beside the destination
  file,       \* the file whose transaction is open
  raced       \* history: a rebuild has run beside another session

vars == <<target, journal, pc, mode, want, moved, staging, file, raced>>
session == <<pc, mode, want, moved, staging, file, raced>>

Phases == {"absent", "foreign", "blank", "migrated", "importing", "ready"}
Databases == [phase : Phases, commit : Commits \cup {NoCommit},
              files : [Files -> {"missing", "complete", "drifted"}]]

\* "foreign": a regular file that is not a valid corpus database.
Fresh(phase) ==
  [phase |-> phase, commit |-> NoCommit, files |-> [f \in Files |-> "missing"]]
NoDatabase == Fresh("absent")

\* Mutant of Importing: the corpus row without its source commit.
ImportingUnnamed(c) == Fresh("importing")

\* The row initialize_importing_corpus inserts into a migrated database.
Importing(c) == [Fresh("importing") EXCEPT !.commit = c]

ReadyCorpus(c) ==
  [phase |-> "ready", commit |-> c, files |-> [f \in Files |-> "complete"]]

Labels == {"idle", "reserve", "migrate", "migrating", "init", "initializing",
           "open", "file", "finalizing", "verify", "publish", "check", "done"}
WriteLabels == {"migrating", "initializing", "file", "finalizing"}

\* Mutant of CreationLabels: a failed file transaction discards the database.
CreationLabelsAndFile == {"migrate", "migrating", "init", "initializing", "file"}

\* Where an error makes create_new or begin_new_at_paths delete the file.
CreationLabels == {"migrate", "migrating", "init", "initializing"}

ConnectedLabels == CreationLabels \cup WriteLabels \cup {"open"}

\* Mutant of WorksInPlace: a rebuild that opens the destination itself.
AlwaysInPlace(m) == TRUE

\* Only a rebuild has a working_path other than destination_path.
WorksInPlace(m) == m # "rebuild"

\* The session's connection, if it has one, is to the file at the path.
Attached(s) == WorksInPlace(mode[s]) /\ ~moved[s]

Working(s) == IF WorksInPlace(mode[s]) THEN target ELSE staging[s]

\* A live session is in a write transaction on the file at the path.
Writes(s) == pc[s] \in WriteLabels /\ Attached(s)
Locked == \E s \in Sessions : Writes(s)

\* A rebuild is in flight beside another session. The code does not prevent it.
Racing ==
  \E s, t \in Sessions :
    s # t /\ mode[s] = "rebuild" /\ pc[s] # "idle" /\ pc[t] # "idle"

HotJournal == journal # "none" /\ ~Locked

\* Mutant of ImportingFor: the source commit is not compared.
ImportingAny(db, c) == db.phase = "importing"

\* Mutant of ImportingFor: the corpus state is not looked at.
AnyStateFor(db, c) == db.commit = c

\* validate_importing_corpus, with the schema it can only be asked of.
ImportingFor(db, c) == db.phase = "importing" /\ db.commit = c

\* Mutant of CatalogComplete: the recorded digest is trusted.
CatalogPresent(db) == \A f \in Files : db.files[f] # "missing"

\* validate_expected_source_files: every file of the catalogue is there and
\* its rows give the recorded counts and digest.
CatalogComplete(db) == \A f \in Files : db.files[f] = "complete"

Init ==
  /\ target \in {NoDatabase, Fresh("foreign")} \cup {ReadyCorpus(c) : c \in Commits}
  /\ journal = "none"
  /\ pc = [s \in Sessions |-> "idle"]
  /\ mode = [s \in Sessions |-> "new"]
  /\ want = [s \in Sessions |-> NoCommit]
  /\ moved = [s \in Sessions |-> FALSE]
  /\ staging = [s \in Sessions |-> NoDatabase]
  /\ file = [s \in Sessions |-> NoFile]
  /\ raced = FALSE

(***************************************************************************)
(* Beginning and ending a session.                                         *)
(***************************************************************************)

At(s, label) == pc[s] = label
Goto(s, label) ==
  /\ pc' = [pc EXCEPT ![s] = label]
  /\ raced' = (raced \/ Racing)

Begin(s, m, c, label) ==
  /\ pc[s] \in {"idle", "done"}
  /\ m \in Modes
  /\ Goto(s, label)
  /\ mode' = [mode EXCEPT ![s] = m]
  /\ want' = [want EXCEPT ![s] = c]
  /\ moved' = [moved EXCEPT ![s] = FALSE]
  /\ file' = [file EXCEPT ![s] = NoFile]

\* What is left of a session that returned, failed or died, while detached says
\* which connections have lost their file. A staging database is deleted, or
\* leaked under a name no later session uses.
Gone(s, label, detached) ==
  /\ Goto(s, label)
  /\ mode' = IF label = "idle" THEN [mode EXCEPT ![s] = "new"] ELSE mode
  /\ want' = IF label = "idle" THEN [want EXCEPT ![s] = NoCommit] ELSE want
  /\ moved' = [detached EXCEPT ![s] = FALSE]
  /\ staging' = [staging EXCEPT ![s] = NoDatabase]
  /\ file' = [file EXCEPT ![s] = NoFile]

\* The connections that lose their file when another one takes the path, or
\* none does.
Detached ==
  [s \in Sessions |->
     moved[s] \/ (pc[s] \in ConnectedLabels /\ WorksInPlace(mode[s]))]

\* begin_new: neither the path nor a sidecar exists (resolve_absent_destination
\* and, once more, resolve_new_path).
BeginNew(s, c) ==
  /\ target.phase = "absent"
  /\ journal = "none"
  /\ Begin(s, "new", c, "reserve")
  /\ UNCHANGED <<target, journal, staging>>

\* Mutant of Reservable: the path is created or truncated.
AnyReservable(db) == TRUE

\* OpenOptions::create_new
Reservable(db) == db.phase = "absent"

\* reserve_new_database; when it fails nothing is cleaned up.
Reserve(s) ==
  /\ At(s, "reserve")
  /\ IF Reservable(target)
       THEN /\ target' = Fresh("blank")
            /\ Goto(s, "migrate")
            /\ UNCHANGED <<mode, want, moved, staging, file>>
       ELSE Gone(s, "idle", moved) /\ UNCHANGED target
  /\ UNCHANGED journal

\* open_existing_for_import and the validation of begin_import.
BeginResume(s, c) ==
  /\ ~HotJournal
  /\ ImportingFor(target, c)
  /\ Begin(s, "resume", c, "open")
  /\ UNCHANGED <<target, journal, staging>>

\* The destination may be absent or any regular file, without a sidecar; the
\* staging database is created and set up under a name only this session uses.
BeginRebuild(s, c) ==
  /\ journal = "none"
  /\ Begin(s, "rebuild", c, "open")
  /\ staging' = [staging EXCEPT ![s] = Importing(c)]
  /\ UNCHANGED <<target, journal>>

(***************************************************************************)
(* Write transactions.                                                     *)
(***************************************************************************)

\* BEGIN IMMEDIATE up to the first write.
BeginWrite(s) ==
  IF WorksInPlace(mode[s])
    THEN ~moved[s] /\ ~Locked /\ ~HotJournal /\ journal' = "own"
    ELSE UNCHANGED journal

EndWrite(s) == journal' = IF WorksInPlace(mode[s]) THEN "none" ELSE journal

\* COMMIT: db takes the place of what the session's connection holds.
Commit(s, db) ==
  /\ target' = IF Attached(s) THEN db ELSE target
  /\ staging' = IF WorksInPlace(mode[s]) THEN staging ELSE [staging EXCEPT ![s] = db]
  /\ EndWrite(s)

\* apply_migration and initialize_importing_corpus.
BeginSetUp(s) ==
  /\ \/ At(s, "migrate") /\ Goto(s, "migrating")
     \/ At(s, "init") /\ Goto(s, "initializing")
  /\ BeginWrite(s)
  /\ UNCHANGED <<target, mode, want, moved, staging, file>>

CommitMigration(s) ==
  /\ At(s, "migrating")
  /\ Commit(s, Fresh("migrated"))
  /\ Goto(s, "init")
  /\ UNCHANGED <<mode, want, moved, file>>

CommitCorpus(s) ==
  /\ At(s, "initializing")
  /\ Commit(s, Importing(want[s]))
  /\ Goto(s, "open")
  /\ UNCHANGED <<mode, want, moved, file>>

\* with_file_transaction: the corpus is validated again inside the transaction.
\* A file that is already complete is only read.
BeginFile(s, f) ==
  /\ At(s, "open")
  /\ ImportingFor(Working(s), want[s])
  /\ Working(s).files[f] = "missing"
  /\ BeginWrite(s)
  /\ Goto(s, "file")
  /\ file' = [file EXCEPT ![s] = f]
  /\ UNCHANGED <<target, mode, want, moved, staging>>

\* The completion, checked against the rows just written.
CommitFile(s) ==
  /\ At(s, "file")
  /\ Commit(s, [Working(s) EXCEPT !.files[file[s]] = "complete"])
  /\ Goto(s, "open")
  /\ file' = [file EXCEPT ![s] = NoFile]
  /\ UNCHANGED <<mode, want, moved>>

\* Any error or panic of the operation: the transaction is dropped, the
\* session stays.
RollBackFile(s) ==
  /\ At(s, "file")
  /\ EndWrite(s)
  /\ Goto(s, "open")
  /\ file' = [file EXCEPT ![s] = NoFile]
  /\ UNCHANGED <<target, mode, want, moved, staging>>

\* finalize_import: the validations and the UPDATE.
BeginFinalize(s) ==
  /\ At(s, "open")
  /\ ImportingFor(Working(s), want[s])
  /\ CatalogComplete(Working(s))
  /\ BeginWrite(s)
  /\ Goto(s, "finalizing")
  /\ UNCHANGED <<target, mode, want, moved, staging, file>>

CommitReady(s) ==
  /\ At(s, "finalizing")
  /\ Commit(s, [Working(s) EXCEPT !.phase = "ready"])
  /\ Goto(s, "verify")
  /\ UNCHANGED <<mode, want, moved, file>>

(***************************************************************************)
(* After the ready corpus is committed: finalize reads it back and, for a  *)
(* rebuild, publishes it.                                                  *)
(***************************************************************************)

\* validate(path, ReadyCorpus), through a read-only connection.
Valid == target.phase = "ready" /\ ~HotJournal

\* The working path is the destination: both validations read the same file.
Verify(s) ==
  /\ At(s, "verify")
  /\ WorksInPlace(mode[s])
  /\ Valid
  /\ Gone(s, "done", moved)
  /\ UNCHANGED <<target, journal>>

\* The staging database validates and the destination has no sidecar.
VerifyStaging(s) ==
  /\ At(s, "verify")
  /\ ~WorksInPlace(mode[s])
  /\ staging[s].phase = "ready"
  /\ journal = "none"
  /\ Goto(s, "publish")
  /\ UNCHANGED <<target, journal, mode, want, moved, staging, file>>

\* publish_database: the copy is renamed over the destination.
Publish(s) ==
  /\ At(s, "publish")
  /\ target' = staging[s]
  /\ journal' = IF journal = "own" THEN "foreign" ELSE journal
  /\ Gone(s, "check", Detached)

CheckPublished(s) ==
  /\ At(s, "check")
  /\ Valid
  /\ Gone(s, "done", moved)
  /\ UNCHANGED <<target, journal>>

(***************************************************************************)
(* Failures.                                                               *)
(***************************************************************************)

\* create_new or begin_new_at_paths fails and deletes what is at the path and
\* its sidecars, whoever they belong to.
FailNew(s) ==
  /\ pc[s] \in CreationLabels
  /\ target' = NoDatabase
  /\ journal' = "none"
  /\ Gone(s, "idle", Detached)

\* A session is dropped, or finalize fails, with its transaction rolled back.
Leave(s) ==
  /\ pc[s] \in {"open", "finalizing", "verify", "publish", "check", "done"}
  /\ IF pc[s] = "finalizing" THEN EndWrite(s) ELSE UNCHANGED journal
  /\ Gone(s, "idle", moved)
  /\ UNCHANGED target

\* The process is killed. Its locks go, its journal stays; should another
\* connection have deleted that journal, the pages it wrote stay too.
Crash(s) ==
  /\ ~At(s, "idle")
  /\ \/ UNCHANGED target
     \/ Writes(s) /\ journal = "none" /\ target' = Fresh("foreign")
  /\ Gone(s, "idle", moved)
  /\ UNCHANGED journal

\* A read-write connection meets a hot journal: open_existing_for_import, even
\* if it then refuses the database, or a live session's next statement. A
\* journal of a replaced file may overwrite pages of the one that replaced it.
RollBackHot(s) ==
  /\ HotJournal
  /\ target.phase # "absent"
  /\ \/ pc[s] \in {"idle", "done"} /\ "resume" \in Modes
     \/ pc[s] \in {"migrate", "init", "open"} /\ Attached(s)
  /\ \/ UNCHANGED target
     \/ journal = "foreign" /\ target' = Fresh("foreign")
  /\ journal' = "none"
  /\ UNCHANGED session

\* Rows of an importing corpus are changed behind the importer's back.
Drift(f) ==
  /\ target.phase = "importing"
  /\ target.files[f] = "complete"
  /\ journal = "none"
  /\ ~Locked
  /\ target' = [target EXCEPT !.files[f] = "drifted"]
  /\ UNCHANGED <<journal, session>>

Step(s) ==
  \/ \E c \in Commits : BeginNew(s, c) \/ BeginResume(s, c) \/ BeginRebuild(s, c)
  \/ Reserve(s) \/ BeginSetUp(s) \/ CommitMigration(s) \/ CommitCorpus(s)
  \/ \E f \in Files : BeginFile(s, f)
  \/ CommitFile(s) \/ RollBackFile(s)
  \/ BeginFinalize(s) \/ CommitReady(s)
  \/ Verify(s) \/ VerifyStaging(s) \/ Publish(s) \/ CheckPublished(s)
  \/ FailNew(s) \/ Leave(s) \/ Crash(s) \/ RollBackHot(s)

Next == (\E s \in Sessions : Step(s)) \/ (\E f \in Files : Drift(f))

Spec == Init /\ [][Next]_vars

-----------------------------------------------------------------------------
(***************************************************************************)
(* Properties.                                                             *)
(***************************************************************************)

Named(db) == db.phase \in {"importing", "ready"} <=> db.commit # NoCommit

TypeOK ==
  /\ target \in Databases
  /\ journal \in {"none", "own", "foreign"}
  /\ pc \in [Sessions -> Labels]
  /\ mode \in [Sessions -> {"new", "resume", "rebuild"}]
  /\ want \in [Sessions -> Commits \cup {NoCommit}]
  /\ moved \in [Sessions -> BOOLEAN]
  /\ staging \in [Sessions -> Databases]
  /\ file \in [Sessions -> Files \cup {NoFile}]
  /\ raced \in BOOLEAN
  /\ Named(target)
  /\ \A s \in Sessions : Named(staging[s]) /\ (pc[s] # "idle" => want[s] # NoCommit)

\* Whatever sessions run, fail and die around it, a database that says it is
\* ready holds every file of the catalogue, each agreeing with its recorded
\* digest: rows that drifted before finalization keep it from becoming ready.
ReadyImpliesComplete ==
  target.phase = "ready" =>
    target.commit \in Commits /\ \A f \in Files : target.files[f] = "complete"

\* A rebuild has at some time run beside another session.
Contended == raced \/ Racing

\* Unless a rebuild raced it, no session leaves a ready database with a rollback
\* journal: it can always be opened read-only, which is how it is validated and
\* served. The transaction that makes it ready is the last one anybody writes.
ReadyServable == target.phase = "ready" /\ journal # "none" => Contended

\* When finalize returns Ok the destination is a ready corpus of the very
\* source commit the session was begun for, and stays so unless a rebuild races.
FinalizeOkMeansReady ==
  \A s \in Sessions :
    pc[s] = "done" => Contended \/ (target.phase = "ready" /\ target.commit = want[s])

\* A rebuild, at every step and however it ends, leaves the destination alone
\* or swaps it in one step for the complete ready corpus it was begun for.
RebuildSwapsOnly ==
  [][\A s \in Sessions :
       mode[s] = "rebuild" /\ pc'[s] # pc[s] =>
         target' = target \/ target' = ReadyCorpus(want[s])]_vars

\* To a reader of the destination path the import is a CorpusCell: set-up is
\* invisible, what is left of failed and killed sessions takes nothing back, and
\* the worst that rebuilds racing other sessions can do is to lose the database.
Cell == INSTANCE CorpusCell WITH
  cell <- [phase |-> IF target.phase \in {"importing", "ready"}
                       THEN target.phase ELSE "none",
           commit |-> target.commit,
           files |-> {f \in Files : target.files[f] # "missing"}],
  contended <- Contended

\* The import implements CorpusCell.
ImplementsCell == Cell!Spec

\* ARCHITECTURE.md on rebuild, "대상 sidecar가 있거나 ... 실패하면 기존 DB를
\* 유지합니다" (the existing database is kept if the destination has a sidecar):
\* nothing is published over a database that has one.
PublishSparesSidecars ==
  [][\A s \in Sessions :
       pc[s] = "publish" /\ pc'[s] = "check" => journal = "none"]_vars
=============================================================================
