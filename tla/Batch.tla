------------------------------- MODULE Batch -------------------------------
(***************************************************************************)
(* The corpus batch of src/batch.rs: scoped worker threads drain a shared  *)
(* deque of volumes, take each one through build, audit and EPUBCheck, and *)
(* send a book report over a channel; the parent thread joins them and     *)
(* writes corpus-report.json.                                              *)
(*                                                                         *)
(* A volume is its position in the catalogue, which is both the order the  *)
(* deque is filled in and the order (dictionary_order, volume) the books   *)
(* are sorted by: the command line selects one dictionary or all of them.  *)
(* An EPUB is abstracted to what the audit makes of it: "conforming" if    *)
(* every check of audit_volume would match, "differing" otherwise, and     *)
(* "blocked" for a path that exists and is not a regular file.             *)
(***************************************************************************)
EXTENDS Integers, Sequences, FiniteSets

CONSTANTS
  N,          \* number of catalogue volumes in the selection
  Workers,    \* worker threads the largest --jobs may start
  MaxRuns     \* bound: how often the command is started

ASSUME NAssumption == N \in Nat
ASSUME WorkersAssumption == IsFiniteSet(Workers)
ASSUME RunsAssumption == MaxRuns \in Nat

VARIABLES
  \* files of the output directory
  epub,       \* what stands at each volume's output path
  sidecar,    \* each volume's .audit.json
  corpus,     \* corpus-report.json
  \* one execution of run_batch
  outcome,    \* how the last execution ended, or "running"
  opt,        \* BatchOptions of the current execution
  active,     \* the workers spawned: min(jobs, expected_volumes) of them
  taken,      \* volumes popped; the deque is always taken+1 .. N
  cancelled,  \* the AtomicBool
  channel,    \* book reports sent, in order of arrival
  pc,         \* where each worker stands in its loop
  book,       \* the CorpusBookReport each worker is filling in
  \* observation only
  overrun,    \* volumes popped while cancelled was already set
  runs        \* executions started

disk == <<epub, sidecar, corpus>>
vars == <<epub, sidecar, corpus, outcome, opt, active, taken, cancelled,
          channel, pc, book, overrun, runs>>

Volumes == 1..N
Modes == {"fresh", "resume", "overwrite"}
Options == [mode : Modes, keepGoing : BOOLEAN, epubcheck : BOOLEAN]
Contents == {"absent", "conforming", "differing", "blocked"}
Outcomes == {"idle", "running", "rejected", "ok", "volume_failures",
             "io_error", "crashed"}
Labels == {"load", "pop", "build", "audit", "epubcheck", "send", "store", "exit"}
Verdicts == {"not-run", "skipped", "passed", "failed"}
Books == [volume : Volumes, status : {"passed", "failed"}, built : BOOLEAN,
          resumed : BOOLEAN, audit : Verdicts, epubcheck : Verdicts]

\* Mutant of NewBook: a report that passes unless a step says otherwise.
NewBookTrusting(v) ==
  [volume |-> v, status |-> "passed", built |-> FALSE, resumed |-> FALSE,
   audit |-> "not-run",
   epubcheck |-> IF opt.epubcheck THEN "not-run" ELSE "skipped"]

\* The record process_volume starts from: failed until proved otherwise.
NewBook(v) ==
  [volume |-> v, status |-> "failed", built |-> FALSE, resumed |-> FALSE,
   audit |-> "not-run",
   epubcheck |-> IF opt.epubcheck THEN "not-run" ELSE "skipped"]

NoBook == [volume |-> 0]
NoReport == [status |-> "none"]
NoOptions == [mode |-> "fresh", keepGoing |-> FALSE, epubcheck |-> FALSE]

Exists(v) == epub[v] # "absent"
IsFile(v) == epub[v] \in {"conforming", "differing"}

Init ==
  /\ epub \in [Volumes -> Contents]
  /\ sidecar = [v \in Volumes |-> "none"]
  /\ corpus = NoReport
  /\ outcome = "idle"
  /\ opt = NoOptions
  /\ active = {}
  /\ taken = 0
  /\ cancelled = FALSE
  /\ channel = <<>>
  /\ pc = [w \in Workers |-> "exit"]
  /\ book = [w \in Workers |-> NoBook]
  /\ overrun = 0
  /\ runs = 0

(***************************************************************************)
(* The parent thread.                                                      *)
(***************************************************************************)

\* What validate_options asks of the files for the workers of W to be spawned.
Accepted(o, W) ==
  /\ W # {}
  /\ Cardinality(W) <= N
  /\ o.mode = "fresh" => \A v \in Volumes : ~Exists(v)

\* The call is turned away: nothing to do, --jobs 0, no EPUBCheck jar, existing
\* outputs and neither --resume nor --overwrite; or the output directory cannot
\* be created. Nothing on disk changes.
Reject(o, W) ==
  /\ outcome # "running"
  /\ runs < MaxRuns
  /\ \/ /\ outcome' = "rejected"
        /\ \/ N = 0
           \/ W = {}
           \/ o.epubcheck
           \/ o.mode = "fresh" /\ \E v \in Volumes : Exists(v)
     \/ outcome' = "io_error" /\ Accepted(o, W)
  /\ runs' = runs + 1
  /\ UNCHANGED <<disk, opt, active, taken, cancelled, channel, pc, book, overrun>>

\* The options are accepted and the workers of W are spawned.
Start(o, W) ==
  /\ outcome # "running"
  /\ runs < MaxRuns
  /\ Accepted(o, W)
  /\ outcome' = "running"
  /\ opt' = o
  /\ active' = W
  /\ taken' = 0
  /\ cancelled' = FALSE
  /\ channel' = <<>>
  /\ pc' = [w \in Workers |-> IF w \in W THEN "load" ELSE "exit"]
  /\ book' = [w \in Workers |-> NoBook]
  /\ overrun' = 0
  /\ runs' = runs + 1
  /\ UNCHANGED disk

\* Mutant of InCatalogueOrder: the books stay in order of arrival.
InArrivalOrder(a, b) == FALSE

\* The sort key of run_batch.
InCatalogueOrder(a, b) == a.volume < b.volume

\* sort_by_key, which is stable: a book stands behind those that come before it,
\* and behind its equals that arrived earlier.
Sorted(books) ==
  LET UpTo(i) == {j \in DOMAIN books :
                    \/ InCatalogueOrder(books[j], books[i])
                    \/ j <= i /\ ~InCatalogueOrder(books[i], books[j])}
  IN [k \in DOMAIN books |-> books[CHOOSE i \in DOMAIN books : Cardinality(UpTo(i)) = k]]

Failed(books) == {i \in DOMAIN books : books[i].status = "failed"}

\* The CorpusReport computed from the collected books.
Report ==
  LET books == Sorted(channel)
      unprocessed == N - Len(books)
      failed == Cardinality(Failed(books))
  IN [status |-> CASE failed > 0 \/ unprocessed > 0 -> "failed"
                   [] OTHER -> IF opt.epubcheck THEN "passed" ELSE "partial",
      keepGoing |-> opt.keepGoing,
      failed |-> failed,
      unprocessed |-> unprocessed,
      books |-> books]

\* The locals of run_batch go with the call.
Return(result) ==
  /\ outcome' = result
  /\ opt' = NoOptions
  /\ active' = {}
  /\ taken' = 0
  /\ cancelled' = FALSE
  /\ channel' = <<>>
  /\ pc' = [w \in Workers |-> "exit"]
  /\ book' = [w \in Workers |-> NoBook]
  /\ overrun' = 0
  /\ UNCHANGED <<epub, sidecar, runs>>

Joined == outcome = "running" /\ \A w \in active : pc[w] = "exit"

\* The scope has joined every worker; the report replaces the old one
\* atomically and decides the result.
Finish ==
  /\ Joined
  /\ corpus' = Report
  /\ Return(IF Report.status = "failed" THEN "volume_failures" ELSE "ok")

\* write_report fails: the temporary file is discarded.
FinishWithoutReport ==
  /\ Joined
  /\ Return("io_error")
  /\ UNCHANGED corpus

\* The process dies (or a worker panics and the scope unwinds): only the
\* files remain.
Crash ==
  /\ outcome = "running"
  /\ Return("crashed")
  /\ UNCHANGED corpus

(***************************************************************************)
(* A worker.                                                               *)
(***************************************************************************)

At(w, label) == outcome = "running" /\ pc[w] = label
Goto(w, label) == pc' = [pc EXCEPT ![w] = label]
run == <<outcome, opt, active, runs>>

\* Mutant of MustStop: the loop never looks at the flag.
NeverStops == FALSE

MustStop == cancelled

\* cancelled.load(Acquire)
LoadCancelled(w) ==
  /\ At(w, "load")
  /\ Goto(w, IF MustStop THEN "exit" ELSE "pop")
  /\ UNCHANGED <<disk, run, taken, cancelled, channel, book, overrun>>

\* Mutant of QueueEmpty: the None of pop_front goes unnoticed.
QueueNeverEmpty == FALSE

QueueEmpty == taken = N

\* queue.lock(), pop_front(), unlock: None ends the loop.
Pop(w) ==
  /\ At(w, "pop")
  /\ IF QueueEmpty
       THEN /\ Goto(w, "exit")
            /\ UNCHANGED <<taken, book, overrun>>
       ELSE /\ taken' = taken + 1
            /\ book' = [book EXCEPT ![w] = NewBook(taken + 1)]
            /\ overrun' = IF cancelled THEN overrun + 1 ELSE overrun
            /\ Goto(w, "build")
  /\ UNCHANGED <<disk, run, cancelled, channel>>

\* Mutant of Resumable: --resume forgotten after the options were validated.
NeverResumable(v) == FALSE

Resumable(v) == opt.mode = "resume" /\ IsFile(v)

\* --resume and a regular file at the output path: the EPUB is kept.
KeepExisting(w) ==
  /\ At(w, "build")
  /\ Resumable(book[w].volume)
  /\ book' = [book EXCEPT ![w].resumed = TRUE]
  /\ Goto(w, "audit")
  /\ UNCHANGED <<disk, run, taken, cancelled, channel, overrun>>

MustBuild(w) ==
  /\ At(w, "build")
  /\ ~Resumable(book[w].volume)

\* build_volume commits an EPUB by renaming over the path. It refuses an
\* existing path unless options.build.overwrite, and cannot rename over a
\* directory. Its own record digest does not make the EPUB conforming.
Build(w) ==
  LET v == book[w].volume IN
  /\ MustBuild(w)
  /\ Exists(v) => opt.mode = "overwrite"
  /\ epub[v] # "blocked"
  /\ \E content \in {"conforming", "differing"} :
       epub' = [epub EXCEPT ![v] = content]
  /\ book' = [book EXCEPT ![w].built = TRUE]
  /\ Goto(w, "audit")
  /\ UNCHANGED <<sidecar, corpus, run, taken, cancelled, channel, overrun>>

\* Any error of build_volume: the path keeps what it held (fail_build).
BuildFails(w) ==
  /\ MustBuild(w)
  /\ Goto(w, "send")
  /\ UNCHANGED <<disk, run, taken, cancelled, channel, book, overrun>>

AuditPasses(w) ==
  LET v == book[w].volume IN
  /\ At(w, "audit")
  /\ epub[v] = "conforming"
  /\ sidecar' = [sidecar EXCEPT ![v] = "passed"]
  /\ IF opt.epubcheck
       THEN book' = [book EXCEPT ![w].audit = "passed"] /\ Goto(w, "epubcheck")
       ELSE /\ book' = [book EXCEPT ![w].audit = "passed", ![w].status = "passed"]
            /\ Goto(w, "send")
  /\ UNCHANGED <<epub, corpus, run, taken, cancelled, channel, overrun>>

\* AuditError::Mismatch: the failing checks are written beside the EPUB.
AuditMismatch(w) ==
  LET v == book[w].volume IN
  /\ At(w, "audit")
  /\ epub[v] = "differing"
  /\ sidecar' = [sidecar EXCEPT ![v] = "failed"]
  /\ book' = [book EXCEPT ![w].audit = "failed"]
  /\ Goto(w, "send")
  /\ UNCHANGED <<epub, corpus, run, taken, cancelled, channel, overrun>>

\* Every other AuditError: the report file is not written.
AuditError(w) ==
  /\ At(w, "audit")
  /\ book' = [book EXCEPT ![w].audit = "failed"]
  /\ Goto(w, "send")
  /\ UNCHANGED <<disk, run, taken, cancelled, channel, overrun>>

\* The external Java process accepts or rejects the EPUB, or does not start.
EpubCheck(w) ==
  /\ At(w, "epubcheck")
  /\ \E verdict \in {"passed", "failed"} :
       book' = [book EXCEPT ![w].epubcheck = verdict, ![w].status = verdict]
  /\ Goto(w, "send")
  /\ UNCHANGED <<disk, run, taken, cancelled, channel, overrun>>

\* Mutant of ChannelHasRoom: a bounded channel, read only after the join.
SyncChannelHasRoom == channel = <<>>

\* mpsc::channel() is unbounded; the parent drains it after the join.
ChannelHasRoom == TRUE

\* Mutant of Sending: only passed books are reported.
SendingPassed(report) ==
  IF report.status = "passed" THEN Append(channel, report) ELSE channel

Sending(report) == Append(channel, report)

\* sender.send(report): the receiver outlives the scope, so it cannot fail.
Send(w) ==
  /\ At(w, "send")
  /\ ChannelHasRoom
  /\ channel' = Sending(book[w])
  /\ Goto(w, IF book[w].status = "failed" /\ ~opt.keepGoing THEN "store" ELSE "load")
  /\ book' = [book EXCEPT ![w] = NoBook]
  /\ UNCHANGED <<disk, run, taken, cancelled, overrun>>

\* cancelled.store(true, Release), a step after the report was sent.
StoreCancelled(w) ==
  /\ At(w, "store")
  /\ cancelled' = TRUE
  /\ Goto(w, "load")
  /\ UNCHANGED <<disk, run, taken, channel, book, overrun>>

Work(w) ==
  \/ LoadCancelled(w) \/ Pop(w)
  \/ KeepExisting(w) \/ Build(w) \/ BuildFails(w)
  \/ AuditPasses(w) \/ AuditMismatch(w) \/ AuditError(w)
  \/ EpubCheck(w)
  \/ Send(w) \/ StoreCancelled(w)

Join == Finish \/ FinishWithoutReport

Next ==
  \/ \E o \in Options, W \in SUBSET Workers : Reject(o, W) \/ Start(o, W)
  \/ \E w \in Workers : Work(w)
  \/ Join
  \/ Crash

Spec == Init /\ [][Next]_vars

\* Threads are scheduled and the join returns; nothing obliges a user to start
\* a batch or the process to die.
FairSpec == Spec /\ (\A w \in Workers : WF_vars(Work(w))) /\ WF_vars(Join)

-----------------------------------------------------------------------------
(***************************************************************************)
(* Properties.                                                             *)
(***************************************************************************)

TypeOK ==
  /\ epub \in [Volumes -> Contents]
  /\ sidecar \in [Volumes -> {"none", "passed", "failed"}]
  /\ outcome \in Outcomes
  /\ opt \in Options
  /\ active \subseteq Workers
  /\ taken \in 0..N
  /\ cancelled \in BOOLEAN
  /\ channel \in Seq(Books)
  /\ pc \in [Workers -> Labels]
  /\ book \in [Workers -> Books \cup {NoBook}]
  /\ overrun \in Nat
  /\ runs \in 0..MaxRuns

Sent(v) == {i \in DOMAIN channel : channel[i].volume = v}
Holders(v) == {w \in Workers : book[w].volume = v}

\* While a batch runs, every volume popped from the deque is in one place, in
\* the hands of one worker or in one report of the channel, and a volume still
\* in the deque is in neither: concurrent pop_front calls, failures and the
\* cancellation neither lose a volume nor process or report it twice.
VolumesConserved ==
  outcome = "running" =>
    \A v \in Volumes :
      /\ v <= taken <=> Sent(v) # {} \/ Holders(v) # {}
      /\ Sent(v) = {} \/ Holders(v) = {}
      /\ \A i, j \in Sent(v) : i = j
      /\ \A w, x \in Holders(v) : w = x

Audited(b) ==
  b.audit = "passed" /\ epub[b.volume] = "conforming" /\ sidecar[b.volume] = "passed"

\* A book that is sent as passed was verified in this very execution, and what
\* was verified still stands: the EPUB on disk is the one the audit found
\* conforming, the audit report beside it says so, and EPUBCheck accepted it if
\* it is configured. No other worker touches the volume in between.
PassedMeansVerified ==
  \A i \in DOMAIN channel :
    channel[i].status = "passed" =>
      /\ Audited(channel[i])
      /\ channel[i].epubcheck = IF opt.epubcheck THEN "passed" ELSE "skipped"

\* A written corpus report accounts for the whole selection: its books are in
\* catalogue order without a gap (the unprocessed volumes are the end of the
\* catalogue), volumes are left out only after a failure without --keep-going,
\* success means every volume is a conforming EPUB, and "passed" rather than
\* "partial" that EPUBCheck accepted every one.
ReportAccountsForCatalogue ==
  outcome \in {"ok", "volume_failures"} =>
    /\ \A i \in DOMAIN corpus.books : corpus.books[i].volume = i
    /\ corpus.unprocessed = N - Len(corpus.books)
    /\ corpus.unprocessed > 0 => corpus.failed > 0 /\ ~corpus.keepGoing
    /\ outcome = "ok" <=> \A v \in Volumes :
         v \in DOMAIN corpus.books /\ corpus.books[v].status = "passed"
    /\ outcome = "ok" => \A v \in Volumes : epub[v] = "conforming"
    /\ corpus.status = "passed" =>
         \A i \in DOMAIN corpus.books : corpus.books[i].epubcheck = "passed"

\* ADR-0008, "--keep-going이 없으면 첫 권 실패 후 새 할당을 중단합니다" (without
\* --keep-going, new allocation stops after the first volume's failure), as far as
\* the code keeps it: once the failure flag is stored, each other worker is at most
\* between its load of the flag and its pop, so the batch starts at most one more
\* volume per other worker.
OverrunBounded == overrun = 0 \/ overrun < Cardinality(active)

\* With --resume, whatever crashes and failed builds came before, a volume that
\* has an EPUB is never reported without an audit of it: the execution neither
\* trusts nor gives up on what an earlier one left.
ResumeAuditsExisting ==
  opt.mode = "resume" =>
    \A i \in DOMAIN channel :
      channel[i].audit = "not-run" => ~IsFile(channel[i].volume)

\* A batch that is not killed ends: every worker leaves its loop and the
\* parent writes the report or fails to.
BatchEnds == outcome = "running" ~> outcome # "running"
=============================================================================
