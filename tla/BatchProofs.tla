---------------------------- MODULE BatchProofs ----------------------------
(* Theorems about Batch, for every selection, worker set and number of runs. *)
EXTENDS Batch, FiniteSetTheorems, TLAPS

LEMMA BookStates ==
  ASSUME NEW v \in Volumes, opt \in Options
  PROVE  NewBook(v) \in Books
BY DEF NewBook, Books, Options, Verdicts

(* The values an execution starts and ends with. *)
LEMMA CleanValues ==
  /\ NoOptions \in Options
  /\ <<>> \in Seq(Books)
  /\ \A S \in SUBSET Workers :
       [w \in Workers |-> IF w \in S THEN "load" ELSE "exit"] \in [Workers -> Labels]
  /\ [w \in Workers |-> "exit"] \in [Workers -> Labels]
  /\ [w \in Workers |-> NoBook] \in [Workers -> Books \cup {NoBook}]
<1>1. NoOptions \in Options
  BY DEF NoOptions, Options, Modes
<1>2. <<>> \in Seq(Books)
  OBVIOUS
<1>3. \A S \in SUBSET Workers :
       [w \in Workers |-> IF w \in S THEN "load" ELSE "exit"] \in [Workers -> Labels]
  BY DEF Labels
<1>4. [w \in Workers |-> "exit"] \in [Workers -> Labels]
  BY DEF Labels
<1>5. [w \in Workers |-> NoBook] \in [Workers -> Books \cup {NoBook}]
  OBVIOUS
<1>. QED BY <1>1, <1>2, <1>3, <1>4, <1>5

(* A worker past its pop and before its send fills in a book. *)
HasBook(w) == pc[w] \in {"build", "audit", "epubcheck", "send"}

BookOK == \A w \in Workers : IF HasBook(w) THEN book[w] \in Books ELSE book[w] = NoBook

TypeInv == TypeOK /\ BookOK

(* Every variable keeps its type, and exactly the workers between pop and      *)
(* send hold a book report.                                                   *)
THEOREM BatchTypeInv == Spec => []TypeInv
<1>1. Init => TypeInv
  <2> SUFFICES ASSUME Init PROVE TypeInv
    OBVIOUS
  <2>1. TypeOK
    <3> USE NAssumption, RunsAssumption, CleanValues DEF Init
    <3>1. opt \in Options OBVIOUS
    <3>2. channel \in Seq(Books) OBVIOUS
    <3>3. pc \in [Workers -> Labels] OBVIOUS
    <3>4. book \in [Workers -> Books \cup {NoBook}] OBVIOUS
    <3>5. taken \in 0..N /\ overrun \in Nat /\ runs \in 0..MaxRuns OBVIOUS
    <3>6. sidecar \in [Volumes -> {"none", "passed", "failed"}] OBVIOUS
    <3>7. outcome \in Outcomes BY DEF Outcomes
    <3>. QED BY <3>1, <3>2, <3>3, <3>4, <3>5, <3>6, <3>7 DEF TypeOK
  <2>2. BookOK
    BY DEF Init, BookOK, HasBook
  <2>. QED BY <2>1, <2>2 DEF TypeInv
<1>2. TypeInv /\ [Next]_vars => TypeInv'
  <2> SUFFICES ASSUME TypeInv, [Next]_vars PROVE TypeInv'
    OBVIOUS
  <2> USE NAssumption, RunsAssumption DEF TypeInv, TypeOK
  <2>1. ASSUME NEW o \in Options, NEW W \in SUBSET Workers, Reject(o, W) PROVE TypeInv'
    BY <2>1 DEF Reject, disk, Outcomes, BookOK, HasBook
  <2>2. ASSUME NEW o \in Options, NEW W \in SUBSET Workers, Start(o, W) PROVE TypeInv'
    <3>1. TypeOK'
      <4> USE <2>2, CleanValues DEF Start, disk
      <4>1. opt' \in Options OBVIOUS
      <4>2. channel' \in Seq(Books) OBVIOUS
      <4>3. pc' \in [Workers -> Labels] OBVIOUS
      <4>4. book' \in [Workers -> Books \cup {NoBook}] OBVIOUS
      <4>5. taken' \in 0..N /\ overrun' \in Nat OBVIOUS
      <4>6. runs' \in 0..MaxRuns OBVIOUS
      <4>7. outcome' \in Outcomes BY DEF Outcomes
      <4>. QED BY <4>1, <4>2, <4>3, <4>4, <4>5, <4>6, <4>7
    <3>2. BookOK'
      BY <2>2 DEF Start, BookOK, HasBook
    <3>. QED BY <3>1, <3>2
  <2>3. ASSUME NEW r \in Outcomes, Return(r) PROVE TypeInv'
    <3>1. TypeOK'
      <4> USE <2>3, CleanValues DEF Return
      <4>1. opt' \in Options OBVIOUS
      <4>2. channel' \in Seq(Books) OBVIOUS
      <4>3. pc' \in [Workers -> Labels] OBVIOUS
      <4>4. book' \in [Workers -> Books \cup {NoBook}] OBVIOUS
      <4>5. taken' \in 0..N /\ overrun' \in Nat OBVIOUS
      <4>6. runs' \in 0..MaxRuns /\ outcome' \in Outcomes /\ cancelled' \in BOOLEAN OBVIOUS
      <4>. QED BY <4>1, <4>2, <4>3, <4>4, <4>5, <4>6
    <3>2. BookOK'
      BY <2>3 DEF Return, BookOK, HasBook
    <3>. QED BY <3>1, <3>2
  <2>4. CASE Join \/ Crash
    BY <2>3, <2>4 DEF Join, Finish, FinishWithoutReport, Crash, Outcomes
  <2>5. ASSUME NEW w \in Workers, Work(w) PROVE TypeInv'
    <3> USE DEF At, Goto, run, disk, BookOK, HasBook
    <3>1. CASE LoadCancelled(w)
      BY <3>1 DEF LoadCancelled, MustStop, Labels
    <3>2. CASE Pop(w)
      BY <3>2, BookStates DEF Pop, QueueEmpty, Labels, Volumes
    <3>3. CASE KeepExisting(w)
      BY <3>3 DEF KeepExisting, Labels, Books
    <3>4. CASE Build(w)
      <4>1. book[w] \in Books
        BY <3>4 DEF Build, MustBuild
      <4>2. [book[w] EXCEPT !.built = TRUE] \in Books
        BY <4>1 DEF Books
      <4>3. epub' \in [Volumes -> Contents]
        BY <3>4 DEF Build, Contents
      <4>4. book' \in [Workers -> Books \cup {NoBook}] /\ BookOK'
        BY <3>4, <4>1, <4>2 DEF Build, MustBuild, Labels
      <4>. QED BY <3>4, <4>3, <4>4 DEF Build, Labels
    <3>5. CASE BuildFails(w)
      BY <3>5 DEF BuildFails, MustBuild, Labels
    <3>6. CASE AuditPasses(w)
      BY <3>6 DEF AuditPasses, Labels, Books, Verdicts
    <3>7. CASE AuditMismatch(w)
      BY <3>7 DEF AuditMismatch, Labels, Books, Verdicts
    <3>8. CASE AuditError(w)
      BY <3>8 DEF AuditError, Labels, Books, Verdicts
    <3>9. CASE EpubCheck(w)
      <4>1. PICK verdict \in {"passed", "failed"} :
              book' = [book EXCEPT ![w].epubcheck = verdict, ![w].status = verdict]
        BY <3>9 DEF EpubCheck
      <4>2. [book[w] EXCEPT !.epubcheck = verdict, !.status = verdict] \in Books
        BY <3>9 DEF EpubCheck, Books, Verdicts
      <4>. QED BY <3>9, <4>1, <4>2 DEF EpubCheck, Labels
    <3>10. CASE Send(w)
      BY <3>10 DEF Send, Sending, Labels
    <3>11. CASE StoreCancelled(w)
      BY <3>11 DEF StoreCancelled, Labels
    <3>. QED BY <2>5, <3>1, <3>2, <3>3, <3>4, <3>5, <3>6, <3>7, <3>8, <3>9, <3>10, <3>11
             DEF Work
  <2>6. CASE UNCHANGED vars
    BY <2>6 DEF vars, BookOK, HasBook
  <2>. QED BY <2>1, <2>2, <2>4, <2>5, <2>6 DEF Next
<1>. QED BY <1>1, <1>2, PTL DEF Spec

(* Type correctness of the batch, for any catalogue and any set of workers.   *)
THEOREM BatchTypeOK == Spec => []TypeOK
<1>1. TypeInv => TypeOK
  BY DEF TypeInv
<1>. QED BY <1>1, BatchTypeInv, PTL

(***************************************************************************)
(* No volume is lost or handled twice.                                     *)
(***************************************************************************)

ConservedInv == TypeInv /\ VolumesConserved

(* The holders and the reports of a volume, spelled out for the provers. *)
LEMMA StepsOffTheQueue ==
  ASSUME ConservedInv, NEW w \in Workers, Work(w), ~Pop(w), ~Send(w)
  PROVE  VolumesConserved'
<1>1. /\ taken' = taken /\ channel' = channel /\ outcome' = outcome
  BY DEF Work, LoadCancelled, KeepExisting, Build, BuildFails, AuditPasses, AuditMismatch,
         AuditError, EpubCheck, StoreCancelled, run
<1>2. \A x \in Workers : book'[x].volume = book[x].volume
  <2> USE DEF ConservedInv, TypeInv, TypeOK, BookOK, HasBook, At
  <2>1. CASE LoadCancelled(w) \/ BuildFails(w) \/ StoreCancelled(w)
    BY <2>1 DEF LoadCancelled, BuildFails, StoreCancelled
  <2>2. CASE KeepExisting(w)
    BY <2>2 DEF KeepExisting, Books
  <2>3. CASE Build(w)
    BY <2>3 DEF Build, MustBuild, Books
  <2>4. CASE AuditPasses(w)
    BY <2>4 DEF AuditPasses, Books
  <2>5. CASE AuditMismatch(w) \/ AuditError(w)
    BY <2>5 DEF AuditMismatch, AuditError, Books
  <2>6. CASE EpubCheck(w)
    BY <2>6 DEF EpubCheck, Books
  <2>. QED BY <2>1, <2>2, <2>3, <2>4, <2>5, <2>6 DEF Work
<1>. QED BY <1>1, <1>2 DEF ConservedInv, VolumesConserved, Sent, Holders

(* VolumesConserved holds whatever the number of volumes, workers and runs. *)
THEOREM BatchConservation == Spec => []VolumesConserved
<1>1. Init => VolumesConserved
  BY DEF Init, VolumesConserved
<1>2. ConservedInv /\ [Next]_vars => VolumesConserved'
  <2> SUFFICES ASSUME ConservedInv, [Next]_vars PROVE VolumesConserved'
    OBVIOUS
  <2> USE NAssumption DEF ConservedInv, TypeInv, TypeOK
  <2>1. ASSUME NEW o \in Options, NEW W \in SUBSET Workers, Reject(o, W) PROVE VolumesConserved'
    BY <2>1 DEF Reject, VolumesConserved
  <2>2. ASSUME NEW o \in Options, NEW W \in SUBSET Workers, Start(o, W)
        PROVE  VolumesConserved'
    BY <2>2 DEF Start, VolumesConserved, Sent, Holders, NoBook, Volumes
  <2>3. CASE Join \/ Crash
    BY <2>3 DEF Join, Finish, FinishWithoutReport, Crash, Return, VolumesConserved
  <2>4. ASSUME NEW w \in Workers, Pop(w) PROVE VolumesConserved'
    <3> USE <2>4 DEF Pop, At, Goto, run
    <3>1. CASE QueueEmpty
      BY <3>1 DEF VolumesConserved, Sent, Holders
    <3>2. CASE ~QueueEmpty
      <4> PICK n \in Volumes : n = taken + 1
        BY <3>2 DEF QueueEmpty, Volumes
      <4>1. /\ taken' = n /\ \A v \in Volumes : v <= n <=> v <= taken \/ v = n
            /\ channel' = channel /\ outcome' = outcome /\ outcome = "running"
        BY <3>2 DEF QueueEmpty, Volumes
      <4>2. book[w].volume = 0
        BY DEF BookOK, HasBook, NoBook
      <4>3. \A x \in Workers : book'[x].volume = IF x = w THEN n ELSE book[x].volume
        BY <3>2 DEF NewBook
      <4>4. Sent(n) = {} /\ Holders(n) = {}
        BY <4>1 DEF VolumesConserved, Volumes
      <4>5. \A v \in Volumes : Sent(v)' = Sent(v)
        BY <4>1 DEF Sent
      <4>6. \A v \in Volumes \ {n} : Holders(v)' = Holders(v)
        BY <4>2, <4>3 DEF Holders, Volumes
      <4>7. Holders(n)' = {w}
        BY <4>1, <4>3, <4>4 DEF Holders
      <4>8. ASSUME NEW v \in Volumes
            PROVE  /\ v <= taken' <=> Sent(v)' # {} \/ Holders(v)' # {}
                   /\ Sent(v)' = {} \/ Holders(v)' = {}
                   /\ \A i, j \in Sent(v)' : i = j
                   /\ \A x, y \in Holders(v)' : x = y
        <5>1. CASE v = n
          <6>1. Sent(v)' = {} /\ Holders(v)' = {w}
            BY <4>4, <4>5, <4>7, <5>1
          <6>. QED BY <4>1, <5>1, <6>1
        <5>2. CASE v # n
          <6>1. Sent(v)' = Sent(v) /\ Holders(v)' = Holders(v)
            BY <4>5, <4>6, <5>2
          <6>2. v <= taken' <=> v <= taken
            BY <4>1, <5>2
          <6>. QED BY <4>1, <6>1, <6>2 DEF VolumesConserved
        <5>. QED BY <5>1, <5>2
      <4>. QED BY <4>8 DEF VolumesConserved
    <3>. QED BY <3>1, <3>2
  <2>5. ASSUME NEW w \in Workers, Send(w) PROVE VolumesConserved'
    <3> USE <2>5 DEF Send, At, Goto, run, Sending
    <3> PICK u \in Volumes : u = book[w].volume
      BY DEF BookOK, HasBook, Books
    <3>1. book[w] \in Books /\ u \in Volumes /\ w \in Holders(u)
      BY DEF BookOK, HasBook, Holders
    <3>2. channel' = Append(channel, book[w]) /\ taken' = taken
          /\ outcome' = outcome /\ outcome = "running"
      OBVIOUS
    <3>3. \A x \in Workers : book'[x].volume = IF x = w THEN 0 ELSE book[x].volume
      BY DEF NoBook
    <3>4. Sent(u) = {} /\ \A x \in Holders(u) : x = w
      BY <3>1, <3>2 DEF VolumesConserved
    <3>5. Sent(u)' = {Len(channel) + 1} /\ Holders(u)' = {}
      BY <3>1, <3>2, <3>3, <3>4 DEF Sent, Holders, Volumes
    <3>6. \A v \in Volumes \ {u} : Sent(v)' = Sent(v) /\ Holders(v)' = Holders(v)
      BY <3>1, <3>2, <3>3 DEF Sent, Holders, Volumes
    <3>7. ASSUME NEW v \in Volumes
          PROVE  /\ v <= taken' <=> Sent(v)' # {} \/ Holders(v)' # {}
                 /\ Sent(v)' = {} \/ Holders(v)' = {}
                 /\ \A i, j \in Sent(v)' : i = j
                 /\ \A x, y \in Holders(v)' : x = y
      <4>1. CASE v = u
        <5>1. Sent(v)' = {Len(channel) + 1} /\ Holders(v)' = {}
          BY <3>5, <4>1
        <5>2. v <= taken'
          BY <3>1, <3>2, <4>1 DEF VolumesConserved
        <5>. QED BY <5>1, <5>2
      <4>2. CASE v # u
        <5>1. Sent(v)' = Sent(v) /\ Holders(v)' = Holders(v)
          BY <3>6, <4>2
        <5>. QED BY <3>2, <5>1 DEF VolumesConserved
      <4>. QED BY <4>1, <4>2
    <3>. QED BY <3>7 DEF VolumesConserved
  <2>6. ASSUME NEW w \in Workers, Work(w) PROVE VolumesConserved'
    BY <2>4, <2>5, <2>6, StepsOffTheQueue
  <2>7. CASE UNCHANGED vars
    BY <2>7 DEF vars, VolumesConserved, Sent, Holders
  <2>. QED BY <2>1, <2>2, <2>3, <2>6, <2>7 DEF Next
<1>. QED BY <1>1, <1>2, BatchTypeInv, PTL DEF Spec, ConservedInv

(***************************************************************************)
(* A passed book was verified.                                             *)
(***************************************************************************)

(* What a worker's place in process_volume says about its report. *)
Progress(w) ==
  /\ pc[w] \in {"build", "audit"} =>
       /\ book[w].status = "failed"
       /\ book[w].epubcheck = IF opt.epubcheck THEN "not-run" ELSE "skipped"
  /\ pc[w] = "epubcheck" =>
       opt.epubcheck /\ book[w].status = "failed" /\ Audited(book[w])
  /\ pc[w] = "send" /\ book[w].status = "passed" =>
       /\ Audited(book[w])
       /\ book[w].epubcheck = IF opt.epubcheck THEN "passed" ELSE "skipped"

VerifiedInv == PassedMeansVerified /\ \A w \in Workers : Progress(w)

(* No other report, sent or being filled in, is about the volume a worker     *)
(* holds, so its writes disturb nobody's verdict.                             *)
LEMMA VolumeIsExclusive ==
  ASSUME ConservedInv, NEW w \in Workers, HasBook(w), outcome = "running"
  PROVE  /\ book[w].volume \in Volumes
         /\ \A i \in DOMAIN channel : channel[i].volume # book[w].volume
         /\ \A x \in Workers \ {w} : HasBook(x) => book[x].volume # book[w].volume
<1>1. book[w].volume \in Volumes /\ w \in Holders(book[w].volume)
  BY DEF ConservedInv, TypeInv, BookOK, Books, Holders
<1>2. Sent(book[w].volume) = {} /\ \A x \in Holders(book[w].volume) : x = w
  BY <1>1 DEF ConservedInv, VolumesConserved
<1>. QED BY <1>1, <1>2 DEF Sent, Holders

(* A step of w that writes at most the files of its own volume, and leaves    *)
(* channel and options alone, keeps every verdict but its own.                *)
LEMMA OwnFilesOnly ==
  ASSUME ConservedInv, VerifiedInv, NEW w \in Workers, HasBook(w), outcome = "running",
         channel' = channel, opt' = opt,
         \A v \in Volumes \ {book[w].volume} :
           epub'[v] = epub[v] /\ sidecar'[v] = sidecar[v],
         \A x \in Workers \ {w} : pc'[x] = pc[x] /\ book'[x] = book[x]
  PROVE  PassedMeansVerified' /\ \A x \in Workers \ {w} : Progress(x)'
<1>1. PassedMeansVerified'
  <2>1. \A i \in DOMAIN channel : channel[i].volume \in Volumes \ {book[w].volume}
    <3>1. \A i \in DOMAIN channel : channel[i] \in Books
      BY DEF ConservedInv, TypeInv, TypeOK
    <3>2. \A b \in Books : b.volume \in Volumes
      BY DEF Books
    <3>. QED BY <3>1, <3>2, VolumeIsExclusive
  <2>. QED BY <2>1 DEF VerifiedInv, PassedMeansVerified, Audited
<1>2. ASSUME NEW x \in Workers \ {w} PROVE Progress(x)'
  <2>1. HasBook(x) => book[x].volume \in Volumes \ {book[w].volume}
    BY VolumeIsExclusive DEF ConservedInv, TypeInv, BookOK, Books
  <2>2. Progress(x)
    BY DEF VerifiedInv
  <2>3. HasBook(x) => (Audited(book[x])' <=> Audited(book[x]))
    BY <2>1 DEF Audited
  <2>4. /\ pc'[x] = pc[x] /\ book'[x] = book[x]
    OBVIOUS
  <2>. QED BY <2>2, <2>3, <2>4 DEF Progress, HasBook
<1>. QED BY <1>1, <1>2

(* What holds of sent reports, and of the one each worker fills in. *)
THEOREM BatchVerified == Spec => []VerifiedInv
<1>1. Init => VerifiedInv
  BY DEF Init, VerifiedInv, PassedMeansVerified, Progress
<1>2. ConservedInv /\ VerifiedInv /\ [Next]_vars => VerifiedInv'
  <2> SUFFICES ASSUME ConservedInv, VerifiedInv, [Next]_vars PROVE VerifiedInv'
    OBVIOUS
  <2> USE DEF ConservedInv, TypeInv, TypeOK
  <2>1. ASSUME NEW o \in Options, NEW W \in SUBSET Workers, Reject(o, W) PROVE VerifiedInv'
    BY <2>1 DEF Reject, disk, VerifiedInv, PassedMeansVerified, Progress, Audited
  <2>2. ASSUME NEW o \in Options, NEW W \in SUBSET Workers, Start(o, W)
        PROVE  VerifiedInv'
    BY <2>2 DEF Start, VerifiedInv, PassedMeansVerified, Progress
  <2>3. CASE Join \/ Crash
    BY <2>3 DEF Join, Finish, FinishWithoutReport, Crash, Return, VerifiedInv,
                PassedMeansVerified, Progress
  <2>4. ASSUME NEW w \in Workers, Work(w) PROVE VerifiedInv'
    <3>1. CASE Send(w)
      BY <3>1 DEF Send, Sending, At, Goto, run, disk, VerifiedInv,
                  PassedMeansVerified, Progress, Audited, BookOK, HasBook
    <3>2. CASE LoadCancelled(w) \/ StoreCancelled(w)
      BY <3>2 DEF LoadCancelled, StoreCancelled, At, Goto, run, disk, VerifiedInv,
                  PassedMeansVerified, Progress, Audited
    <3>3. CASE Pop(w)
      BY <3>3 DEF Pop, At, Goto, run, disk, NewBook, VerifiedInv,
                  PassedMeansVerified, Progress, Audited
    <3>4. ASSUME KeepExisting(w) \/ Build(w) \/ BuildFails(w) \/ AuditPasses(w)
                 \/ AuditMismatch(w) \/ AuditError(w) \/ EpubCheck(w)
          PROVE  VerifiedInv'
      <4>1. /\ HasBook(w) /\ outcome = "running" /\ channel' = channel /\ opt' = opt
            /\ \A v \in Volumes \ {book[w].volume} :
                 epub'[v] = epub[v] /\ sidecar'[v] = sidecar[v]
            /\ \A x \in Workers \ {w} : pc'[x] = pc[x] /\ book'[x] = book[x]
        BY <3>4 DEF KeepExisting, Build, BuildFails, MustBuild, AuditPasses, AuditMismatch,
                    AuditError, EpubCheck, At, Goto, run, disk, HasBook
      <4>2. PassedMeansVerified' /\ \A x \in Workers \ {w} : Progress(x)'
        BY <4>1, OwnFilesOnly
      <4>3. Progress(w)'
        <5>1. book[w] \in Books /\ book[w].volume \in Volumes /\ Progress(w)
          BY <4>1 DEF BookOK, Books, VerifiedInv
        <5> USE <5>1 DEF At, Goto, run, disk, Progress, Audited, Books
        <5>2. CASE KeepExisting(w)
          BY <5>2 DEF KeepExisting
        <5>3. CASE Build(w)
          BY <5>3 DEF Build, MustBuild
        <5>4. CASE BuildFails(w)
          BY <5>4 DEF BuildFails, MustBuild
        <5>5. CASE AuditPasses(w)
          BY <5>5 DEF AuditPasses
        <5>6. CASE AuditMismatch(w) \/ AuditError(w)
          BY <5>6 DEF AuditMismatch, AuditError
        <5>7. CASE EpubCheck(w)
          BY <5>7 DEF EpubCheck
        <5>. QED BY <3>4, <5>2, <5>3, <5>4, <5>5, <5>6, <5>7
      <4>. QED BY <4>2, <4>3 DEF VerifiedInv
    <3>. QED BY <2>4, <3>1, <3>2, <3>3, <3>4 DEF Work
  <2>5. CASE UNCHANGED vars
    BY <2>5 DEF vars, VerifiedInv, PassedMeansVerified, Progress, Audited
  <2>. QED BY <2>1, <2>2, <2>3, <2>4, <2>5 DEF Next
<1>. QED BY <1>1, <1>2, BatchTypeInv, BatchConservation, PTL DEF Spec, ConservedInv

(* PassedMeansVerified, for every schedule of the workers. *)
THEOREM BatchVerification == Spec => []PassedMeansVerified
<1>1. VerifiedInv => PassedMeansVerified
  BY DEF VerifiedInv
<1>. QED BY <1>1, BatchVerified, PTL

(***************************************************************************)
(* The failure flag bounds the volumes started after it.                   *)
(***************************************************************************)

Popping == {w \in active : pc[w] = "pop"}

(* Every worker that looked at the flag before it was set can pop once more,  *)
(* and the worker that set it was not among them.                             *)
OverrunInv ==
  /\ outcome = "running" =>
       /\ active # {}
       /\ \A w \in Workers : pc[w] # "exit" => w \in active
  /\ IF cancelled
       THEN overrun + Cardinality(Popping) + 1 <= Cardinality(active)
       ELSE overrun = 0

LEMMA Counting ==
  ASSUME TypeInv
  PROVE  /\ IsFiniteSet(active) /\ Cardinality(active) \in Nat
         /\ IsFiniteSet(Popping) /\ Cardinality(Popping) \in Nat
<1>1. IsFiniteSet(active)
  BY WorkersAssumption, FS_Subset DEF TypeInv, TypeOK
<1>2. IsFiniteSet(Popping)
  BY <1>1, FS_Subset DEF Popping
<1>. QED BY <1>1, <1>2, FS_CardinalityType

(* OverrunBounded, for every number of workers. *)
THEOREM BatchOverrun == Spec => []OverrunBounded
<1>1. Init => OverrunInv
  BY DEF Init, OverrunInv
<1>2. TypeInv /\ OverrunInv /\ [Next]_vars => OverrunInv'
  <2> SUFFICES ASSUME TypeInv, OverrunInv, [Next]_vars PROVE OverrunInv'
    OBVIOUS
  <2>1. ASSUME NEW o \in Options, NEW W \in SUBSET Workers, Reject(o, W) PROVE OverrunInv'
    BY <2>1 DEF Reject, OverrunInv, Popping
  <2>2. ASSUME NEW o \in Options, NEW W \in SUBSET Workers, Start(o, W)
        PROVE  OverrunInv'
    BY <2>2 DEF Start, Accepted, OverrunInv
  <2>3. CASE Join \/ Crash
    BY <2>3 DEF Join, Finish, FinishWithoutReport, Crash, Return, OverrunInv
  <2>4. ASSUME NEW w \in Workers, Work(w), ~Pop(w), ~StoreCancelled(w)
        PROVE  OverrunInv'
    <3>1. /\ active' = active /\ outcome' = outcome /\ outcome = "running"
          /\ cancelled' = cancelled /\ overrun' = overrun /\ w \in active
      BY <2>4 DEF Work, LoadCancelled, KeepExisting, Build, BuildFails, MustBuild,
                  AuditPasses, AuditMismatch, AuditError, EpubCheck, Send, At, run, OverrunInv
    <3>2. \A x \in Workers \ {w} : pc'[x] = pc[x]
      BY <2>4 DEF Work, LoadCancelled, KeepExisting, Build, BuildFails, AuditPasses,
                  AuditMismatch, AuditError, EpubCheck, Send, Goto, TypeInv, TypeOK
    <3>3. cancelled => pc'[w] # "pop"
      BY <2>4 DEF Work, LoadCancelled, MustStop, KeepExisting, Build, BuildFails,
                  AuditPasses, AuditMismatch, AuditError, EpubCheck, Send, Goto,
                  TypeInv, TypeOK
    <3>4. cancelled => Popping' \subseteq Popping
      BY <3>1, <3>2, <3>3 DEF Popping, TypeInv, TypeOK
    <3>5. cancelled => Cardinality(Popping') \in Nat /\ Cardinality(Popping') <= Cardinality(Popping)
      BY <3>4, Counting, FS_Subset, FS_CardinalityType
    <3>6. \A x \in Workers : pc'[x] # "exit" => x \in active'
      BY <3>1, <3>2 DEF OverrunInv
    <3>7. CASE cancelled
      BY <3>1, <3>5, <3>6, <3>7, Counting DEF OverrunInv, TypeInv, TypeOK
    <3>8. CASE ~cancelled
      BY <3>1, <3>6, <3>8 DEF OverrunInv
    <3>. QED BY <3>7, <3>8
  <2>5. ASSUME NEW w \in Workers, Pop(w) PROVE OverrunInv'
    <3>1. /\ active' = active /\ outcome' = outcome /\ outcome = "running"
          /\ cancelled' = cancelled /\ w \in active /\ pc[w] = "pop"
          /\ pc'[w] # "pop" /\ \A x \in Workers \ {w} : pc'[x] = pc[x]
          /\ \/ overrun' = overrun
             \/ cancelled /\ overrun' = overrun + 1
      BY <2>5 DEF Pop, At, run, Goto, OverrunInv, TypeInv, TypeOK
    <3>2. Popping' = Popping \ {w} /\ w \in Popping
      BY <3>1 DEF Popping, TypeInv, TypeOK
    <3>3. Cardinality(Popping') = Cardinality(Popping) - 1
      BY <3>2, Counting, FS_RemoveElement
    <3>4. \A x \in Workers : pc'[x] # "exit" => x \in active'
      BY <3>1 DEF OverrunInv
    <3>5. CASE cancelled
      BY <3>1, <3>3, <3>4, <3>5, Counting DEF OverrunInv, TypeInv, TypeOK
    <3>6. CASE ~cancelled
      BY <3>1, <3>4, <3>6 DEF OverrunInv
    <3>. QED BY <3>5, <3>6
  <2>6. ASSUME NEW w \in Workers, StoreCancelled(w) PROVE OverrunInv'
    <3>1. /\ active' = active /\ outcome' = outcome /\ outcome = "running"
          /\ cancelled' /\ overrun' = overrun /\ w \in active
          /\ pc[w] = "store" /\ pc' = [pc EXCEPT ![w] = "load"]
      BY <2>6 DEF StoreCancelled, At, run, Goto, OverrunInv
    <3>2. Popping' = Popping /\ w \notin Popping
      BY <3>1 DEF Popping, TypeInv, TypeOK
    <3>3. Cardinality(Popping) <= Cardinality(active) - 1
      <4>1. Popping \subseteq active \ {w}
        BY <3>2 DEF Popping
      <4>2. IsFiniteSet(active \ {w}) /\ Cardinality(active \ {w}) = Cardinality(active) - 1
        BY <3>1, Counting, FS_RemoveElement
      <4>. QED BY <4>1, <4>2, FS_Subset
    <3>4. \A x \in Workers : pc'[x] # "exit" => x \in active'
      BY <3>1 DEF OverrunInv, TypeInv, TypeOK
    <3>. QED BY <3>1, <3>2, <3>3, <3>4, Counting DEF OverrunInv, TypeInv, TypeOK
  <2>7. CASE UNCHANGED vars
    BY <2>7 DEF vars, OverrunInv, Popping
  <2>. QED BY <2>1, <2>2, <2>3, <2>4, <2>5, <2>6, <2>7 DEF Next
<1>3. TypeInv /\ OverrunInv => OverrunBounded
  BY Counting DEF OverrunInv, OverrunBounded, TypeInv, TypeOK
<1>. QED BY <1>1, <1>2, <1>3, BatchTypeInv, PTL DEF Spec

(***************************************************************************)
(* --resume audits what it finds.                                          *)
(***************************************************************************)

Unaudited(b) == b.audit = "not-run" => ~IsFile(b.volume)

(* A report about to be sent without an audit is of a volume whose build      *)
(* failed, and a resumed batch only builds where there is no EPUB.            *)
ResumeInv ==
  /\ ResumeAuditsExisting
  /\ opt.mode = "resume" => \A w \in Workers : pc[w] = "send" => Unaudited(book[w])

(* ResumeAuditsExisting, for every schedule and whatever was on disk. *)
THEOREM BatchResume == Spec => []ResumeAuditsExisting
<1>1. Init => ResumeInv
  BY DEF Init, ResumeInv, ResumeAuditsExisting
<1>2. ConservedInv /\ VerifiedInv /\ ResumeInv /\ [Next]_vars => ResumeInv'
  <2> SUFFICES ASSUME ConservedInv, VerifiedInv, ResumeInv, [Next]_vars PROVE ResumeInv'
    OBVIOUS
  <2> USE DEF ConservedInv, TypeInv, TypeOK
  <2>1. ASSUME NEW o \in Options, NEW W \in SUBSET Workers, Reject(o, W) PROVE ResumeInv'
    BY <2>1 DEF Reject, disk, ResumeInv, ResumeAuditsExisting, Unaudited, IsFile
  <2>2. ASSUME NEW o \in Options, NEW W \in SUBSET Workers, Start(o, W) PROVE ResumeInv'
    BY <2>2 DEF Start, ResumeInv, ResumeAuditsExisting
  <2>3. CASE Join \/ Crash
    BY <2>3 DEF Join, Finish, FinishWithoutReport, Crash, Return, ResumeInv,
                ResumeAuditsExisting
  <2>4. ASSUME NEW w \in Workers, Work(w) PROVE ResumeInv'
    <3>1. CASE Send(w)
      BY <3>1 DEF Send, Sending, At, Goto, run, disk, ResumeInv, ResumeAuditsExisting,
                  Unaudited, IsFile, BookOK, HasBook
    <3>2. CASE LoadCancelled(w) \/ StoreCancelled(w) \/ Pop(w)
      BY <3>2 DEF LoadCancelled, StoreCancelled, Pop, At, Goto, run, disk, ResumeInv,
                  ResumeAuditsExisting, Unaudited, IsFile
    <3>3. ASSUME KeepExisting(w) \/ Build(w) \/ BuildFails(w) \/ AuditPasses(w)
                 \/ AuditMismatch(w) \/ AuditError(w) \/ EpubCheck(w)
          PROVE  ResumeInv'
      <4>1. /\ HasBook(w) /\ outcome = "running" /\ channel' = channel /\ opt' = opt
            /\ \A v \in Volumes \ {book[w].volume} : epub'[v] = epub[v]
            /\ \A x \in Workers \ {w} : pc'[x] = pc[x] /\ book'[x] = book[x]
        BY <3>3 DEF KeepExisting, Build, BuildFails, MustBuild, AuditPasses, AuditMismatch,
                    AuditError, EpubCheck, At, Goto, run, disk, HasBook
      <4>2. ResumeAuditsExisting'
        <5>1. \A i \in DOMAIN channel : channel[i].volume \in Volumes \ {book[w].volume}
          <6>1. \A i \in DOMAIN channel : channel[i] \in Books
            OBVIOUS
          <6>2. \A b \in Books : b.volume \in Volumes
            BY DEF Books
          <6>. QED BY <4>1, <6>1, <6>2, VolumeIsExclusive
        <5>. QED BY <4>1, <5>1 DEF ResumeInv, ResumeAuditsExisting, IsFile
      <4>3. ASSUME opt.mode = "resume", NEW x \in Workers \ {w}, pc[x] = "send"
            PROVE  Unaudited(book[x])'
        <5>1. book[x].volume \in Volumes \ {book[w].volume}
          BY <4>1, <4>3, VolumeIsExclusive DEF BookOK, HasBook, Books
        <5>. QED BY <4>1, <4>3, <5>1 DEF ResumeInv, Unaudited, IsFile
      <4>4. ASSUME opt.mode = "resume", pc'[w] = "send" PROVE Unaudited(book[w])'
        <5>1. book[w] \in Books /\ book[w].volume \in Volumes /\ Progress(w)
          BY <4>1 DEF BookOK, Books, VerifiedInv
        <5> USE <4>4, <5>1 DEF At, Goto, run, disk, Unaudited, IsFile, Books
        <5>2. CASE KeepExisting(w) \/ Build(w)
          BY <5>2 DEF KeepExisting, Build, MustBuild
        <5>3. CASE BuildFails(w)
          BY <5>3 DEF BuildFails, MustBuild, Resumable
        <5>4. CASE AuditPasses(w)
          BY <5>4 DEF AuditPasses
        <5>5. CASE AuditMismatch(w) \/ AuditError(w)
          BY <5>5 DEF AuditMismatch, AuditError
        <5>6. CASE EpubCheck(w)
          BY <5>6 DEF EpubCheck, Progress, Audited
        <5>. QED BY <3>3, <5>2, <5>3, <5>4, <5>5, <5>6
      <4>. QED BY <4>1, <4>2, <4>3, <4>4 DEF ResumeInv
    <3>. QED BY <2>4, <3>1, <3>2, <3>3 DEF Work
  <2>5. CASE UNCHANGED vars
    BY <2>5 DEF vars, ResumeInv, ResumeAuditsExisting, Unaudited, IsFile
  <2>. QED BY <2>1, <2>2, <2>3, <2>4, <2>5 DEF Next
<1>3. ResumeInv => ResumeAuditsExisting
  BY DEF ResumeInv
<1>. QED BY <1>1, <1>2, <1>3, BatchVerified, BatchTypeInv, BatchConservation, PTL
         DEF Spec, ConservedInv

(***************************************************************************)
(* The corpus report accounts for the selection.                           *)
(***************************************************************************)

(* A worker stops when the deque is empty or the flag is set; the flag is set  *)
(* after a failed report was sent, and never with --keep-going.                *)
StopInv ==
  /\ outcome = "running" =>
       /\ active # {}
       /\ \A w \in active : pc[w] = "exit" => cancelled \/ taken = N
  /\ \A w \in Workers : pc[w] # "exit" => w \in active
  /\ (cancelled \/ \E w \in Workers : pc[w] = "store") =>
       ~opt.keepGoing /\ Failed(channel) # {}

ReportInv == StopInv /\ ReportAccountsForCatalogue

(* The joined workers leave one report of each volume taken. *)
LEMMA JoinedReports ==
  ASSUME ConservedInv, StopInv, Joined
  PROVE  /\ \A i \in DOMAIN channel : channel[i] \in Books /\ channel[i].volume \in 1..taken
         /\ \A v \in 1..taken : \E i \in DOMAIN channel : channel[i].volume = v
         /\ \A i, j \in DOMAIN channel : channel[i].volume = channel[j].volume => i = j
<1>1. \A i \in DOMAIN channel : channel[i] \in Books /\ channel[i].volume \in Volumes
  <2>1. \A i \in DOMAIN channel : channel[i] \in Books
    BY DEF ConservedInv, TypeInv, TypeOK
  <2>. QED BY <2>1 DEF Books
<1>2. \A w \in Workers : book[w] = NoBook
  BY DEF Joined, StopInv, ConservedInv, TypeInv, BookOK, HasBook
<1>3. \A v \in Volumes : Holders(v) = {}
  BY <1>2 DEF Holders, NoBook, Volumes
<1>4. \A v \in Volumes : (v <= taken <=> Sent(v) # {}) /\ \A i, j \in Sent(v) : i = j
  BY <1>3 DEF ConservedInv, VolumesConserved, Joined
<1>5. taken \in 0..N /\ N \in Nat
  BY NAssumption DEF ConservedInv, TypeInv, TypeOK
<1>6. \A i \in DOMAIN channel : channel[i].volume \in 1..taken
  BY <1>1, <1>4, <1>5 DEF Sent, Volumes
<1>7. \A v \in 1..taken : \E i \in DOMAIN channel : channel[i].volume = v
  BY <1>4, <1>5 DEF Sent, Volumes
<1>8. \A i, j \in DOMAIN channel : channel[i].volume = channel[j].volume => i = j
  BY <1>1, <1>4 DEF Sent
<1>. QED BY <1>1, <1>6, <1>7, <1>8

(* So the sorted reports are the volumes in their order. *)
LEMMA SortedReports ==
  ASSUME ConservedInv, StopInv, Joined
  PROVE  /\ Sorted(channel) \in Seq(Books) /\ Len(Sorted(channel)) = taken
         /\ \A v \in 1..taken : Sorted(channel)[v].volume = v
         /\ \A v \in 1..taken : \E i \in DOMAIN channel : Sorted(channel)[v] = channel[i]
         /\ \A i \in DOMAIN channel : \E v \in 1..taken : Sorted(channel)[v] = channel[i]
<1> DEFINE UpTo(i) == {j \in DOMAIN channel :
                         \/ InCatalogueOrder(channel[j], channel[i])
                         \/ j <= i /\ ~InCatalogueOrder(channel[i], channel[j])}
<1>1. /\ \A i \in DOMAIN channel : channel[i] \in Books /\ channel[i].volume \in 1..taken
      /\ \A v \in 1..taken : \E i \in DOMAIN channel : channel[i].volume = v
      /\ \A i, j \in DOMAIN channel : channel[i].volume = channel[j].volume => i = j
  BY JoinedReports
<1>2. taken \in Nat /\ DOMAIN channel = 1..Len(channel) /\ Len(channel) \in Nat
  BY NAssumption DEF ConservedInv, TypeInv, TypeOK
<1>3. ASSUME NEW T \in SUBSET DOMAIN channel, NEW v \in 0..taken,
             \A j \in DOMAIN channel : j \in T <=> channel[j].volume <= v
      PROVE  Cardinality(T) = v
  <2> DEFINE f == [j \in T |-> channel[j].volume]
  <2>1. f \in [T -> 1..v]
    BY <1>1, <1>2, <1>3
  <2>2. \A i, j \in T : f[i] = f[j] => i = j
    BY <1>1
  <2>3. \A u \in 1..v : \E j \in T : f[j] = u
    BY <1>1, <1>2, <1>3
  <2> HIDE DEF f
  <2>4. f \in Bijection(T, 1..v)
    <3>1. f \in Injection(T, 1..v)
      BY <2>1, <2>2 DEF Injection, IsInjective
    <3>2. f \in Surjection(T, 1..v)
      BY <2>1, <2>3 DEF Surjection
    <3>. QED BY <3>1, <3>2 DEF Bijection
  <2>5. IsFiniteSet(T)
    <3>1. IsFiniteSet(1..Len(channel)) /\ T \in SUBSET (1..Len(channel))
      BY <1>2, FS_Interval
    <3>. QED BY <3>1, FS_Subset
  <2>6. Cardinality(1..v) = Cardinality(T)
    BY <2>4, <2>5, FS_Bijection DEF ExistsBijection
  <2>. QED BY <1>2, <2>6, FS_Interval
<1>4. \A i \in DOMAIN channel : Cardinality(UpTo(i)) = channel[i].volume
  <2> TAKE i \in DOMAIN channel
  <2>1. \A j \in DOMAIN channel : j \in UpTo(i) <=> channel[j].volume <= channel[i].volume
    BY <1>1, <1>2 DEF InCatalogueOrder
  <2>2. UpTo(i) \in SUBSET DOMAIN channel /\ channel[i].volume \in 0..taken
    BY <1>1
  <2> HIDE DEF UpTo
  <2>. QED BY <1>3, <2>1, <2>2
<1>5. Cardinality(DOMAIN channel) = taken
  BY <1>1, <1>2, <1>3
<1>6. Len(channel) = taken
  <2> DEFINE m == Len(channel)
  <2>1. Cardinality(1..m) = taken /\ m \in Nat
    BY <1>2, <1>5, Zenon
  <2> HIDE DEF m
  <2>2. Cardinality(1..m) = IF 1 > m THEN 0 ELSE m - 1 + 1
    BY <2>1, FS_Interval
  <2>3. m = taken
    BY <2>1, <2>2
  <2>. QED BY <2>3 DEF m
<1>7. Sorted(channel) = [v \in DOMAIN channel |->
                           channel[CHOOSE i \in DOMAIN channel : Cardinality(UpTo(i)) = v]]
  BY DEF Sorted
<1> HIDE DEF UpTo
<1>8. ASSUME NEW v \in 1..taken
      PROVE  \E i \in DOMAIN channel : Sorted(channel)[v] = channel[i] /\ channel[i].volume = v
  <2> DEFINE c == CHOOSE i \in DOMAIN channel : Cardinality(UpTo(i)) = v
  <2>1. \E i \in DOMAIN channel : Cardinality(UpTo(i)) = v
    BY <1>1, <1>4
  <2>2. c \in DOMAIN channel /\ Cardinality(UpTo(c)) = v
    BY <2>1
  <2>3. Sorted(channel)[v] = channel[c]
    BY <1>2, <1>6, <1>7
  <2> HIDE DEF c
  <2>. QED BY <1>4, <2>2, <2>3
<1>9. Sorted(channel) \in Seq(Books) /\ Len(Sorted(channel)) = taken
  <2>1. DOMAIN Sorted(channel) = 1..taken
    BY <1>2, <1>6, <1>7
  <2>2. \A v \in 1..taken : Sorted(channel)[v] \in Books
    BY <1>1, <1>8
  <2>3. Sorted(channel) = [v \in 1..taken |-> Sorted(channel)[v]]
    BY <1>7, <2>1
  <2>. QED BY <1>2, <2>2, <2>3
<1>10. ASSUME NEW i \in DOMAIN channel
       PROVE  \E v \in 1..taken : Sorted(channel)[v] = channel[i]
  <2>1. channel[i].volume \in 1..taken
    BY <1>1
  <2>2. PICK j \in DOMAIN channel :
          Sorted(channel)[channel[i].volume] = channel[j] /\ channel[j].volume = channel[i].volume
    BY <1>8, <2>1
  <2>3. i = j
    BY <1>1, <2>2
  <2>. QED BY <2>1, <2>2, <2>3
<1>. QED BY <1>8, <1>9, <1>10

(* The report that replaces the old one at the end of a batch. *)
LEMMA FinishReports ==
  ASSUME ConservedInv, VerifiedInv, StopInv, Finish
  PROVE  ReportAccountsForCatalogue'
<1> DEFINE books == Sorted(channel)
<1>1. /\ books \in Seq(Books) /\ Len(books) = taken
      /\ \A v \in 1..taken : books[v].volume = v
      /\ \A v \in 1..taken : \E i \in DOMAIN channel : books[v] = channel[i]
      /\ \A i \in DOMAIN channel : \E v \in 1..taken : books[v] = channel[i]
  BY SortedReports DEF Finish
<1>2. /\ taken \in 0..N /\ N \in Nat /\ opt \in Options
      /\ \A i \in DOMAIN channel : channel[i] \in Books
  BY NAssumption DEF ConservedInv, TypeInv, TypeOK
<1> HIDE DEF books
<1>3. DOMAIN books = 1..taken
  BY <1>1
<1>4. /\ corpus' = Report
      /\ outcome' = IF Report.status = "failed" THEN "volume_failures" ELSE "ok"
      /\ epub' = epub
  BY DEF Finish, Return
<1> DEFINE failed == Cardinality(Failed(books))
<1>5. /\ Report.books = books /\ Report.unprocessed = N - taken
      /\ Report.failed = failed /\ Report.keepGoing = opt.keepGoing
  BY <1>1 DEF Report, books
<1>6. Report.status = IF failed > 0 \/ N - taken > 0 THEN "failed"
                      ELSE IF opt.epubcheck THEN "passed" ELSE "partial"
  BY <1>1 DEF Report, books
<1>7. failed \in Nat /\ (failed = 0 <=> \A v \in 1..taken : books[v].status = "passed")
  <2>1. Failed(books) \in SUBSET (1..taken) /\ IsFiniteSet(1..taken)
    BY <1>2, <1>3, FS_Interval DEF Failed
  <2>2. IsFiniteSet(Failed(books))
    BY <2>1, FS_Subset
  <2>3. failed \in Nat /\ (failed = 0 <=> Failed(books) = {})
    BY <2>2, FS_CardinalityType, FS_EmptySet
  <2>4. \A v \in 1..taken : books[v].status \in {"passed", "failed"}
    BY <1>1, <1>2 DEF Books
  <2>. QED BY <1>3, <2>3, <2>4 DEF Failed
<1> HIDE DEF failed
<1>8. N - taken > 0 => failed > 0 /\ ~opt.keepGoing
  <2> SUFFICES ASSUME taken # N PROVE failed > 0 /\ ~opt.keepGoing
    BY <1>2
  <2>1. cancelled
    BY DEF Finish, Joined, StopInv
  <2>2. ~opt.keepGoing /\ Failed(channel) # {}
    BY <2>1 DEF StopInv
  <2>3. \E v \in 1..taken : books[v].status = "failed"
    BY <1>1, <2>2 DEF Failed
  <2>. QED BY <1>7, <2>2, <2>3
<1>9. Report.status # "failed" <=> failed = 0 /\ taken = N
  BY <1>2, <1>6, <1>7
<1>10. Report.status # "failed" <=>
         \A v \in Volumes : v \in 1..taken /\ books[v].status = "passed"
  <2>1. taken = N => Volumes = 1..taken
    BY DEF Volumes
  <2>2. taken # N => N \in Volumes /\ N \notin 1..taken
    BY <1>2 DEF Volumes
  <2>3. CASE taken = N
    BY <1>7, <1>9, <2>1, <2>3
  <2>4. CASE taken # N
    BY <1>9, <2>2, <2>4
  <2>. QED BY <2>3, <2>4
<1>11. \A v \in 1..taken : books[v].status = "passed" =>
          /\ epub[v] = "conforming"
          /\ books[v].epubcheck = IF opt.epubcheck THEN "passed" ELSE "skipped"
  BY <1>1 DEF VerifiedInv, PassedMeansVerified, Audited
<1>12. Report.status = "passed" => opt.epubcheck /\ Report.status # "failed"
  BY <1>6
<1>13. Report.status # "failed" => \A v \in Volumes : epub[v] = "conforming"
  BY <1>10, <1>11
<1>14. Report.status = "passed" => \A v \in 1..taken : books[v].epubcheck = "passed"
  <2>1. Report.status = "passed" => \A v \in 1..taken : books[v].status = "passed"
    BY <1>7, <1>9, <1>12
  <2>. QED BY <1>11, <1>12, <2>1
<1>15. outcome' = "ok" <=> Report.status # "failed"
  BY <1>4
<1> HIDE DEF Volumes
<1>. QED BY <1>1, <1>3, <1>4, <1>5, <1>8, <1>10, <1>13, <1>14, <1>15
     DEF ReportAccountsForCatalogue, Volumes

(* What stops the workers, kept by every step. *)
LEMMA StopStep ==
  ASSUME ConservedInv, StopInv, [Next]_vars
  PROVE  StopInv'
<1> USE DEF ConservedInv, TypeInv, TypeOK
<1>1. ASSUME NEW o \in Options, NEW W \in SUBSET Workers, Reject(o, W) PROVE StopInv'
  BY <1>1 DEF Reject, StopInv, Failed
<1>2. ASSUME NEW o \in Options, NEW W \in SUBSET Workers, Start(o, W) PROVE StopInv'
  BY <1>2 DEF Start, Accepted, StopInv
<1>3. CASE Join \/ Crash
  BY <1>3 DEF Join, Finish, FinishWithoutReport, Crash, Return, StopInv
<1>4. ASSUME NEW w \in Workers, Work(w) PROVE StopInv'
  <2>1. CASE LoadCancelled(w)
    BY <2>1 DEF LoadCancelled, MustStop, At, Goto, run, StopInv, Failed
  <2>2. CASE Pop(w)
    BY <2>2 DEF Pop, QueueEmpty, At, Goto, run, StopInv, Failed
  <2>3. CASE StoreCancelled(w)
    BY <2>3 DEF StoreCancelled, At, Goto, run, StopInv, Failed
  <2>4. CASE Send(w)
    <3>1. /\ book[w] \in Books /\ channel' = Append(channel, book[w])
          /\ opt' = opt /\ cancelled' = cancelled /\ active' = active /\ outcome' = outcome
          /\ taken' = taken
          /\ pc' = [pc EXCEPT ![w] = IF book[w].status = "failed" /\ ~opt.keepGoing
                                       THEN "store" ELSE "load"]
          /\ pc[w] = "send"
      BY <2>4 DEF Send, Sending, At, Goto, run, BookOK, HasBook
    <3>2. /\ Failed(channel) # {} => Failed(channel)' # {}
          /\ book[w].status = "failed" => Failed(channel)' # {}
      <4>1. /\ DOMAIN channel' = 1..(Len(channel) + 1) /\ Len(channel) \in Nat
            /\ \A i \in DOMAIN channel : i \in DOMAIN channel' /\ channel'[i] = channel[i]
            /\ channel'[Len(channel) + 1] = book[w]
        BY <3>1
      <4>. QED BY <4>1 DEF Failed
    <3>. QED BY <3>1, <3>2 DEF StopInv
  <2>5. CASE KeepExisting(w) \/ Build(w) \/ BuildFails(w) \/ AuditPasses(w)
             \/ AuditMismatch(w) \/ AuditError(w) \/ EpubCheck(w)
    <3>1. /\ channel' = channel /\ opt' = opt /\ cancelled' = cancelled /\ active' = active
          /\ outcome' = outcome /\ taken' = taken
          /\ pc[w] # "exit"
          /\ \E l \in {"audit", "send", "epubcheck"} : pc' = [pc EXCEPT ![w] = l]
      BY <2>5 DEF KeepExisting, Build, BuildFails, MustBuild, AuditPasses, AuditMismatch,
                  AuditError, EpubCheck, At, Goto, run, disk
    <3>. QED BY <3>1 DEF StopInv, Failed
  <2>. QED BY <1>4, <2>1, <2>2, <2>3, <2>4, <2>5 DEF Work
<1>5. CASE UNCHANGED vars
  BY <1>5 DEF vars, StopInv, Failed
<1>. QED BY <1>1, <1>2, <1>3, <1>4, <1>5 DEF Next

(* No other step ends a batch as reported, or touches what it reported. *)
LEMMA ReportStep ==
  ASSUME ConservedInv, VerifiedInv, ReportInv, [Next]_vars
  PROVE  ReportAccountsForCatalogue'
<1> USE DEF ReportInv
<1>1. ASSUME NEW o \in Options, NEW W \in SUBSET Workers, Reject(o, W) \/ Start(o, W)
      PROVE  ReportAccountsForCatalogue'
  BY <1>1 DEF Reject, Start, ReportAccountsForCatalogue
<1>2. CASE Finish
  BY <1>2, FinishReports
<1>3. CASE FinishWithoutReport \/ Crash
  BY <1>3 DEF FinishWithoutReport, Crash, Return, ReportAccountsForCatalogue
<1>4. ASSUME NEW w \in Workers, Work(w) PROVE ReportAccountsForCatalogue'
  <2>1. outcome' = "running"
    BY <1>4 DEF Work, LoadCancelled, Pop, KeepExisting, Build, BuildFails, MustBuild,
                AuditPasses, AuditMismatch, AuditError, EpubCheck, Send, StoreCancelled, At, run
  <2>. QED BY <2>1 DEF ReportAccountsForCatalogue
<1>5. CASE UNCHANGED vars
  BY <1>5 DEF vars, ReportAccountsForCatalogue
<1>. QED BY <1>1, <1>2, <1>3, <1>4, <1>5 DEF Next, Join

(* ReportAccountsForCatalogue, for every catalogue, schedule and failure. *)
THEOREM BatchReport == Spec => []ReportAccountsForCatalogue
<1>1. Init => ReportInv
  BY DEF Init, ReportInv, StopInv, ReportAccountsForCatalogue
<1>2. ConservedInv /\ VerifiedInv /\ ReportInv /\ [Next]_vars => ReportInv'
  BY StopStep, ReportStep DEF ReportInv
<1>3. ReportInv => ReportAccountsForCatalogue
  BY DEF ReportInv
<1>. QED BY <1>1, <1>2, <1>3, BatchVerified, BatchTypeInv, BatchConservation, PTL
         DEF Spec, ConservedInv
=============================================================================
