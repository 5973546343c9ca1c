---------------------------- MODULE TwoReaders ----------------------------
(***************************************************************************)
(* The conversion and its audit read the same source with separate code:   *)
(* build_volume of src/epub.rs collects the records of SourceReader into   *)
(* entries with a headword; audit_source of src/audit.rs follows the same  *)
(* parser events with its own frames, and counts entries and headwords as  *)
(* it goes. audit_volume then compares the summaries.                      *)
(*                                                                         *)
(* Both are deterministic in the events, so they read them here in step.   *)
(* In names, Entry is the entry element and Written a feat element with a  *)
(* written form, each in any namespace prefix. Only krdict looks for the   *)
(* latter, so that Written may be a name the others know as WordInfo.      *)
(***************************************************************************)
EXTENDS SourceReader, SequencesExt

CONSTANTS
  Entry, WordInfo, Word, Written

ASSUME NamesAssumption == {Entry, WordInfo, Word, Written} \cap {Garbled} = {}
ASSUME EntryAssumption == Entry \notin {Word, Written}

VARIABLES
  krdict,       \* the dictionary is krdict: headwords are feat attributes
  buffer,       \* build_volume: entry_buffer
  articles,     \* the headings of the entries written
  auditFrames,  \* audit_source: frames
  auditing,     \* reading, ended or failed
  observed,     \* records observed for the last event
  summary,      \* SummaryAccumulator
  nested        \* history: an entry element was read inside of an entry

bvars == <<buffer, articles>>
avars == <<auditFrames, auditing, observed, summary>>
vars == <<krdict, rvars, bvars, avars, nested>>

\* A headword, trimmed; and the one an entry without a headword gets.
Headword(value) == [text |-> value \ {0}, number |-> 0]
Numbered(n) == [text |-> {}, number |-> n]
NoHeadword == Numbered(0)
NoDepth == -1

TwoInit ==
  /\ Init
  /\ krdict \in BOOLEAN
  /\ buffer = <<>>
  /\ articles = <<>>
  /\ auditFrames = <<>>
  /\ auditing = "reading"
  /\ observed = <<>>
  /\ summary = [stack |-> <<>>, entries |-> 0, depth |-> NoDepth,
                headword |-> NoHeadword, headwords |-> <<>>]
  /\ nested = FALSE

-----------------------------------------------------------------------------
(***************************************************************************)
(* build_volume.                                                           *)
(***************************************************************************)

\* The names of the elements open after so many of the records.
Path(records) ==
  LET path[n \in 0..Len(records)] ==
        IF n = 0 THEN <<>>
        ELSE CASE records[n].kind = "start" -> Append(path[n - 1], records[n].name)
               [] records[n].kind = "end" -> Front(path[n - 1])
               [] OTHER -> path[n - 1]
  IN path

\* The i-th record of an entry holds a headword.
HoldsHeadword(records, i) ==
  IF krdict
    THEN records[i].kind \in {"start", "empty"} /\ records[i].name = Written
    ELSE /\ records[i].kind = "text"
         /\ LET path == Path(records)[i - 1]
            IN Len(path) > 1 /\ SubSeq(path, Len(path) - 1, Len(path)) = <<WordInfo, Word>>

\* Mutant of ExtractHeadword: the last candidate wins.
ExtractLastHeadword(records, n) ==
  LET found == {i \in DOMAIN records : HoldsHeadword(records, i)}
  IN IF found = {} THEN Numbered(n) ELSE Headword(records[Max(found)].value)

\* extract_headword
ExtractHeadword(records, n) ==
  LET found == {i \in DOMAIN records : HoldsHeadword(records, i)}
  IN IF found = {} THEN Numbered(n) ELSE Headword(records[Min(found)].value)

WriteArticle(records) ==
  articles' = Append(articles, ExtractHeadword(records, Len(articles) + 1))

\* The body of build_volume's loop, for the record r.
Convert(r) ==
  IF buffer # <<>>
    THEN IF r.kind = "end" /\ r.depth = buffer[1].depth
           THEN WriteArticle(Append(buffer, r)) /\ buffer' = <<>>
           ELSE buffer' = Append(buffer, r) /\ UNCHANGED articles
    ELSE IF r.name = Entry /\ r.kind = "start"
           THEN buffer' = <<r>> /\ UNCHANGED articles
         ELSE IF r.name = Entry /\ r.kind = "empty"
           THEN WriteArticle(<<r>>) /\ UNCHANGED buffer
         ELSE UNCHANGED bvars

-----------------------------------------------------------------------------
(***************************************************************************)
(* audit_source.                                                           *)
(***************************************************************************)

\* capture_krdict_headword
Capture(s, r) ==
  IF krdict /\ s.depth # NoDepth /\ s.headword = NoHeadword /\ r.name = Written
    THEN [s EXCEPT !.headword = Headword(r.value)]
    ELSE s

\* SummaryAccumulator::observe, by kind of record.
ObserveStart(s, r) ==
  LET opened == IF r.name = Entry
                  THEN [s EXCEPT !.entries = @ + 1, !.depth = r.depth, !.headword = NoHeadword]
                  ELSE s
  IN [Capture(opened, r) EXCEPT !.stack = Append(@, r.name)]

ObserveEmpty(s, r) ==
  IF r.name = Entry
    THEN [s EXCEPT !.entries = @ + 1, !.headwords = Append(@, Numbered(s.entries + 1))]
    ELSE Capture(s, r)

\* Mutant of ObserveText: a word in any element is a headword.
ObserveTextAnywhere(s, r) ==
  IF ~krdict /\ s.headword = NoHeadword /\ Last(s.stack) = Word
    THEN [s EXCEPT !.headword = Headword(r.value)]
    ELSE s

ObserveText(s, r) ==
  IF /\ ~krdict
     /\ s.headword = NoHeadword
     /\ Last(s.stack) = Word
     /\ Len(s.stack) > 1 /\ s.stack[Len(s.stack) - 1] = WordInfo
    THEN [s EXCEPT !.headword = Headword(r.value)]
    ELSE s

ObserveEnd(s, r) ==
  LET closed == IF s.depth = r.depth /\ Last(s.stack) = Entry
                  THEN [s EXCEPT !.headwords =
                                   Append(@, IF s.headword = NoHeadword
                                               THEN Numbered(s.entries) ELSE s.headword),
                                 !.headword = NoHeadword,
                                 !.depth = NoDepth]
                  ELSE s
  IN [closed EXCEPT !.stack = Front(@)]

Observe(s, r) ==
  CASE r.kind = "start" -> ObserveStart(s, r)
    [] r.kind = "empty" -> ObserveEmpty(s, r)
    [] r.kind = "text" -> ObserveText(s, r)
    [] r.kind = "tail" -> s
    [] r.kind = "end" -> ObserveEnd(s, r)

\* flush_frame_text: the record, and the frames without the text.
AuditFlushed ==
  IF auditFrames = <<>> THEN <<>>
  ELSE LET f == Last(auditFrames) IN
       IF ~Ink(f.text) THEN <<>>
       ELSE IF f.children = 0 THEN <<Record("text", f.depth, Garbled, f.text)>>
       ELSE <<Record("tail", f.depth + 1, Garbled, f.text)>>

\* The record of the text reaches the accumulator, and then the one of the event.
AfterFlush == IF AuditFlushed = <<>> THEN summary ELSE Observe(summary, AuditFlushed[1])

Observing(r) ==
  /\ observed' = Append(AuditFlushed, r)
  /\ summary' = Observe(AfterFlush, r)

ObservingText ==
  /\ observed' = AuditFlushed
  /\ summary' = AfterFlush

ObservingNothing ==
  /\ observed' = <<>>
  /\ UNCHANGED summary

\* Mutant of AuditCounted: the parent does not count the child.
AuditUncounted ==
  IF auditFrames = <<>> THEN auditFrames
  ELSE LET f == Last(auditFrames) IN
       Append(Front(auditFrames),
              [depth |-> f.depth, children |-> f.children, text |-> {}])

AuditCounted ==
  IF auditFrames = <<>> THEN auditFrames
  ELSE LET f == Last(auditFrames) IN
       Append(Front(auditFrames),
              [depth |-> f.depth, children |-> f.children + 1, text |-> {}])

AuditStart(name) ==
  LET depth == Len(auditFrames) IN
  /\ Observing(Record("start", depth, name, {events'}))
  /\ auditFrames' = Append(AuditCounted, [depth |-> depth, children |-> 0, text |-> {}])
  /\ UNCHANGED auditing

AuditEmpty(name) ==
  /\ Observing(Record("empty", Len(auditFrames), name, {events'}))
  /\ auditFrames' = AuditCounted
  /\ UNCHANGED auditing

AuditGarbled ==
  /\ ObservingText
  /\ auditFrames' = AuditCounted
  /\ auditing' = "failed"

\* append_source_text
AuditText(ink) ==
  /\ IF auditFrames # <<>>
       THEN /\ auditFrames' = Append(Front(auditFrames),
                 [Last(auditFrames) EXCEPT !.text = @ \cup {IF ink THEN events' ELSE 0}])
            /\ UNCHANGED auditing
       ELSE /\ auditing' = IF ink THEN "failed" ELSE auditing
            /\ UNCHANGED auditFrames
  /\ ObservingNothing

AuditEnd ==
  /\ IF auditFrames = <<>>
       THEN auditing' = "failed" /\ ObservingNothing /\ UNCHANGED auditFrames
       ELSE /\ Observing(Record("end", Last(auditFrames).depth, Garbled, {}))
            /\ auditFrames' = Front(auditFrames)
            /\ UNCHANGED auditing

\* Eof, and the check for open elements after the loop.
AuditEof ==
  /\ auditing' = IF auditFrames = <<>> THEN "ended" ELSE "failed"
  /\ ObservingNothing
  /\ UNCHANGED auditFrames

AuditOther(status) ==
  /\ auditing' = status
  /\ ObservingNothing
  /\ UNCHANGED auditFrames

-----------------------------------------------------------------------------

\* The entries open are those named on the path, whose elements are the frames.
Nests(name) == name = Entry /\ Entry \in {summary.stack[i] : i \in DOMAIN summary.stack}

Reads(name) ==
  /\ \/ StartEvent(name) /\ AuditStart(name)
     \/ EmptyEvent(name) /\ AuditEmpty(name)
  /\ nested' = (nested \/ Nests(name))
  /\ UNCHANGED <<krdict, bvars>>

Follows ==
  /\ \/ GarbledEvent /\ AuditGarbled
     \/ \E ink \in BOOLEAN : TextEvent(ink) /\ AuditText(ink)
     \/ EndEvent /\ AuditEnd
     \/ EofEvent /\ AuditEof
     \/ IgnoredEvent /\ AuditOther(auditing)
     \/ ErrorEvent /\ AuditOther("failed")
  /\ UNCHANGED <<krdict, bvars, nested>>

Converts ==
  /\ Take
  /\ Convert(Head(pending))
  /\ UNCHANGED <<krdict, avars, nested>>

TwoNext ==
  \/ \E name \in Names : Reads(name)
  \/ Follows
  \/ Converts

TwoSpec == TwoInit /\ [][TwoNext]_vars

-----------------------------------------------------------------------------
(***************************************************************************)
(* Properties.                                                             *)
(***************************************************************************)

\* Event by event the two readers give the same records to their digests, and
\* one refuses a source where the other does: record_sha256 and record_counts
\* of a source never differ because of who read it.
ReadersAgree ==
  [][events' # events => pending' = observed' /\ outcome' = auditing']_vars

\* Wherever a source may end, the entries and headwords that the audit has
\* counted are those that were written exactly if no entry element stood inside
\* of another: a source with such entries is converted, and fails its audit.
SummariesAgree ==
  (frames = <<>> /\ pending = <<>> /\ outcome # "failed") =>
    (~nested <=> /\ summary.entries = Len(articles)
                 /\ summary.headwords = articles)
=============================================================================
