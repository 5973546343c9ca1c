--------------------------- MODULE SourceReader ---------------------------
(***************************************************************************)
(* SourceRecordReader of src/source.rs: the events of the XML parser become *)
(* records with a depth, the text of an element collected from its pieces  *)
(* until the next tag, and handed out one at a time by Iterator::next.     *)
(*                                                                         *)
(* An event is abstracted to its kind, the name of its element or whether  *)
(* its text has any ink, and its number. A text is the set of its pieces:  *)
(* the numbers of the events with ink, and 0 if there are blank ones. The  *)
(* attributes of an element are its event number.                          *)
(***************************************************************************)
EXTENDS Integers, Sequences

CONSTANTS
  Names,               \* names of elements
  Garbled,             \* a name or attribute value that cannot be decoded
  MaxEvents, MaxOpen   \* bounds: events of a source, nesting

ASSUME GarbledAssumption == Garbled \notin Names
ASSUME EventBounds == MaxEvents \in Nat /\ MaxOpen \in Nat

VARIABLES
  frames,    \* the elements open
  pending,   \* records not handed out yet
  outcome,   \* reading, ended (finished, after Eof) or failed
  events,    \* number of events read
  given,     \* the record handed out last
  inked,     \* history: the pieces with ink read inside of an element
  told       \* history: those of them that were handed out

rvars == <<frames, pending, outcome, events, given, inked, told>>

Record(kind, depth, name, value) ==
  [kind |-> kind, depth |-> depth, name |-> name, value |-> value]
NoRecord == Record("none", 0, Garbled, {})

Init ==
  /\ frames = <<>>
  /\ pending = <<>>
  /\ outcome = "reading"
  /\ events = 0
  /\ given = NoRecord
  /\ inked = {}
  /\ told = {}

Innermost == frames[Len(frames)]

\* Not all of the text is white space.
Ink(text) == text \ {0} # {}

\* Mutant of Flushed: any text that comes after a child is taken for the element's.
FlushedAsText ==
  IF frames = <<>> \/ ~Ink(Innermost.text) THEN <<>>
  ELSE <<Record("text", Innermost.depth, Garbled, Innermost.text)>>

\* Mutant of Flushed: a tail is given the depth of the element's parent.
FlushedUnder ==
  IF frames = <<>> \/ ~Ink(Innermost.text) THEN <<>>
  ELSE IF Innermost.children = 0
    THEN <<Record("text", Innermost.depth, Garbled, Innermost.text)>>
    ELSE <<Record("tail", Innermost.depth - 1, Garbled, Innermost.text)>>

\* flush_current_text: the record of the text collected, if it has ink.
Flushed ==
  IF frames = <<>> \/ ~Ink(Innermost.text) THEN <<>>
  ELSE IF Innermost.children = 0
    THEN <<Record("text", Innermost.depth, Garbled, Innermost.text)>>
    ELSE <<Record("tail", Innermost.depth + 1, Garbled, Innermost.text)>>

\* Mutant of BeforeChild: the text is not taken out of the frame.
BeforeChildKept ==
  IF frames = <<>> THEN frames
  ELSE [frames EXCEPT ![Len(frames)].children = @ + 1]

\* before_child
BeforeChild ==
  IF frames = <<>> THEN frames
  ELSE [frames EXCEPT ![Len(frames)] =
          [depth |-> @.depth, children |-> @.children + 1, text |-> {}]]

\* read_next_event is called when no record is pending and the reader is not
\* finished.
Event ==
  /\ outcome = "reading"
  /\ pending = <<>>
  /\ events < MaxEvents
  /\ events' = events + 1
  /\ UNCHANGED <<given, told>>

StartEvent(name) ==
  /\ Event
  /\ Len(frames) < MaxOpen
  /\ frames' = Append(BeforeChild, [depth |-> Len(frames), children |-> 0, text |-> {}])
  /\ pending' = Append(Flushed, Record("start", Len(frames), name, {events'}))
  /\ UNCHANGED <<outcome, inked>>

EmptyEvent(name) ==
  /\ Event
  /\ frames' = BeforeChild
  /\ pending' = Append(Flushed, Record("empty", Len(frames), name, {events'}))
  /\ UNCHANGED <<outcome, inked>>

\* The name or an attribute of a start or empty element cannot be decoded: the
\* text before it is flushed and its parent has counted it.
GarbledEvent ==
  /\ Event
  /\ frames' = BeforeChild
  /\ pending' = Flushed
  /\ outcome' = "failed"
  /\ UNCHANGED inked

\* append_text, of a text, CDATA section or reference that was decoded.
TextEvent(ink) ==
  /\ Event
  /\ IF frames = <<>>
       THEN /\ outcome' = IF ink THEN "failed" ELSE outcome
            /\ UNCHANGED <<frames, inked>>
       ELSE /\ frames' = [frames EXCEPT
                            ![Len(frames)].text = @ \cup {IF ink THEN events' ELSE 0}]
            /\ inked' = IF ink THEN inked \cup {events'} ELSE inked
            /\ UNCHANGED outcome
  /\ UNCHANGED pending

\* The parser only reports an end tag that matches the element open.
EndEvent ==
  /\ Event
  /\ frames # <<>>
  /\ frames' = SubSeq(frames, 1, Len(frames) - 1)
  /\ pending' = Append(Flushed, Record("end", Innermost.depth, Garbled, {}))
  /\ UNCHANGED <<outcome, inked>>

EofEvent ==
  /\ Event
  /\ outcome' = IF frames = <<>> THEN "ended" ELSE "failed"
  /\ UNCHANGED <<frames, pending, inked>>

\* A comment, a declaration, a processing instruction or an empty text.
IgnoredEvent ==
  /\ Event
  /\ UNCHANGED <<frames, pending, outcome, inked>>

\* The parser, or the decoding of a text or reference, returns an error.
ErrorEvent ==
  /\ Event
  /\ outcome' = "failed"
  /\ UNCHANGED <<frames, pending, inked>>

\* Iterator::next hands out a pending record. No caller asks again after an error.
Take ==
  /\ outcome # "failed"
  /\ pending # <<>>
  /\ given' = Head(pending)
  /\ pending' = Tail(pending)
  /\ told' = IF given'.kind \in {"text", "tail"} THEN told \cup (given'.value \ {0}) ELSE told
  /\ UNCHANGED <<frames, outcome, events, inked>>

Next ==
  \/ \E name \in Names : StartEvent(name) \/ EmptyEvent(name)
  \/ GarbledEvent
  \/ \E ink \in BOOLEAN : TextEvent(ink)
  \/ EndEvent
  \/ EofEvent
  \/ IgnoredEvent
  \/ ErrorEvent
  \/ Take

Spec == Init /\ [][Next]_rvars

-----------------------------------------------------------------------------
(***************************************************************************)
(* Properties.                                                             *)
(***************************************************************************)

Frames == [depth : Nat, children : Nat, text : SUBSET Nat]
Records == [kind : {"none", "start", "empty", "text", "tail", "end"}, depth : Nat,
            name : Names \cup {Garbled}, value : SUBSET Nat]

TypeOK ==
  /\ frames \in Seq(Frames)
  /\ pending \in Seq(Records)
  /\ outcome \in {"reading", "ended", "failed"}
  /\ events \in 0..MaxEvents
  /\ given \in Records
  /\ inked \subseteq 1..MaxEvents
  /\ told \subseteq inked

\* The texts handed out are those of the source, each piece of ink once and in
\* the order of the document: what was told comes before everything not told
\* yet, no piece that waits was told before, and a source read to its end has
\* been told whole.
InkInOrder ==
  /\ \A a \in told, b \in inked \ told : a < b
  /\ \A i \in DOMAIN pending :
       pending[i].kind \in {"text", "tail"} => pending[i].value \cap told = {}
  /\ \A i \in DOMAIN frames : frames[i].text \cap told = {}
  /\ outcome = "ended" => told = inked

\* The elements open according to the records handed out, with frames fs and
\* the records of ps waiting.
LevelOf(fs, ps) ==
  LET waiting == {ps[i].kind : i \in DOMAIN ps}
  IN IF "start" \in waiting THEN Len(fs) - 1
     ELSE IF "end" \in waiting THEN Len(fs) + 1
     ELSE Len(fs)

Stream == INSTANCE RecordStream WITH
  level <- LevelOf(frames, pending),
  last <- [kind |-> given.kind, depth |-> given.depth]

\* The records handed out form a well-formed stream (RecordStream).
ImplementsStream == Stream!Spec
=============================================================================
