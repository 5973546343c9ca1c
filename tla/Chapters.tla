------------------------------ MODULE Chapters ------------------------------
(***************************************************************************)
(* The streaming conversion of build_volume in src/epub.rs: the records of *)
(* a source XML are read one by one, those of a dictionary entry collected *)
(* until its end element, and every fragment (an entry, or a record that   *)
(* is outside of entries) written to the current chapter or to a new one.  *)
(*                                                                         *)
(* A record is abstracted to what the loop looks at: its kind, whether its *)
(* element is an entry element, and the depth the reader gives it, which   *)
(* follows from the elements open. The rendered length of a fragment may   *)
(* be any of Sizes; the saturating additions of lengths are plain ones.    *)
(***************************************************************************)
EXTENDS Integers, Sequences

CONSTANTS
  EntriesPerChapter, ChapterBytes,  \* BuildOptions
  Sizes,                            \* lengths a rendered fragment may have
  MaxRecords, MaxOpen               \* bounds: records of a source, nesting

ASSUME EntriesAssumption == EntriesPerChapter \in Nat \ {0}
ASSUME BytesAssumption == ChapterBytes \in Nat \ {0}
ASSUME SizesAssumption == Sizes \subseteq Nat
ASSUME BoundsAssumption == MaxRecords \in Nat /\ MaxOpen \in Nat

VARIABLES
  open,      \* elements open in the source
  read,      \* records read
  buffer,    \* entry_buffer: depth of the entry and number of its records
  entries,   \* entry_count
  chapter,   \* the ChapterWriter
  chapters,  \* the chapters finished
  outcome

vars == <<open, read, buffer, entries, chapter, chapters, outcome>>

NoBuffer == [depth |-> 0, records |-> 0]
Buffering == buffer.records > 0

Fragments == [size : Sizes, entry : BOOLEAN]
NoFragment == [size |-> 0, entry |-> FALSE]

\* ChapterWriter, with the ordinal of its first record (from), its first
\* fragment (head) and the number of its fragments.
Chapter == [bytes : Nat, records : Nat, entries : Nat, first : Nat, last : Nat,
            from : Nat, fragments : Nat, head : Fragments \cup {NoFragment}]
NewChapter == [bytes |-> 0, records |-> 0, entries |-> 0, first |-> 0, last |-> 0,
               from |-> 0, fragments |-> 0, head |-> NoFragment]

Init ==
  /\ open = 0
  /\ read = 0
  /\ buffer = NoBuffer
  /\ entries = 0
  /\ chapter = NewChapter
  /\ chapters = <<>>
  /\ outcome = "reading"

\* Mutant of ShouldSplit: one entry too many, and the bytes before the fragment.
SplitsLate(c, f) ==
  /\ c.records > 0
  /\ \/ f.entry /\ c.entries > EntriesPerChapter
     \/ c.bytes > ChapterBytes

\* Mutant of ShouldSplit: any fragment counts as an entry.
SplitsAtAny(c, f) ==
  /\ c.records > 0
  /\ c.entries >= EntriesPerChapter \/ c.bytes + f.size > ChapterBytes

\* ChapterWriter::should_split
ShouldSplit(c, f) ==
  /\ c.records > 0
  /\ \/ f.entry /\ c.entries >= EntriesPerChapter
     \/ c.bytes + f.size > ChapterBytes

\* ChapterWriter::write_fragment of the last n records read.
Add(c, f, n, number) ==
  [bytes |-> c.bytes + f.size,
   records |-> c.records + n,
   entries |-> IF f.entry THEN c.entries + 1 ELSE c.entries,
   first |-> IF f.entry /\ c.first = 0 THEN number ELSE c.first,
   last |-> IF f.entry THEN number ELSE c.last,
   from |-> IF c.fragments = 0 THEN read' - n + 1 ELSE c.from,
   fragments |-> c.fragments + 1,
   head |-> IF c.fragments = 0 THEN f ELSE c.head]

\* Mutant of Split: the fragment that does not fit is lost.
SplitAndLose(f, n, number) ==
  IF ShouldSplit(chapter, f)
    THEN chapters' = Append(chapters, chapter) /\ chapter' = NewChapter
    ELSE chapters' = chapters /\ chapter' = Add(chapter, f, n, number)

\* write_fragment_with_split
Split(f, n, number) ==
  IF ShouldSplit(chapter, f)
    THEN /\ chapters' = Append(chapters, chapter)
         /\ chapter' = Add(NewChapter, f, n, number)
    ELSE /\ chapters' = chapters
         /\ chapter' = Add(chapter, f, n, number)

\* Mutant of WriteEntry: entries are numbered before they are counted.
WriteEntryUncounted(size, n) ==
  /\ entries' = entries + 1
  /\ Split([size |-> size, entry |-> TRUE], n, entries)

\* An entry of n records is complete.
WriteEntry(size, n) ==
  /\ entries' = entries + 1
  /\ Split([size |-> size, entry |-> TRUE], n, entries')

WriteRecord(size) ==
  /\ Split([size |-> size, entry |-> FALSE], 1, 0)
  /\ UNCHANGED entries

Held == UNCHANGED <<entries, chapter, chapters>>

\* The reader delivers a record: it can only end an element that is open, and
\* text stands inside of one.
Deliver(kind) ==
  /\ outcome = "reading"
  /\ read < MaxRecords
  /\ read' = read + 1
  /\ CASE kind = "start" -> open < MaxOpen /\ open' = open + 1
       [] kind = "end"   -> open > 0 /\ open' = open - 1
       [] kind = "text"  -> open > 0 /\ open' = open
       [] kind = "empty" -> open' = open
  /\ UNCHANGED outcome

Kinds == {"start", "empty", "text", "end"}

\* A start element with the entry name, outside of an entry.
OpenEntry ==
  /\ ~Buffering
  /\ Deliver("start")
  /\ buffer' = [depth |-> open, records |-> 1]
  /\ Held

\* Mutant of ClosesEntry: the entry ends with the element around it.
ClosesOneOut(kind) == kind = "end" /\ open = buffer.depth

\* An EndElement of the entry's own depth; the reader's depth is that of the
\* element it ends.
ClosesEntry(kind) == kind = "end" /\ open - 1 = buffer.depth

\* Inside an entry every record is buffered, entry elements included.
BufferRecord(kind) ==
  /\ Buffering
  /\ ~ClosesEntry(kind)
  /\ Deliver(kind)
  /\ buffer' = [buffer EXCEPT !.records = @ + 1]
  /\ Held

CloseEntry(size) ==
  /\ Buffering
  /\ ClosesEntry("end")
  /\ Deliver("end")
  /\ WriteEntry(size, buffer.records + 1)
  /\ buffer' = NoBuffer

\* An empty element with the entry name, outside of an entry.
EmptyEntry(size) ==
  /\ ~Buffering
  /\ Deliver("empty")
  /\ WriteEntry(size, 1)
  /\ UNCHANGED buffer

\* Any other record outside of entries.
OtherRecord(kind, size) ==
  /\ ~Buffering
  /\ Deliver(kind)
  /\ WriteRecord(size)
  /\ UNCHANGED buffer

\* The source ends, which the reader only accepts with every element closed.
EndOfSource ==
  /\ outcome = "reading"
  /\ open = 0
  /\ outcome' = CASE Buffering -> "unclosed_entry"
                  [] ~Buffering /\ entries = 0 -> "no_entries"
                  [] OTHER -> "built"
  /\ IF outcome' = "built"
       THEN chapters' = Append(chapters, chapter) /\ chapter' = NewChapter
       ELSE UNCHANGED <<chapters, chapter>>
  /\ UNCHANGED <<open, read, buffer, entries>>

\* The reader reports malformed XML or an I/O error, or a write fails.
SourceError ==
  /\ outcome = "reading"
  /\ outcome' = "source_error"
  /\ UNCHANGED <<open, read, buffer, entries, chapter, chapters>>

Next ==
  \/ OpenEntry
  \/ \E kind \in Kinds : BufferRecord(kind)
  \/ \E size \in Sizes :
       \/ CloseEntry(size) \/ EmptyEntry(size)
       \/ \E kind \in Kinds : OtherRecord(kind, size)
  \/ EndOfSource
  \/ SourceError

Spec == Init /\ [][Next]_vars

-----------------------------------------------------------------------------
(***************************************************************************)
(* Properties.                                                             *)
(***************************************************************************)

TypeOK ==
  /\ open \in 0..MaxOpen
  /\ read \in 0..MaxRecords
  /\ buffer \in [depth : 0..MaxOpen, records : 0..MaxRecords]
  /\ Buffering => open > buffer.depth
  /\ entries \in 0..MaxRecords
  /\ chapter \in Chapter
  /\ chapters \in Seq(Chapter)
  /\ outcome \in {"reading", "built", "unclosed_entry", "no_entries", "source_error"}

\* The chapters finished, and the current one if it has content.
Written == IF chapter.records > 0 THEN Append(chapters, chapter) ELSE chapters

\* Nothing is lost, repeated or reordered between the source and the chapters:
\* they hold consecutive runs of records, none empty, from the first record to
\* the last one read, but for the entry still being collected.
RecordsConserved ==
  LET w == Written IN
  /\ \A i \in DOMAIN w :
       /\ w[i].records > 0
       /\ w[i].from = IF i = 1 THEN 1 ELSE w[i - 1].from + w[i - 1].records
  /\ read = buffer.records +
            (IF w = <<>> THEN 0 ELSE w[Len(w)].from + w[Len(w)].records - 1)

\* The entry numbers a chapter is labelled with in the table of contents are
\* those of its entries, and run on from chapter to chapter without a gap.
EntryLabelsRunOn ==
  LET w == Written
      labelled == {i \in DOMAIN w : w[i].entries > 0}
  IN /\ \A i \in DOMAIN w : w[i].entries = 0 => w[i].first = 0 /\ w[i].last = 0
     /\ \A i \in labelled :
          /\ w[i].last = w[i].first + w[i].entries - 1
          /\ \A j \in labelled :
               (j > i /\ \A k \in labelled : ~(i < k /\ k < j)) =>
                 w[j].first = w[i].last + 1
          /\ (\A k \in labelled : k >= i) => w[i].first = 1
          /\ (\A k \in labelled : k <= i) => w[i].last = entries

\* No chapter holds more entries than entries_per_chapter, nor more bytes than
\* chapter_bytes unless it is one fragment that is larger by itself.
LimitsKept ==
  LET w == Written IN
  \A i \in DOMAIN w :
    /\ w[i].entries <= EntriesPerChapter
    /\ w[i].bytes <= ChapterBytes \/ w[i].fragments = 1

\* A chapter is only begun when its first fragment did not fit the one before.
NoNeedlessSplit ==
  LET w == Written IN
  \A i \in DOMAIN w \ {1} :
    \/ w[i].head.entry /\ w[i - 1].entries >= EntriesPerChapter
    \/ w[i - 1].bytes + w[i].head.size > ChapterBytes

\* EpubError::UnclosedEntry is never returned: the reader refuses a source that
\* ends inside an element before build_volume can notice an unfinished entry.
NeverUnclosed == outcome # "unclosed_entry"
=============================================================================
