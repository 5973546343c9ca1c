--------------------------- MODULE ChaptersProofs ---------------------------
(***************************************************************************)
(* Theorems about Chapters for every chapter limit, nesting and length of  *)
(* source. A step writes one fragment, or leaves the chapters alone, or    *)
(* ends the source; what the properties say of Written is kept as one fact *)
(* about the chapters finished and one about the current chapter.          *)
(***************************************************************************)
EXTENDS Chapters, TLAPS

\* A step writes the last n records read as the fragment f.
Writes(f, n, number) ==
  /\ outcome = "reading"
  /\ read' = read + 1
  /\ n \in Nat /\ 0 < n /\ n <= read'
  /\ n = buffer.records + 1
  /\ buffer'.records = 0
  /\ Split(f, n, number)

Keeps == UNCHANGED <<chapter, chapters>>

LEMMA NewChapterType == NewChapter \in Chapter
BY DEF NewChapter, Chapter, NoFragment

LEMMA AddType ==
  ASSUME NEW c \in Chapter, read' \in Nat, NEW n \in Nat, n <= read', NEW f \in Fragments,
         NEW number \in Nat
  PROVE  Add(c, f, n, number) \in Chapter
<1>1. f.size \in Nat /\ f.entry \in BOOLEAN
  BY SizesAssumption DEF Fragments
<1>2. read' - n + 1 \in Nat
  <2>1. \A r \in Nat : n <= r => r - n + 1 \in Nat
    OBVIOUS
  <2>. QED BY <2>1
<1>3. c.bytes + f.size \in Nat /\ c.records + n \in Nat /\ c.entries + 1 \in Nat /\ c.fragments + 1 \in Nat
  BY <1>1 DEF Chapter
<1>4. (IF c.fragments = 0 THEN f ELSE c.head) \in Fragments \cup {NoFragment}
  BY DEF Chapter
<1>. QED BY <1>1, <1>2, <1>3, <1>4 DEF Add, Chapter

LEMMA SplitType ==
  ASSUME chapter \in Chapter, chapters \in Seq(Chapter), read' \in Nat,
         NEW n \in Nat, n <= read', NEW f \in Fragments, NEW number \in Nat, Split(f, n, number)
  PROVE  chapter' \in Chapter /\ chapters' \in Seq(Chapter)
<1>1. Add(chapter, f, n, number) \in Chapter /\ Add(NewChapter, f, n, number) \in Chapter
  BY AddType, NewChapterType
<1>. QED BY <1>1 DEF Split

\* Counts are bounded by the records read, which is what keeps them typed.
TypeInv == TypeOK /\ buffer.records <= read /\ entries <= read

LEMMA EntrySizes ==
  ASSUME NEW size \in Sizes
  PROVE  \A b \in BOOLEAN : [size |-> size, entry |-> b] \in Fragments
BY DEF Fragments

\* The three kinds of steps.
LEMMA Cases ==
  ASSUME TypeInv, [Next]_vars
  PROVE  \/ \E f \in Fragments, n \in Nat, number \in Nat :
              /\ Writes(f, n, number)
              /\ IF f.entry THEN entries' = entries + 1 /\ number = entries'
                            ELSE entries' = entries
         \/ /\ Keeps /\ entries' = entries
            /\ \/ read' = read + 1 /\ buffer'.records = buffer.records + 1
               \/ read' = read /\ buffer' = buffer
         \/ EndOfSource
<1>0. /\ read \in Nat /\ buffer.records \in Nat /\ entries \in Nat /\ buffer.records <= read
      /\ buffer \in [depth : 0..MaxOpen, records : 0..MaxRecords]
  BY BoundsAssumption DEF TypeInv, TypeOK
<1> USE <1>0
<1>1. ASSUME NEW size \in Sizes, CloseEntry(size) \/ EmptyEntry(size)
      PROVE  \E n \in Nat :
               /\ Writes([size |-> size, entry |-> TRUE], n, entries')
               /\ entries' = entries + 1
  <2>1. CASE CloseEntry(size)
    BY <2>1 DEF CloseEntry, WriteEntry, Writes, Deliver, NoBuffer
  <2>2. CASE EmptyEntry(size)
    <3>1. buffer.records = 0
      BY <2>2 DEF EmptyEntry, Buffering
    <3>. QED BY <2>2, <3>1 DEF EmptyEntry, WriteEntry, Writes, Deliver
  <2>. QED BY <1>1, <2>1, <2>2
<1>2. ASSUME NEW size \in Sizes, NEW kind \in Kinds, OtherRecord(kind, size)
      PROVE  Writes([size |-> size, entry |-> FALSE], 1, 0) /\ entries' = entries
  <2>1. buffer.records = 0
    BY <1>2 DEF OtherRecord, Buffering
  <2>. QED BY <1>2, <2>1 DEF OtherRecord, WriteRecord, Writes, Deliver
<1>3. CASE OpenEntry
  BY <1>3 DEF OpenEntry, Buffering, Deliver, Held, Keeps
<1>4. ASSUME NEW kind \in Kinds, BufferRecord(kind)
      PROVE  /\ Keeps /\ entries' = entries
             /\ read' = read + 1 /\ buffer'.records = buffer.records + 1
  BY <1>4 DEF BufferRecord, Deliver, Held, Keeps
<1>5. CASE SourceError \/ UNCHANGED vars
  BY <1>5 DEF SourceError, vars, Keeps
<1>6. ASSUME NEW size \in Sizes, CloseEntry(size) \/ EmptyEntry(size)
      PROVE  \E f \in Fragments, n \in Nat, number \in Nat :
               /\ Writes(f, n, number)
               /\ IF f.entry THEN entries' = entries + 1 /\ number = entries'
                             ELSE entries' = entries
  <2> DEFINE f == [size |-> size, entry |-> TRUE]
  <2>1. f \in Fragments /\ f.entry
    BY <1>6, EntrySizes
  <2>2. PICK n \in Nat : Writes(f, n, entries') /\ entries' = entries + 1
    BY <1>1, <1>6
  <2> HIDE DEF f
  <2>. QED BY <2>1, <2>2
<1>7. ASSUME NEW size \in Sizes, NEW kind \in Kinds, OtherRecord(kind, size)
      PROVE  \E f \in Fragments, n \in Nat, number \in Nat :
               /\ Writes(f, n, number)
               /\ IF f.entry THEN entries' = entries + 1 /\ number = entries'
                             ELSE entries' = entries
  <2> DEFINE f == [size |-> size, entry |-> FALSE]
  <2>1. f \in Fragments /\ ~f.entry
    BY <1>7, EntrySizes
  <2>2. Writes(f, 1, 0) /\ entries' = entries
    BY <1>2, <1>7
  <2> HIDE DEF f
  <2>. QED BY <2>1, <2>2
<1>. QED BY <1>3, <1>4, <1>5, <1>6, <1>7 DEF Next

-----------------------------------------------------------------------------
(***************************************************************************)
(* Types, and the nesting of the entry being collected.                    *)
(***************************************************************************)

LEMMA TypeInit == Init => TypeInv
<1>1. <<>> \in Seq(Chapter)
  OBVIOUS
<1>. QED BY <1>1, NewChapterType, BoundsAssumption
     DEF Init, TypeInv, TypeOK, NoBuffer, Buffering

LEMMA Delivered ==
  ASSUME NEW kind \in Kinds, Deliver(kind), open \in 0..MaxOpen
  PROVE  /\ outcome' = outcome /\ read' = read + 1 /\ read < MaxRecords
         /\ open' \in 0..MaxOpen /\ (kind = "start" => open' > open)
         /\ (kind = "end" => open' = open - 1) /\ (kind # "end" => open' >= open)
<1> USE BoundsAssumption DEF Deliver
<1>1. CASE kind = "start"
  BY <1>1
<1>2. CASE kind = "end"
  BY <1>2
<1>3. CASE kind = "text"
  BY <1>3
<1>4. CASE kind = "empty"
  BY <1>4
<1>. QED BY <1>1, <1>2, <1>3, <1>4 DEF Kinds

\* While an entry is collected its element is open: the end element that closes
\* it is the one that takes the depth back to the entry's.
LEMMA NestingStep ==
  ASSUME TypeInv, [Next]_vars
  PROVE  /\ open' \in 0..MaxOpen
         /\ buffer' \in [depth : 0..MaxOpen, records : 0..MaxRecords]
         /\ buffer'.records <= read' /\ read' \in 0..MaxRecords
         /\ buffer'.records > 0 => open' > buffer'.depth
         /\ outcome' \in {"reading", "built", "unclosed_entry", "no_entries", "source_error"}
<1>0. /\ read \in 0..MaxRecords /\ buffer.records <= read /\ open \in 0..MaxOpen
      /\ buffer \in [depth : 0..MaxOpen, records : 0..MaxRecords]
      /\ buffer.records > 0 => open > buffer.depth
      /\ outcome \in {"reading", "built", "unclosed_entry", "no_entries", "source_error"}
  BY DEF TypeInv, TypeOK, Buffering
<1> USE <1>0, BoundsAssumption DEF NoBuffer, Buffering, Kinds
<1>1. CASE OpenEntry
  BY <1>1, Delivered DEF OpenEntry
<1>2. ASSUME NEW kind \in Kinds, BufferRecord(kind)
      PROVE  /\ open' \in 0..MaxOpen /\ buffer' = [buffer EXCEPT !.records = @ + 1]
             /\ read' = read + 1 /\ read < MaxRecords /\ open' > buffer.depth /\ outcome' = outcome
  <2>1. /\ outcome' = outcome /\ read' = read + 1 /\ read < MaxRecords
        /\ open' \in 0..MaxOpen
        /\ (kind = "end" => open' = open - 1) /\ (kind # "end" => open' >= open)
    BY <1>2, Delivered DEF BufferRecord
  <2>2. open > buffer.depth /\ (kind = "end" => open - 1 # buffer.depth)
    BY <1>2 DEF BufferRecord, ClosesEntry
  <2>3. open \in Int /\ open' \in Int /\ buffer.depth \in Int
    BY <2>1
  <2>4. open' > buffer.depth
    BY <2>1, <2>2, <2>3
  <2>5. buffer' = [buffer EXCEPT !.records = @ + 1]
    BY <1>2 DEF BufferRecord
  <2>. QED BY <2>1, <2>4, <2>5
<1>3. ASSUME NEW size \in Sizes, CloseEntry(size) \/ EmptyEntry(size)
      PROVE  /\ open' \in 0..MaxOpen /\ (buffer' = NoBuffer \/ (buffer' = buffer /\ buffer.records = 0))
             /\ read' = read + 1 /\ read < MaxRecords /\ outcome' = outcome
  BY <1>3, Delivered DEF CloseEntry, EmptyEntry
<1>4. ASSUME NEW size \in Sizes, NEW kind \in Kinds, OtherRecord(kind, size)
      PROVE  /\ open' \in 0..MaxOpen /\ buffer' = buffer /\ buffer.records = 0
             /\ read' = read + 1 /\ read < MaxRecords /\ outcome' = outcome
  <2>1. Deliver(kind) /\ buffer' = buffer /\ buffer.records = 0
    BY <1>4 DEF OtherRecord
  <2>. QED BY <2>1, Delivered
<1>5. CASE EndOfSource \/ SourceError \/ UNCHANGED vars
  BY <1>5 DEF EndOfSource, SourceError, vars
<1>. QED BY <1>1, <1>2, <1>3, <1>4, <1>5 DEF Next

LEMMA TypeStep == TypeInv /\ [Next]_vars => TypeInv'
<1> SUFFICES ASSUME TypeInv, [Next]_vars PROVE TypeInv'
  OBVIOUS
<1>0. /\ read \in Nat /\ entries \in Nat /\ entries <= read
      /\ chapter \in Chapter /\ chapters \in Seq(Chapter)
  BY BoundsAssumption DEF TypeInv, TypeOK
<1>1. entries' \in Nat /\ entries' <= read' /\ chapter' \in Chapter /\ chapters' \in Seq(Chapter)
  <2>1. ASSUME NEW f \in Fragments, NEW n \in Nat, NEW number \in Nat, Writes(f, n, number),
               entries' = entries + 1 \/ entries' = entries
        PROVE  entries' \in Nat /\ entries' <= read' /\ chapter' \in Chapter /\ chapters' \in Seq(Chapter)
    <3>1. read' \in Nat /\ n <= read' /\ Split(f, n, number) /\ read' = read + 1
      BY <1>0, <2>1 DEF Writes
    <3>2. chapter' \in Chapter /\ chapters' \in Seq(Chapter)
      BY <1>0, <3>1, SplitType
    <3>. QED BY <1>0, <2>1, <3>1, <3>2
  <2>2. CASE EndOfSource
    BY <1>0, <2>2, NewChapterType DEF EndOfSource
  <2>3. CASE Keeps /\ entries' = entries /\ (read' = read + 1 \/ read' = read)
    BY <1>0, <2>3 DEF Keeps
  <2>. QED BY <2>1, <2>2, <2>3, Cases
<1>. QED BY <1>1, NestingStep, BoundsAssumption DEF TypeInv, TypeOK, Buffering

\* Every variable keeps its type; an entry being collected has its element open.
THEOREM ChaptersTypeOK == Spec => []TypeOK
<1>1. Spec => []TypeInv
  BY TypeInit, TypeStep, PTL DEF Spec
<1>2. TypeInv => TypeOK
  BY DEF TypeInv
<1>. QED BY <1>1, <1>2, PTL

\* However elements nest, the reader reports a source that ends inside an entry
\* before build_volume could return UnclosedEntry.
THEOREM ChaptersNeverUnclosed == Spec => []NeverUnclosed
<1>1. Init => NeverUnclosed
  BY DEF Init, NeverUnclosed
<1>2. TypeInv /\ NeverUnclosed /\ [Next]_vars => NeverUnclosed'
  <2> SUFFICES ASSUME TypeInv, NeverUnclosed, [Next]_vars PROVE NeverUnclosed'
    OBVIOUS
  <2>1. CASE EndOfSource
    <3>1. ~Buffering
      BY <2>1, BoundsAssumption DEF EndOfSource, TypeInv, TypeOK
    <3>. QED BY <2>1, <3>1 DEF EndOfSource, NeverUnclosed
  <2>2. CASE SourceError \/ UNCHANGED vars
    BY <2>2 DEF SourceError, vars, NeverUnclosed
  <2>3. CASE Next /\ ~EndOfSource /\ ~SourceError
    <3>1. outcome' = outcome
      BY <2>3 DEF Next, OpenEntry, BufferRecord, CloseEntry, EmptyEntry, OtherRecord, Deliver
    <3>. QED BY <3>1 DEF NeverUnclosed
  <2>. QED BY <2>1, <2>2, <2>3
<1>3. Spec => []TypeInv
  BY TypeInit, TypeStep, PTL DEF Spec
<1>. QED BY <1>1, <1>2, <1>3, PTL DEF Spec

-----------------------------------------------------------------------------
(***************************************************************************)
(* What the chapters hold.                                                 *)
(***************************************************************************)

\* A chapter without records is untouched, and while the source is read only the
\* very first one can be.
BlankInv ==
  /\ chapter.records = 0 => chapter = NewChapter
  /\ chapter.records > 0 => chapter.fragments > 0
  /\ outcome = "reading" /\ chapter.records = 0 => chapters = <<>> /\ entries = 0

LEMMA AddFacts ==
  ASSUME NEW c \in Chapter, NEW f \in Fragments, NEW n \in Nat, 0 < n, NEW number
  PROVE  LET a == Add(c, f, n, number) IN
         /\ a.records = c.records + n /\ a.records > 0
         /\ a.fragments = c.fragments + 1 /\ a.fragments > 0
         /\ a.bytes = c.bytes + f.size
         /\ a.entries = IF f.entry THEN c.entries + 1 ELSE c.entries
         /\ a.from = IF c.fragments = 0 THEN read' - n + 1 ELSE c.from
BY DEF Add, Chapter

LEMMA BlankStep == TypeInv /\ BlankInv /\ [Next]_vars => BlankInv'
<1> SUFFICES ASSUME TypeInv, BlankInv, [Next]_vars PROVE BlankInv'
  OBVIOUS
<1>0. chapter \in Chapter
  BY DEF TypeInv, TypeOK
<1>1. ASSUME NEW f \in Fragments, NEW n \in Nat, NEW number \in Nat, Writes(f, n, number)
      PROVE  BlankInv'
  <2>1. PICK c \in {chapter, NewChapter} : chapter' = Add(c, f, n, number)
    BY <1>1 DEF Writes, Split
  <2>2. chapter'.records > 0 /\ chapter'.fragments > 0
    BY <1>0, <1>1, <2>1, AddFacts, NewChapterType DEF Writes
  <2>. QED BY <2>2 DEF BlankInv
<1>2. CASE EndOfSource
  <2>1. NewChapter.records = 0
    BY DEF NewChapter
  <2>. QED BY <1>2, <2>1 DEF EndOfSource, BlankInv
<1>3. CASE Keeps /\ entries' = entries /\ (read' = read + 1 \/ read' = read)
  <2>1. outcome' = "reading" => outcome = "reading"
    BY DEF Next, OpenEntry, BufferRecord, CloseEntry, EmptyEntry, OtherRecord, Deliver,
           EndOfSource, SourceError, vars
  <2>. QED BY <1>3, <2>1 DEF Keeps, BlankInv
<1>. QED BY <1>1, <1>2, <1>3, Cases

LEMMA BlankInit == Init => BlankInv
BY DEF Init, BlankInv, NewChapter

Within(c) == c.entries <= EntriesPerChapter /\ (c.bytes <= ChapterBytes \/ c.fragments = 1)

LimitInv == Within(chapter) /\ \A i \in DOMAIN chapters : Within(chapters[i])

LEMMA NewWithin == Within(NewChapter)
BY EntriesAssumption, BytesAssumption DEF Within, NewChapter

\* A fragment that is not made to split leaves the chapter within its limits.
LEMMA AddWithin ==
  ASSUME NEW c \in Chapter, NEW f \in Fragments, NEW n \in Nat, 0 < n, NEW number,
         Within(c), ~ShouldSplit(c, f), c.records = 0 => c = NewChapter
  PROVE  Within(Add(c, f, n, number))
<1>1. f.size \in Nat /\ f.entry \in BOOLEAN
  BY SizesAssumption DEF Fragments
<1>2. CASE c.records = 0
  <2>1. c.fragments = 0 /\ c.entries = 0
    BY <1>2 DEF NewChapter
  <2>. QED BY <1>1, <2>1, AddFacts, EntriesAssumption DEF Within
<1>3. CASE c.records > 0
  BY <1>1, <1>3, AddFacts, EntriesAssumption, BytesAssumption DEF Within, ShouldSplit, Chapter
<1>. QED BY <1>2, <1>3 DEF Chapter

LEMMA LimitStep == TypeInv /\ BlankInv /\ LimitInv /\ [Next]_vars => LimitInv'
<1> SUFFICES ASSUME TypeInv, BlankInv, LimitInv, [Next]_vars PROVE LimitInv'
  OBVIOUS
<1>0. chapter \in Chapter /\ chapters \in Seq(Chapter)
  BY DEF TypeInv, TypeOK
<1>1. ASSUME NEW f \in Fragments, NEW n \in Nat, NEW number \in Nat, Writes(f, n, number)
      PROVE  LimitInv'
  <2>0. 0 < n /\ Split(f, n, number)
    BY <1>1 DEF Writes
  <2>1. CASE ShouldSplit(chapter, f)
    <3>1. chapters' = Append(chapters, chapter) /\ chapter' = Add(NewChapter, f, n, number)
      BY <2>0, <2>1 DEF Split
    <3>2. Within(chapter')
      <4>1. ~ShouldSplit(NewChapter, f)
        BY DEF ShouldSplit, NewChapter
      <4>. QED BY <2>0, <3>1, <4>1, AddWithin, NewWithin, NewChapterType
    <3>3. \A i \in DOMAIN chapters' : Within(chapters'[i])
      BY <1>0, <3>1 DEF LimitInv
    <3>. QED BY <3>2, <3>3 DEF LimitInv, Within
  <2>2. CASE ~ShouldSplit(chapter, f)
    <3>1. chapters' = chapters /\ chapter' = Add(chapter, f, n, number)
      BY <2>0, <2>2 DEF Split
    <3>2. Within(chapter')
      BY <1>0, <2>0, <2>2, <3>1, AddWithin DEF LimitInv, BlankInv
    <3>. QED BY <3>1, <3>2 DEF LimitInv, Within
  <2>. QED BY <2>1, <2>2
<1>2. CASE EndOfSource
  <2>1. CASE UNCHANGED <<chapters, chapter>>
    BY <2>1 DEF LimitInv, Within
  <2>2. CASE chapters' = Append(chapters, chapter) /\ chapter' = NewChapter
    <3>1. \A i \in DOMAIN chapters' : Within(chapters'[i])
      BY <1>0, <2>2 DEF LimitInv
    <3>. QED BY <2>2, <3>1, NewWithin DEF LimitInv, Within
  <2>. QED BY <1>2, <2>1, <2>2 DEF EndOfSource
<1>3. CASE Keeps
  BY <1>3 DEF Keeps, LimitInv, Within
<1>. QED BY <1>1, <1>2, <1>3, Cases

\* For every entry limit and byte limit of at least one, and every source, no
\* chapter exceeds them but by a single fragment.
THEOREM ChaptersLimits == Spec => []LimitsKept
<1>1. Init => LimitInv
  BY NewWithin DEF Init, LimitInv
<1>2. TypeInv /\ LimitInv => LimitsKept
  BY DEF TypeInv, TypeOK, LimitInv, LimitsKept, Written, Within
<1>. QED BY <1>1, <1>2, TypeInit, TypeStep, BlankInit, BlankStep, LimitStep, PTL DEF Spec

-----------------------------------------------------------------------------
(***************************************************************************)
(* Nothing is lost between the source and the chapters.                    *)
(***************************************************************************)

\* The ordinal of the last record that the chapters of w hold.
Upto(w) == IF w = <<>> THEN 0 ELSE w[Len(w)].from + w[Len(w)].records - 1

Consecutive(w) ==
  \A i \in DOMAIN w :
    /\ w[i].records > 0
    /\ w[i].from = IF i = 1 THEN 1 ELSE w[i - 1].from + w[i - 1].records

LEMMA UptoType ==
  ASSUME NEW w \in Seq(Chapter), Consecutive(w)
  PROVE  Upto(w) \in Nat
<1>1. CASE w = <<>>
  BY <1>1 DEF Upto
<1>2. CASE w # <<>>
  <2>1. Len(w) \in DOMAIN w /\ w[Len(w)] \in Chapter
    BY <1>2
  <2>2. w[Len(w)].from \in Nat /\ w[Len(w)].records \in Nat /\ w[Len(w)].records > 0
    BY <2>1 DEF Consecutive, Chapter
  <2>. QED BY <1>2, <2>2 DEF Upto
<1>. QED BY <1>1, <1>2

\* One more chapter continues the run exactly if it begins where the run ends.
LEMMA Continues ==
  ASSUME NEW w \in Seq(Chapter), NEW c \in Chapter
  PROVE  /\ Upto(Append(w, c)) = c.from + c.records - 1
         /\ Consecutive(Append(w, c)) <=>
              Consecutive(w) /\ c.records > 0 /\ c.from = Upto(w) + 1
<1> DEFINE a == Append(w, c)
           Links(s, i) == /\ s[i].records > 0
                          /\ s[i].from = IF i = 1 THEN 1 ELSE s[i - 1].from + s[i - 1].records
<1>1. /\ Len(w) \in Nat /\ DOMAIN w = 1..Len(w) /\ DOMAIN a = 1..(Len(w) + 1)
      /\ Len(a) = Len(w) + 1 /\ a # <<>> /\ a[Len(w) + 1] = c
      /\ \A i \in 1..Len(w) : a[i] = w[i]
  OBVIOUS
<1>2. Upto(a) = c.from + c.records - 1
  BY <1>1 DEF Upto
<1>3. ASSUME NEW i \in 1..Len(w)
      PROVE  Links(a, i) <=> Links(w, i)
  <2>1. CASE i = 1
    BY <1>1, <2>1
  <2>2. CASE i # 1
    <3>1. i - 1 \in 1..Len(w)
      BY <1>1, <2>2
    <3>. QED BY <1>1, <2>2, <3>1
  <2>. QED BY <2>1, <2>2
<1>4. Links(a, Len(w) + 1) <=> c.records > 0 /\ c.from = Upto(w) + 1
  <2>1. CASE w = <<>>
    BY <1>1, <2>1 DEF Upto
  <2>2. CASE w # <<>>
    <3>0. Len(w) \in 1..Len(w) /\ w[Len(w)] \in Chapter
      BY <2>2
    <3>1. Len(w) > 0 /\ Len(w) + 1 # 1 /\ Len(w) + 1 - 1 = Len(w) /\ a[Len(w)] = w[Len(w)]
      BY <1>1, <3>0
    <3>2. w[Len(w)] \in Chapter
      BY <3>0
    <3>3. w[Len(w)].from \in Nat /\ w[Len(w)].records \in Nat
      BY <3>2 DEF Chapter
    <3>4. Links(a, Len(w) + 1) <=>
            c.records > 0 /\ c.from = w[Len(w)].from + w[Len(w)].records
      <4> DEFINE k == Len(w) + 1
      <4> HIDE DEF a
      <4>1. k # 1 /\ a[k] = c /\ k - 1 = Len(w)
        BY <1>1, <3>1
      <4> HIDE DEF k
      <4>2. Links(a, k) <=> c.records > 0 /\ c.from = w[Len(w)].from + w[Len(w)].records
        BY <3>1, <4>1
      <4>. QED BY <4>2 DEF k
    <3>5. Upto(w) + 1 = w[Len(w)].from + w[Len(w)].records
      BY <2>2, <3>3 DEF Upto
    <3>. QED BY <3>4, <3>5
  <2>. QED BY <2>1, <2>2
<1>5. Consecutive(a) <=> \A i \in 1..(Len(w) + 1) : Links(a, i)
  BY <1>1 DEF Consecutive
<1>6. Consecutive(w) <=> \A i \in 1..Len(w) : Links(w, i)
  BY <1>1 DEF Consecutive
<1>7. \A i \in 1..(Len(w) + 1) : i \in 1..Len(w) \/ i = Len(w) + 1
  BY <1>1
<1>8. 1..Len(w) \subseteq 1..(Len(w) + 1) /\ Len(w) + 1 \in 1..(Len(w) + 1)
  BY <1>1
<1> HIDE DEF Links, a
<1>9. (\A i \in 1..(Len(w) + 1) : Links(a, i)) <=>
        (\A i \in 1..Len(w) : Links(w, i)) /\ Links(a, Len(w) + 1)
  BY <1>3, <1>7, <1>8
<1>10. Consecutive(a) <=> Consecutive(w) /\ c.records > 0 /\ c.from = Upto(w) + 1
  BY <1>4, <1>5, <1>6, <1>9
<1>. QED BY <1>2, <1>10 DEF a

LEMMA Restated ==
  RecordsConserved <=> Consecutive(Written) /\ read = buffer.records + Upto(Written)
BY DEF RecordsConserved, Consecutive, Upto

LEMMA WrittenType == TypeInv => Written \in Seq(Chapter)
BY DEF TypeInv, TypeOK, Written

\* A fragment becomes the head of a new chapter or the end of the current one.
LEMMA WriteConserves ==
  ASSUME TypeInv, BlankInv, RecordsConserved,
         NEW f \in Fragments, NEW n \in Nat, NEW number \in Nat, Writes(f, n, number),
         chapter' \in Chapter
  PROVE  RecordsConserved'
<1>0. /\ chapter \in Chapter /\ chapters \in Seq(Chapter) /\ Written \in Seq(Chapter)
      /\ read \in Nat /\ buffer.records \in Nat
  BY WrittenType, BoundsAssumption DEF TypeInv, TypeOK
<1>1. Consecutive(Written) /\ read = buffer.records + Upto(Written) /\ Upto(Written) \in Nat
  BY <1>0, Restated, UptoType
<1>2. 0 < n /\ read' = read + 1 /\ n = buffer.records + 1 /\ buffer'.records = 0
  BY DEF Writes
<1>3. read' - n = Upto(Written) /\ read' = Upto(Written) + n
  BY <1>0, <1>1, <1>2
<1>4. ASSUME Written = chapters', chapter' = Add(NewChapter, f, n, number)
      PROVE  RecordsConserved'
  <2>1. chapter'.records = n /\ chapter'.records > 0 /\ chapter'.from = Upto(Written) + 1
    BY <1>2, <1>3, <1>4, AddFacts, NewChapterType DEF NewChapter
  <2>2. Written' = Append(Written, chapter')
    BY <1>4, <2>1 DEF Written
  <2>3. Consecutive(Written') /\ Upto(Written') = Upto(Written) + n
    BY <1>0, <1>1, <2>1, <2>2, Continues
  <2>4. read' = buffer'.records + Upto(Written')
    BY <1>0, <1>1, <1>2, <1>3, <2>3
  <2>. QED BY <2>3, <2>4 DEF RecordsConserved, Consecutive, Upto
<1>5. CASE ShouldSplit(chapter, f)
  <2>1. chapters' = Append(chapters, chapter) /\ chapter' = Add(NewChapter, f, n, number)
    BY <1>5 DEF Writes, Split
  <2>2. Written = chapters'
    BY <1>5, <2>1 DEF ShouldSplit, Written
  <2>. QED BY <1>4, <2>1, <2>2
<1>6. CASE ~ShouldSplit(chapter, f) /\ chapter.records = 0
  <2>1. chapters' = chapters /\ chapter' = Add(NewChapter, f, n, number)
    BY <1>6 DEF Writes, Split, BlankInv
  <2>2. Written = chapters'
    BY <1>6, <2>1 DEF Written
  <2>. QED BY <1>4, <2>1, <2>2
<1>7. CASE ~ShouldSplit(chapter, f) /\ chapter.records > 0
  <2>1. chapters' = chapters /\ chapter' = Add(chapter, f, n, number)
    BY <1>7 DEF Writes, Split
  <2>2. Written = Append(chapters, chapter)
    BY <1>7 DEF Written
  <2>3. /\ chapter'.records = chapter.records + n /\ chapter'.records > 0
        /\ chapter'.from = chapter.from
    <3>1. chapter.fragments # 0 /\ chapter.records \in Nat
      BY <1>0, <1>7 DEF BlankInv, Chapter
    <3>2. chapter'.records = chapter.records + n /\ chapter'.records > 0
      BY <1>0, <1>2, <2>1, AddFacts
    <3>3. chapter'.from = chapter.from
      BY <2>1, <3>1 DEF Add
    <3>. QED BY <3>2, <3>3
  <2>4. Written' = Append(chapters, chapter')
    BY <2>1, <2>3 DEF Written
  <2>5. Consecutive(chapters) /\ chapter.from = Upto(chapters) + 1
        /\ Upto(Written) = chapter.from + chapter.records - 1
    BY <1>0, <1>1, <2>2, Continues
  <2>6. Consecutive(Written') /\ Upto(Written') = chapter.from + (chapter.records + n) - 1
    BY <1>0, <2>3, <2>4, <2>5, Continues
  <2>7. chapter.from \in Nat /\ chapter.records \in Nat
    BY <1>0 DEF Chapter
  <2>8. read' = buffer'.records + Upto(Written')
    <3>1. Upto(Written') = Upto(Written) + n
      BY <2>5, <2>6, <2>7
    <3>. QED BY <1>1, <1>2, <1>3, <3>1
  <2>. QED BY <2>6, <2>8 DEF RecordsConserved, Consecutive, Upto
<1>8. chapter.records = 0 \/ chapter.records > 0
  BY <1>0 DEF Chapter
<1>. QED BY <1>5, <1>6, <1>7, <1>8

LEMMA ConserveStep ==
  TypeInv /\ TypeInv' /\ BlankInv /\ RecordsConserved /\ [Next]_vars => RecordsConserved'
<1> SUFFICES ASSUME TypeInv, TypeInv', BlankInv, RecordsConserved, [Next]_vars
             PROVE  RecordsConserved'
  OBVIOUS
<1>0. chapter \in Chapter /\ chapter' \in Chapter /\ read \in Nat /\ buffer.records \in Nat
  BY BoundsAssumption DEF TypeInv, TypeOK
<1>1. ASSUME NEW f \in Fragments, NEW n \in Nat, NEW number \in Nat, Writes(f, n, number)
      PROVE  RecordsConserved'
  BY <1>0, <1>1, WriteConserves
<1>2. CASE EndOfSource
  <2>1. Written' = Written
    <3>1. CASE UNCHANGED <<chapters, chapter>>
      BY <3>1 DEF Written
    <3>2. CASE outcome' = "built" /\ chapters' = Append(chapters, chapter) /\ chapter' = NewChapter
      <4>1. entries # 0 /\ outcome = "reading"
        BY <1>2, <3>2 DEF EndOfSource
      <4>2. chapter.records > 0
        BY <1>0, <4>1 DEF BlankInv, Chapter
      <4>. QED BY <3>2, <4>2 DEF Written, NewChapter
    <3>. QED BY <1>2, <3>1, <3>2 DEF EndOfSource
  <2>2. read' = read /\ buffer' = buffer
    BY <1>2 DEF EndOfSource
  <2>. QED BY <2>1, <2>2 DEF RecordsConserved
<1>3. CASE Keeps /\ \/ read' = read + 1 /\ buffer'.records = buffer.records + 1
                    \/ read' = read /\ buffer' = buffer
  <2>1. Written' = Written
    BY <1>3 DEF Keeps, Written
  <2>2. Consecutive(Written) /\ read = buffer.records + Upto(Written) /\ Upto(Written) \in Nat
    BY Restated, WrittenType, UptoType
  <2>3. read' = buffer'.records + Upto(Written)
    BY <1>0, <1>3, <2>2
  <2>. QED BY <2>1, <2>2, <2>3 DEF RecordsConserved, Consecutive, Upto
<1>. QED BY <1>1, <1>2, <1>3, Cases

\* For every source: each record read is in exactly one chapter, in the order
\* of the source, or in the entry that is still being collected.
THEOREM ChaptersConserve == Spec => []RecordsConserved
<1>1. Init => RecordsConserved
  BY DEF Init, RecordsConserved, Written, NewChapter, NoBuffer
<1>. QED BY <1>1, TypeInit, TypeStep, BlankInit, BlankStep, ConserveStep, PTL DEF Spec

-----------------------------------------------------------------------------
(***************************************************************************)
(* Chapters end where they must.                                           *)
(***************************************************************************)

\* The fragment f did not fit the chapter c.
NoRoom(c, f) ==
  \/ f.entry /\ c.entries >= EntriesPerChapter
  \/ c.bytes + f.size > ChapterBytes

Needed(w) == \A i \in DOMAIN w \ {1} : NoRoom(w[i - 1], w[i].head)

LEMMA NeededAppend ==
  ASSUME NEW w \in Seq(Chapter), NEW c \in Chapter, Needed(w),
         w # <<>> => NoRoom(w[Len(w)], c.head)
  PROVE  Needed(Append(w, c))
<1> DEFINE a == Append(w, c)
<1>1. /\ Len(w) \in Nat /\ DOMAIN w = 1..Len(w) /\ DOMAIN a = 1..(Len(w) + 1)
      /\ a[Len(w) + 1] = c /\ \A i \in 1..Len(w) : a[i] = w[i]
  OBVIOUS
<1> HIDE DEF a
<1>2. ASSUME NEW i \in 1..Len(w), i # 1 PROVE NoRoom(a[i - 1], a[i].head)
  <2>1. i - 1 \in 1..Len(w)
    BY <1>1, <1>2
  <2>. QED BY <1>1, <1>2, <2>1 DEF Needed
<1>3. ASSUME Len(w) # 0 PROVE NoRoom(a[Len(w)], a[Len(w) + 1].head)
  <2>1. Len(w) \in 1..Len(w) /\ w # <<>>
    BY <1>1, <1>3
  <2>2. a[Len(w)] = w[Len(w)]
    BY <1>1, <2>1
  <2>. QED BY <1>1, <2>1, <2>2
<1>4. ASSUME NEW i \in DOMAIN a \ {1} PROVE NoRoom(a[i - 1], a[i].head)
  <2>1. CASE i \in 1..Len(w)
    BY <1>2, <2>1
  <2>2. CASE i = Len(w) + 1
    <3>1. Len(w) # 0 /\ i - 1 = Len(w)
      BY <1>1, <2>2
    <3>. QED BY <1>3, <2>2, <3>1
  <2>. QED BY <1>1, <2>1, <2>2
<1>. QED BY <1>4 DEF Needed, a

\* The chapters finished, and the current one against the last of them.
SplitInv ==
  /\ Needed(chapters)
  /\ chapters # <<>> /\ chapter.records > 0 => NoRoom(chapters[Len(chapters)], chapter.head)

LEMMA SplitStep == TypeInv /\ TypeInv' /\ BlankInv /\ SplitInv /\ [Next]_vars => SplitInv'
<1> SUFFICES ASSUME TypeInv, TypeInv', BlankInv, SplitInv, [Next]_vars PROVE SplitInv'
  OBVIOUS
<1>0. chapter \in Chapter /\ chapters \in Seq(Chapter) /\ chapter' \in Chapter
  BY DEF TypeInv, TypeOK
<1>1. ASSUME NEW f \in Fragments, NEW n \in Nat, NEW number \in Nat, Writes(f, n, number)
      PROVE  SplitInv'
  <2>1. CASE ShouldSplit(chapter, f)
    <3>1. chapters' = Append(chapters, chapter) /\ chapter' = Add(NewChapter, f, n, number)
      BY <1>1, <2>1 DEF Writes, Split
    <3>2. Needed(chapters') /\ chapters'[Len(chapters')] = chapter
      BY <1>0, <2>1, <3>1, NeededAppend DEF SplitInv, ShouldSplit
    <3>3. chapter'.head = f
      BY <3>1 DEF Add, NewChapter
    <3>4. NoRoom(chapter, f)
      BY <2>1 DEF ShouldSplit, NoRoom
    <3>. QED BY <3>2, <3>3, <3>4 DEF SplitInv, Needed, NoRoom
  <2>2. CASE ~ShouldSplit(chapter, f)
    <3>1. chapters' = chapters /\ chapter' = Add(chapter, f, n, number)
      BY <1>1, <2>2 DEF Writes, Split
    <3>2. CASE chapter.records > 0
      <4>1. chapter'.head = chapter.head
        BY <1>0, <3>1, <3>2 DEF Add, BlankInv, Chapter
      <4>. QED BY <3>1, <3>2, <4>1 DEF SplitInv, Needed, NoRoom
    <3>3. CASE chapter.records = 0
      <4>1. chapters = <<>>
        BY <1>1, <3>3 DEF Writes, BlankInv
      <4>. QED BY <3>1, <4>1 DEF SplitInv, Needed, NoRoom
    <3>. QED BY <1>0, <3>2, <3>3 DEF Chapter
  <2>. QED BY <2>1, <2>2
<1>2. CASE EndOfSource
  <2>1. CASE UNCHANGED <<chapters, chapter>>
    BY <2>1 DEF SplitInv, Needed, NoRoom
  <2>2. CASE outcome' = "built" /\ chapters' = Append(chapters, chapter) /\ chapter' = NewChapter
    <3>1. chapter.records > 0
      BY <1>0, <1>2, <2>2 DEF EndOfSource, BlankInv, Chapter
    <3>2. Needed(chapters')
      BY <1>0, <2>2, <3>1, NeededAppend DEF SplitInv
    <3>3. chapter'.records = 0
      BY <2>2 DEF NewChapter
    <3>. QED BY <3>2, <3>3 DEF SplitInv, Needed, NoRoom
  <2>. QED BY <1>2, <2>1, <2>2 DEF EndOfSource
<1>3. CASE Keeps
  BY <1>3 DEF Keeps, SplitInv, Needed, NoRoom
<1>. QED BY <1>1, <1>2, <1>3, Cases

\* For all limits and sources, a chapter is only begun when its first fragment did
\* not fit the one before.
THEOREM ChaptersNeeded == Spec => []NoNeedlessSplit
<1>1. Init => SplitInv
  BY DEF Init, SplitInv, Needed
<1>2. ASSUME TypeInv, SplitInv PROVE NoNeedlessSplit
  <2>1. chapter \in Chapter /\ chapters \in Seq(Chapter)
    BY <1>2 DEF TypeInv, TypeOK
  <2>2. Needed(Written)
    BY <1>2, <2>1, NeededAppend DEF SplitInv, Written
  <2>. QED BY <2>2 DEF NoNeedlessSplit, Needed, NoRoom
<1>3. TypeInv /\ SplitInv => NoNeedlessSplit
  BY <1>2
<1>. QED BY <1>1, <1>3, TypeInit, TypeStep, BlankInit, BlankStep, SplitStep, PTL DEF Spec

-----------------------------------------------------------------------------
(***************************************************************************)
(* The labels of the table of contents.                                    *)
(***************************************************************************)

Labelled(w) == {i \in DOMAIN w : w[i].entries > 0}

\* The label of chapter i of w, whose entries are n in all.
LabelOf(w, n, i) ==
  /\ w[i].last = w[i].first + w[i].entries - 1
  /\ \A j \in Labelled(w) :
       (j > i /\ \A k \in Labelled(w) : ~(i < k /\ k < j)) => w[j].first = w[i].last + 1
  /\ (\A k \in Labelled(w) : k >= i) => w[i].first = 1
  /\ (\A k \in Labelled(w) : k <= i) => w[i].last = n

\* The labels of w run on from 1 to n.
Run(w, n) ==
  /\ \A i \in DOMAIN w : w[i].entries = 0 => w[i].first = 0 /\ w[i].last = 0
  /\ \A i \in Labelled(w) : LabelOf(w, n, i)
  /\ Labelled(w) = {} => n = 0

LEMMA AppendedLabels ==
  ASSUME NEW w \in Seq(Chapter), NEW c \in Chapter
  PROVE  /\ Len(w) \in Nat
         /\ DOMAIN Append(w, c) = DOMAIN w \cup {Len(w) + 1}
         /\ Append(w, c)[Len(w) + 1] = c
         /\ \A i \in DOMAIN w : Append(w, c)[i] = w[i] /\ i \in Nat /\ i < Len(w) + 1
         /\ c.entries > 0 => Labelled(Append(w, c)) = Labelled(w) \cup {Len(w) + 1}
         /\ ~(c.entries > 0) => Labelled(Append(w, c)) = Labelled(w)
<1>1. /\ Len(w) \in Nat /\ DOMAIN w = 1..Len(w)
      /\ DOMAIN Append(w, c) = DOMAIN w \cup {Len(w) + 1}
      /\ Append(w, c)[Len(w) + 1] = c
      /\ \A i \in DOMAIN w : Append(w, c)[i] = w[i] /\ i \in Nat /\ i < Len(w) + 1
  OBVIOUS
<1>. QED BY <1>1 DEF Labelled

\* A chapter without entries has no label, and disturbs none.
LEMMA RunBlank ==
  ASSUME NEW w \in Seq(Chapter), NEW c \in Chapter, NEW n, Run(w, n),
         c.entries = 0, c.first = 0, c.last = 0
  PROVE  Run(Append(w, c), n)
<1> DEFINE a == Append(w, c)
<1>1. /\ Len(w) \in Nat /\ DOMAIN a = DOMAIN w \cup {Len(w) + 1} /\ a[Len(w) + 1] = c
      /\ \A i \in DOMAIN w : a[i] = w[i]
      /\ Labelled(a) = Labelled(w)
  <2>1. ~(c.entries > 0)
    OBVIOUS
  <2>. QED BY <2>1, AppendedLabels
<1> HIDE DEF a
<1>2. \A i \in Labelled(a) : a[i] = w[i]
  BY <1>1 DEF Labelled
<1>3. \A i \in Labelled(a) : LabelOf(a, n, i)
  BY <1>1, <1>2 DEF Run, LabelOf
<1>. QED BY <1>1, <1>3 DEF Run, a

\* A chapter that begins with the next entry continues the run.
LEMMA RunNext ==
  ASSUME NEW w \in Seq(Chapter), NEW c \in Chapter, NEW n \in Nat, Run(w, n),
         c.entries > 0, c.first = n + 1, c.last = c.first + c.entries - 1
  PROVE  Run(Append(w, c), c.last)
<1> DEFINE a == Append(w, c)
           p == Len(w) + 1
<1>1. /\ p \in Nat /\ DOMAIN a = DOMAIN w \cup {p} /\ a[p] = c
      /\ \A i \in DOMAIN w : a[i] = w[i] /\ i \in Nat /\ i < p
      /\ Labelled(a) = Labelled(w) \cup {p}
  BY AppendedLabels
<1> HIDE DEF a, p
<1>2. \A i \in Labelled(w) : a[i] = w[i] /\ i \in Nat /\ i < p
  BY <1>1 DEF Labelled
<1>3. ASSUME NEW i \in Labelled(w) PROVE LabelOf(a, c.last, i)
  <2>1. LabelOf(w, n, i)
    BY <1>3 DEF Run
  <2>2. ASSUME NEW j \in Labelled(a), j > i, \A k \in Labelled(a) : ~(i < k /\ k < j)
        PROVE  a[j].first = a[i].last + 1
    <3>1. CASE j = p
      <4>1. ASSUME NEW k \in Labelled(w) PROVE k <= i
        <5>1. k \in Nat /\ i \in Nat /\ k < p
          BY <1>2
        <5>2. ~(i < k /\ k < p)
          BY <1>1, <2>2, <3>1
        <5>. QED BY <5>1, <5>2
      <4>2. w[i].last = n
        BY <2>1, <4>1 DEF LabelOf
      <4>. QED BY <1>1, <1>2, <3>1, <4>2
    <3>2. CASE j \in Labelled(w)
      <4>1. w[j].first = w[i].last + 1
        BY <1>1, <2>1, <2>2, <3>2 DEF LabelOf
      <4>. QED BY <1>2, <3>2, <4>1
    <3>. QED BY <1>1, <3>1, <3>2
  <2>3. (\A k \in Labelled(a) : k >= i) => a[i].first = 1
    BY <1>1, <1>2, <2>1 DEF LabelOf
  <2>4. ~(\A k \in Labelled(a) : k <= i)
    BY <1>1, <1>2
  <2>5. a[i].last = a[i].first + a[i].entries - 1
    BY <1>2, <2>1 DEF LabelOf
  <2>. QED BY <2>2, <2>3, <2>4, <2>5 DEF LabelOf
<1>4. LabelOf(a, c.last, p)
  <2>1. \A k \in Labelled(a) : k <= p
    BY <1>1, <1>2
  <2>2. (\A k \in Labelled(a) : k >= p) => a[p].first = 1
    <3>1. SUFFICES ASSUME \A k \in Labelled(a) : k >= p PROVE a[p].first = 1
      OBVIOUS
    <3>2. Labelled(w) = {}
      BY <1>1, <1>2, <3>1
    <3>. QED BY <1>1, <3>2 DEF Run
  <2>3. \A j \in Labelled(a) : ~(j > p)
    BY <1>1, <1>2
  <2>. QED BY <1>1, <2>1, <2>2, <2>3 DEF LabelOf
<1>5. \A i \in DOMAIN a : a[i].entries = 0 => a[i].first = 0 /\ a[i].last = 0
  BY <1>1 DEF Run
<1>. QED BY <1>1, <1>3, <1>4, <1>5 DEF Run, a

\* The chapters finished are labelled up to the first entry of the current one.
LabelInv ==
  /\ Run(chapters, IF chapter.entries = 0 THEN entries ELSE chapter.first - 1)
  /\ chapter.entries = 0 => chapter.first = 0 /\ chapter.last = 0
  /\ chapter.entries > 0 =>
       /\ chapter.first > 0
       /\ chapter.last = chapter.first + chapter.entries - 1
       /\ chapter.last = entries

LEMMA RunOn ==
  ASSUME TypeInv, LabelInv
  PROVE  Run(Append(chapters, chapter), entries)
<1>0. chapter \in Chapter /\ chapters \in Seq(Chapter) /\ entries \in Nat
  BY BoundsAssumption DEF TypeInv, TypeOK
<1>1. CASE chapter.entries = 0
  BY <1>0, <1>1, RunBlank DEF LabelInv
<1>2. CASE chapter.entries > 0
  <2>1. chapter.first - 1 \in Nat /\ chapter.first = (chapter.first - 1) + 1
    BY <1>0, <1>2 DEF LabelInv, Chapter
  <2>2. /\ Run(chapters, chapter.first - 1) /\ chapter.last = entries
        /\ chapter.last = chapter.first + chapter.entries - 1
    BY <1>2 DEF LabelInv
  <2> DEFINE n == chapter.first - 1
  <2>3. n \in Nat /\ chapter.first = n + 1 /\ Run(chapters, n)
    BY <2>1, <2>2
  <2> HIDE DEF n
  <2>4. Run(Append(chapters, chapter), chapter.last)
    BY <1>0, <1>2, <2>2, <2>3, RunNext
  <2>. QED BY <2>2, <2>4
<1>. QED BY <1>0, <1>1, <1>2 DEF Chapter

LEMMA LabelStep ==
  TypeInv /\ TypeInv' /\ BlankInv /\ LabelInv /\ [Next]_vars => LabelInv'
<1> SUFFICES ASSUME TypeInv, TypeInv', BlankInv, LabelInv, [Next]_vars PROVE LabelInv'
  OBVIOUS
<1>0. chapter \in Chapter /\ chapters \in Seq(Chapter) /\ entries \in Nat
  BY BoundsAssumption DEF TypeInv, TypeOK
<1>1. ASSUME NEW f \in Fragments, NEW n \in Nat, NEW number \in Nat, Writes(f, n, number),
             IF f.entry THEN entries' = entries + 1 /\ number = entries'
                        ELSE entries' = entries
      PROVE  LabelInv'
  <2>0. f.entry \in BOOLEAN
    BY DEF Fragments
  <2>1. CASE ShouldSplit(chapter, f)
    <3>1. chapters' = Append(chapters, chapter) /\ chapter' = Add(NewChapter, f, n, number)
      BY <1>1, <2>1 DEF Writes, Split
    <3>2. Run(chapters', entries)
      BY <3>1, RunOn
    <3>3. CASE f.entry
      <4>1. chapter'.entries = 1 /\ chapter'.first = entries + 1 /\ chapter'.last = entries + 1
        BY <1>1, <3>1, <3>3 DEF Add, NewChapter
      <4>2. chapter'.first - 1 = entries /\ entries' = entries + 1
        BY <1>0, <1>1, <3>3, <4>1
      <4>. QED BY <1>0, <3>2, <4>1, <4>2 DEF LabelInv
    <3>4. CASE ~f.entry
      <4>1. /\ chapter'.entries = 0 /\ chapter'.first = 0 /\ chapter'.last = 0
            /\ entries' = entries
        BY <1>1, <3>1, <3>4 DEF Add, NewChapter
      <4>. QED BY <3>2, <4>1 DEF LabelInv
    <3>. QED BY <2>0, <3>3, <3>4
  <2>2. CASE ~ShouldSplit(chapter, f)
    <3>1. chapters' = chapters /\ chapter' = Add(chapter, f, n, number)
      BY <1>1, <2>2 DEF Writes, Split
    <3>2. CASE f.entry
      <4>1. /\ chapter'.entries = chapter.entries + 1
            /\ chapter'.first = IF chapter.first = 0 THEN entries + 1 ELSE chapter.first
            /\ chapter'.last = entries + 1 /\ entries' = entries + 1
        BY <1>1, <3>1, <3>2 DEF Add
      <4>2. CASE chapter.entries = 0
        <5>1. Run(chapters, entries) /\ chapter.first = 0
          BY <4>2 DEF LabelInv
        <5>2. /\ chapter'.entries = 1 /\ chapter'.first = entries + 1
              /\ chapter'.first - 1 = entries
          BY <1>0, <4>1, <4>2, <5>1
        <5>. QED BY <1>0, <3>1, <4>1, <5>1, <5>2 DEF LabelInv
      <4>3. CASE chapter.entries > 0
        <5>1. /\ Run(chapters, chapter.first - 1) /\ chapter.first > 0
              /\ chapter.last = chapter.first + chapter.entries - 1 /\ chapter.last = entries
          BY <4>3 DEF LabelInv
        <5>2. chapter'.first = chapter.first /\ chapter'.entries > 0
          BY <1>0, <4>1, <4>3, <5>1 DEF Chapter
        <5>3. chapter'.last = chapter'.first + chapter'.entries - 1
          BY <1>0, <4>1, <5>1, <5>2 DEF Chapter
        <5>. QED BY <3>1, <4>1, <5>1, <5>2, <5>3 DEF LabelInv
      <4>. QED BY <1>0, <4>2, <4>3 DEF Chapter
    <3>3. CASE ~f.entry
      <4>1. /\ chapter'.entries = chapter.entries /\ chapter'.first = chapter.first
            /\ chapter'.last = chapter.last /\ entries' = entries
        BY <1>1, <3>1, <3>3 DEF Add
      <4>. QED BY <3>1, <4>1 DEF LabelInv
    <3>. QED BY <2>0, <3>2, <3>3
  <2>. QED BY <2>1, <2>2
<1>2. CASE EndOfSource
  <2>1. CASE UNCHANGED <<chapters, chapter>>
    BY <1>2, <2>1 DEF EndOfSource, LabelInv
  <2>2. CASE chapters' = Append(chapters, chapter) /\ chapter' = NewChapter
    <3>1. chapter'.entries = 0 /\ chapter'.first = 0 /\ chapter'.last = 0
      BY <2>2 DEF NewChapter
    <3>2. Run(chapters', entries) /\ entries' = entries
      BY <1>2, <2>2, RunOn DEF EndOfSource
    <3>. QED BY <3>1, <3>2 DEF LabelInv
  <2>. QED BY <1>2, <2>1, <2>2 DEF EndOfSource
<1>3. CASE Keeps /\ entries' = entries
  BY <1>3 DEF Keeps, LabelInv
<1>. QED BY <1>1, <1>2, <1>3, Cases

\* For every source and all limits, the entry numbers that chapters are labelled
\* with are those of their entries and run on without a gap to the last one.
THEOREM ChaptersLabels == Spec => []EntryLabelsRunOn
<1>1. Init => LabelInv
  <2>1. Run(<<>>, 0)
    BY DEF Run, Labelled
  <2>. QED BY <2>1 DEF Init, LabelInv, NewChapter
<1>2. ASSUME TypeInv, BlankInv, LabelInv PROVE EntryLabelsRunOn
  <2>1. Run(Written, entries)
    <3>1. CASE chapter.records > 0
      BY <1>2, <3>1, RunOn DEF Written
    <3>2. CASE ~(chapter.records > 0)
      <4>1. chapter = NewChapter
        BY <1>2, <3>2 DEF TypeInv, TypeOK, Chapter, BlankInv
      <4>2. chapter.entries = 0
        BY <4>1 DEF NewChapter
      <4>. QED BY <1>2, <3>2, <4>2 DEF LabelInv, Written
    <3>. QED BY <3>1, <3>2
  <2>. QED BY <2>1 DEF Run, LabelOf, Labelled, EntryLabelsRunOn
<1>3. TypeInv /\ BlankInv /\ LabelInv => EntryLabelsRunOn
  BY <1>2
<1>. QED BY <1>1, <1>3, TypeInit, TypeStep, BlankInit, BlankStep, LabelStep, PTL DEF Spec
=============================================================================
