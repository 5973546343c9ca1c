--------------------------- MODULE ReaderProofs ---------------------------
(***************************************************************************)
(* Theorems of SourceReader and TwoReaders, for sources of any length and  *)
(* any nesting.                                                            *)
(***************************************************************************)
EXTENDS TwoReaders, FiniteSetTheorems, FunctionTheorems, SequenceTheorems, TLAPS

(***************************************************************************)
(* Induction over the natural numbers. The induction theorems of the       *)
(* library take a predicate as an operator, which the provers cannot       *)
(* instantiate; for a set they follow from the least element.              *)
(***************************************************************************)

\* A set of natural numbers that is not empty has a least element.
LEMMA LeastNatural ==
  ASSUME NEW T \in SUBSET Nat, T # {}
  PROVE  \E x \in T : \A y \in T : x <= y
<1> DEFINE less == {p \in Nat \X Nat : p[1] < p[2]}
<1>1. IsWellFoundedOn(less, Nat)
  BY NatLessThanWellFounded DEF OpToRel
<1>2. PICK x \in T : \A y \in T : ~(<<y, x>> \in less)
  <2> HIDE DEF less
  <2>. QED BY <1>1, WFMin
<1>3. \A y \in T : <<y, x>> \in less <=> y < x
  OBVIOUS
<1>4. \A y \in T : x \in Nat /\ y \in Nat /\ ~(y < x)
  BY <1>2, <1>3
<1>. QED BY <1>4

\* A set that holds 0, and with a number the next one, holds every number.
LEMMA SetInduction ==
  ASSUME NEW S, 0 \in S, \A n \in Nat : n \in S => n + 1 \in S
  PROVE  Nat \subseteq S
<1> SUFFICES ASSUME Nat \ S # {} PROVE FALSE
  OBVIOUS
<1>1. PICK x \in Nat \ S : \A y \in Nat \ S : x <= y
  BY LeastNatural
<1>. QED BY <1>1

\* The same from a first number on, and up to a last one.
LEMMA IntervalInduction ==
  ASSUME NEW a \in Int, NEW b \in Int, NEW S, a \in S,
         \A n \in a..(b - 1) : n \in S => n + 1 \in S
  PROVE  a..b \subseteq S
<1> DEFINE T == {n \in Nat : a + n <= b => a + n \in S}
<1>1. 0 \in T
  OBVIOUS
<1>2. \A n \in Nat : n \in T => n + 1 \in T
  OBVIOUS
<1>3. Nat \subseteq T
  <2> HIDE DEF T
  <2>. QED BY <1>1, <1>2, SetInduction
<1>4. ASSUME NEW k \in a..b PROVE k \in S
  <2>1. k - a \in T
    BY <1>3
  <2>. QED BY <2>1
<1>. QED BY <1>4

Texts == {r \in Records : r.kind \in {"text", "tail"}}
Tags == {r \in Records : r.kind \in {"start", "empty", "end"}}

\* The frames are numbered by depth; each but the innermost has a child open,
\* so has counted it and had its text flushed before it.
FramesFit ==
  \A i \in 1..Len(frames) :
    /\ frames[i].depth = i - 1
    /\ i < Len(frames) => frames[i].children > 0 /\ frames[i].text = {}

\* The innermost element had no child since the tag r.
TagFits(r) ==
  /\ r.kind = "start" => /\ frames # <<>>
                         /\ r.depth = Len(frames) - 1
                         /\ Innermost.children = 0
  /\ r.kind # "start" => /\ r.depth = Len(frames)
                         /\ frames # <<>> => Innermost.children > 0
  /\ frames # <<>> => Innermost.text = {}

\* The text t stands in the tree where the level of the stream says.
TextFits(t, level) ==
  \/ t.kind = "text" /\ given.kind = "start" /\ t.depth = level - 1
  \/ t.kind = "tail" /\ given.kind \in {"empty", "end"} /\ level > 0 /\ t.depth = level

\* An event leaves a text, a tag, or a text and a tag to hand out; only a tag
\* that could not be decoded leaves a text alone.
PendingFits ==
  \/ /\ pending = <<>>
     /\ frames # <<>> => \/ Innermost.children = 0 /\ given.kind = "start"
                         \/ Innermost.children > 0 /\ given.kind \in {"empty", "end"}
  \/ \E r \in Tags : pending = <<r>> /\ TagFits(r)
  \/ \E t \in Texts, r \in Tags :
       /\ pending = <<t, r>>
       /\ TagFits(r)
       /\ TextFits(t, LevelOf(frames, pending))
  \/ /\ outcome = "failed"
     /\ frames # <<>> => Innermost.text = {}
     /\ pending = <<>> \/ \E t \in Texts : pending = <<t>>

\* The ink of the records that wait, and of the text being collected.
InkOf(ps) == UNION {ps[i].value \ {0} : i \in {j \in 1..Len(ps) : ps[j] \in Texts}}
Waiting == InkOf(pending)
Held == IF frames = <<>> THEN {} ELSE Innermost.text \ {0}

InkFits ==
  /\ inked \subseteq 1..events
  /\ inked = told \cup Waiting \cup Held
  /\ \A a \in told, b \in Waiting \cup Held : a < b
  /\ outcome = "ended" => frames = <<>> /\ pending = <<>>

IInv == TypeOK /\ FramesFit /\ PendingFits /\ InkFits

-----------------------------------------------------------------------------
(***************************************************************************)
(* The helpers of the reader.                                              *)
(***************************************************************************)

LEMMA AppendPair ==
  ASSUME NEW S, NEW t \in S, NEW r \in S
  PROVE  Append(<<t>>, r) = <<t, r>>
<1> DEFINE a == Append(<<t>>, r)
           b == <<t, r>>
<1>1. a \in Seq(S) /\ b \in Seq(S)
  OBVIOUS
<1>2. Len(a) = 2 /\ Len(b) = 2 /\ \A i \in 1..2 : a[i] = b[i]
  OBVIOUS
<1> HIDE DEF a, b
<1>3. a = b
  BY <1>1, <1>2, SeqEqual
<1> QED BY <1>3 DEF a, b

\* What flush_current_text makes of the innermost frame.
LEMMA FlushedForm ==
  ASSUME frames \in Seq(Frames)
  PROVE  \/ Flushed = <<>> /\ Held = {}
         \/ /\ frames # <<>>
            /\ \E t \in Texts :
                 /\ Flushed = <<t>>
                 /\ t.value = Innermost.text /\ Ink(t.value) /\ t.name = Garbled
                 /\ Innermost.children = 0 => t.kind = "text" /\ t.depth = Innermost.depth
                 /\ Innermost.children # 0 => t.kind = "tail" /\ t.depth = Innermost.depth + 1
<1>1. CASE frames = <<>> \/ ~Ink(Innermost.text)
  BY <1>1 DEF Flushed, Held, Ink
<1>2. CASE frames # <<>> /\ Ink(Innermost.text)
  <2>1. Innermost \in Frames
    BY <1>2 DEF Innermost
  <2>2. CASE Innermost.children = 0
    <3> DEFINE t == Record("text", Innermost.depth, Garbled, Innermost.text)
    <3>1. t \in Texts
      BY <2>1 DEF Texts, Records, Record, Frames
    <3>2. Flushed = <<t>>
      BY <1>2, <2>2 DEF Flushed
    <3> QED BY <1>2, <2>2, <3>1, <3>2 DEF Record
  <2>3. CASE Innermost.children # 0
    <3> DEFINE t == Record("tail", Innermost.depth + 1, Garbled, Innermost.text)
    <3>1. t \in Texts
      BY <2>1 DEF Texts, Records, Record, Frames
    <3>2. Flushed = <<t>>
      BY <1>2, <2>3 DEF Flushed
    <3> QED BY <1>2, <2>3, <3>1, <3>2 DEF Record
  <2> QED BY <2>2, <2>3
<1> QED BY <1>1, <1>2

\* What before_child makes of the frames.
LEMMA BeforeChildForm ==
  ASSUME frames \in Seq(Frames)
  PROVE  /\ BeforeChild \in Seq(Frames)
         /\ Len(BeforeChild) = Len(frames)
         /\ \A i \in 1..Len(frames) :
              /\ BeforeChild[i].depth = frames[i].depth
              /\ i < Len(frames) => BeforeChild[i] = frames[i]
         /\ frames # <<>> =>
              /\ BeforeChild[Len(frames)].children > 0
              /\ BeforeChild[Len(frames)].text = {}
<1>1. CASE frames = <<>>
  BY <1>1 DEF BeforeChild
<1>2. CASE frames # <<>>
  <2> DEFINE n == Len(frames)
             f == [depth |-> frames[n].depth, children |-> frames[n].children + 1, text |-> {}]
  <2>1. n \in 1..Len(frames) /\ frames[n] \in Frames
    BY <1>2
  <2>2. f \in Frames /\ f.depth = frames[n].depth /\ f.children > 0 /\ f.text = {}
    <3>1. frames[n].depth \in Nat /\ frames[n].children + 1 \in Nat \ {0}
      BY <2>1 DEF Frames
    <3> QED BY <3>1 DEF Frames
  <2>3. BeforeChild = [frames EXCEPT ![n] = f]
    BY <1>2 DEF BeforeChild
  <2> HIDE DEF f
  <2> QED BY <1>2, <2>1, <2>2, <2>3
<1> QED BY <1>1, <1>2

\* The level of the stream, by the records that wait.
LEMMA LevelForm ==
  /\ \A fs : LevelOf(fs, <<>>) = Len(fs)
  /\ \A fs : \A t \in Texts : LevelOf(fs, <<t>>) = Len(fs)
  /\ \A fs : \A r \in Tags :
       LevelOf(fs, <<r>>) = IF r.kind = "start" THEN Len(fs) - 1
                            ELSE IF r.kind = "end" THEN Len(fs) + 1 ELSE Len(fs)
  /\ \A fs : \A t \in Texts, r \in Tags : LevelOf(fs, <<t, r>>) = LevelOf(fs, <<r>>)
<1> DEFINE Kinds(ps) == {ps[i].kind : i \in DOMAIN ps}
<1>1. Kinds(<<>>) = {}
  OBVIOUS
<1>2. \A r : Kinds(<<r>>) = {r.kind}
  BY \A r : DOMAIN <<r>> = {1}
<1>3. \A t, r : Kinds(<<t, r>>) = {t.kind, r.kind}
  BY \A t, r : DOMAIN <<t, r>> = {1, 2}
<1>4. \A t \in Texts : t.kind \notin {"start", "end"}
  BY DEF Texts
<1>5. \A fs, ps : LevelOf(fs, ps) = IF "start" \in Kinds(ps) THEN Len(fs) - 1
                                  ELSE IF "end" \in Kinds(ps) THEN Len(fs) + 1 ELSE Len(fs)
  BY DEF LevelOf
<1> HIDE DEF Kinds
<1>6. \A fs : LevelOf(fs, <<>>) = Len(fs)
  BY <1>1, <1>5
<1>7. \A fs : \A t \in Texts : LevelOf(fs, <<t>>) = Len(fs)
  BY <1>2, <1>4, <1>5
<1>8. \A fs : \A r \in Tags :
        LevelOf(fs, <<r>>) = IF r.kind = "start" THEN Len(fs) - 1
                             ELSE IF r.kind = "end" THEN Len(fs) + 1 ELSE Len(fs)
  BY <1>2, <1>5
<1>9. \A fs : \A t \in Texts, r \in Tags : LevelOf(fs, <<t, r>>) = LevelOf(fs, <<r>>)
  BY <1>2, <1>3, <1>4, <1>5
<1> QED BY <1>6, <1>7, <1>8, <1>9

\* The ink that waits, by the records that wait.
LEMMA WaitingForm ==
  /\ InkOf(<<>>) = {}
  /\ \A t \in Texts : InkOf(<<t>>) = t.value \ {0}
  /\ \A r \in Tags : InkOf(<<r>>) = {}
  /\ \A t \in Texts, r \in Tags : InkOf(<<t, r>>) = t.value \ {0}
<1> DEFINE At(ps) == {j \in 1..Len(ps) : ps[j] \in Texts}
<1>1. \A r \in Tags : r \notin Texts
  BY DEF Tags, Texts
<1>2. At(<<>>) = {}
  OBVIOUS
<1>3. \A t \in Texts : At(<<t>>) = {1} /\ <<t>>[1] = t
  OBVIOUS
<1>4. \A r \in Tags : At(<<r>>) = {}
  BY <1>1
<1>5. \A t \in Texts, r \in Tags : At(<<t, r>>) = {1} /\ <<t, r>>[1] = t
  BY <1>1
<1>6. \A ps : InkOf(ps) = UNION {ps[i].value \ {0} : i \in At(ps)}
  BY DEF InkOf
<1> HIDE DEF At
<1> QED BY <1>2, <1>3, <1>4, <1>5, <1>6

-----------------------------------------------------------------------------
(***************************************************************************)
(* The events.                                                             *)
(***************************************************************************)

\* When an event is read nothing waits, and the last record tells whether the
\* innermost element has had a child.
LEMMA Resting ==
  ASSUME IInv, Event
  PROVE  /\ frames # <<>> => /\ Innermost \in Frames
                             /\ Innermost.depth = Len(frames) - 1
                             /\ \/ Innermost.children = 0 /\ given.kind = "start"
                                \/ Innermost.children > 0 /\ given.kind \in {"empty", "end"}
         /\ inked = told \cup Held
         /\ events \in Nat /\ events' = events + 1 /\ events' \in 0..MaxEvents
<1>1. frames # <<>> => /\ Innermost \in Frames
                       /\ Innermost.depth = Len(frames) - 1
  BY DEF IInv, TypeOK, FramesFit, Innermost
<1>2. frames # <<>> => \/ Innermost.children = 0 /\ given.kind = "start"
                       \/ Innermost.children > 0 /\ given.kind \in {"empty", "end"}
  BY DEF IInv, PendingFits, Event
<1>3. Waiting = {}
  BY WaitingForm DEF Event, Waiting
<1>4. inked = told \cup Held
  BY <1>3 DEF IInv, InkFits
<1>5. events \in Nat /\ events' = events + 1 /\ events' \in 0..MaxEvents
  BY EventBounds DEF IInv, TypeOK, Event
<1> QED BY <1>1, <1>2, <1>4, <1>5

\* An event that ends in the tag r, and leaves an innermost frame without text.
LEMMA TagEvent ==
  ASSUME IInv, Event, NEW r \in Tags,
         pending' = Append(Flushed, r), frames' \in Seq(Frames), TagFits(r)',
         LevelOf(frames', <<r>>) = Len(frames),
         outcome' = outcome, inked' = inked
  PROVE  /\ TypeOK' /\ PendingFits' /\ InkFits'
         /\ LevelOf(frames, pending)' = Len(frames)
<1>1. frames \in Seq(Frames) /\ outcome = "reading" /\ told' = told /\ given' = given
  BY DEF IInv, TypeOK, Event
<1>2. Held' = {}
  BY DEF TagFits, Held
<1>3. \A a \in told, b \in Held : a < b
  BY DEF IInv, InkFits
<1>4. inked \subseteq 1..events'
  BY Resting DEF IInv, InkFits
<1>5. CASE Flushed = <<>> /\ Held = {}
  <2>1. pending' = <<r>>
    BY <1>5
  <2>2. Waiting' = {}
    BY <2>1, WaitingForm DEF Waiting
  <2>3. TypeOK'
    BY <1>1, <2>1, Resting DEF IInv, TypeOK, Event, Tags
  <2>4. PendingFits'
    BY <2>1 DEF PendingFits
  <2>5. InkFits'
    BY <1>1, <1>2, <1>4, <1>5, <2>2, Resting DEF InkFits
  <2> QED BY <2>1, <2>3, <2>4, <2>5
<1>6. ASSUME frames # <<>>, NEW t \in Texts, Flushed = <<t>>, t.value = Innermost.text,
             Innermost.children = 0 => t.kind = "text" /\ t.depth = Innermost.depth,
             Innermost.children # 0 => t.kind = "tail" /\ t.depth = Innermost.depth + 1
      PROVE  TypeOK' /\ PendingFits' /\ InkFits' /\ LevelOf(frames, pending)' = Len(frames)
  <2>1. pending' = <<t, r>>
    <3>1. pending' = Append(<<t>>, r)
      BY <1>6
    <3> QED BY <3>1, AppendPair DEF Texts, Tags
  <2>2. Waiting' = Held
    BY <1>6, <2>1, WaitingForm DEF Waiting, Held
  <2>3. TypeOK'
    BY <1>1, <2>1, Resting DEF IInv, TypeOK, Event, Tags, Texts
  <2>4. LevelOf(frames, pending)' = Len(frames)
    BY <2>1, LevelForm
  <2>5. TextFits(t, LevelOf(frames, pending))'
    <3>1. Len(frames) > 0
      BY <1>1, <1>6
    <3>2. Innermost.children \in Nat
      BY <1>6, Resting DEF Frames
    <3> QED BY <1>1, <1>6, <2>4, <3>1, <3>2, Resting DEF TextFits
  <2>6. PendingFits'
    BY <2>1, <2>5 DEF PendingFits
  <2>7. InkFits'
    BY <1>1, <1>2, <1>3, <1>4, <2>2, Resting DEF InkFits
  <2> QED BY <2>3, <2>4, <2>6, <2>7
<1> QED BY <1>1, <1>5, <1>6, FlushedForm

LEMMA StartStep ==
  ASSUME IInv, NEW name \in Names, StartEvent(name)
  PROVE  IInv' /\ LevelOf(frames, pending)' = Len(frames)
<1>n. PICK new : new = [depth |-> Len(frames), children |-> 0, text |-> {}]
  OBVIOUS
<1>r. PICK r : r = Record("start", Len(frames), name, {events'})
  OBVIOUS
<1>1. frames \in Seq(Frames) /\ Len(frames) \in Nat /\ new \in Frames
  BY <1>n DEF IInv, TypeOK, Frames
<1>2. Event /\ frames' = Append(BeforeChild, new) /\ pending' = Append(Flushed, r)
        /\ outcome' = outcome /\ inked' = inked
  BY <1>n, <1>r DEF StartEvent
<1>3. r \in Tags /\ r.kind = "start" /\ r.depth = Len(frames)
  BY <1>r, <1>1, <1>2, Resting DEF Tags, Records, Record
<1>4. /\ frames' \in Seq(Frames) /\ Len(frames') = Len(frames) + 1
      /\ frames'[Len(frames')] = new
      /\ \A i \in 1..Len(frames) : frames'[i] = BeforeChild[i]
  BY <1>1, <1>2, BeforeChildForm
<1>5. TagFits(r)'
  BY <1>n, <1>1, <1>3, <1>4 DEF TagFits, Innermost
<1>6. LevelOf(frames', <<r>>) = Len(frames)
  <2>1. LevelOf(frames', <<r>>) = Len(frames') - 1
    BY <1>3, LevelForm
  <2> QED BY <1>1, <1>4, <2>1
<1>7. TypeOK' /\ PendingFits' /\ InkFits' /\ LevelOf(frames, pending)' = Len(frames)
  BY <1>2, <1>3, <1>4, <1>5, <1>6, TagEvent
<1>8. FramesFit'
  <2>2. ASSUME NEW i \in 1..Len(frames)
        PROVE  BeforeChild[i].depth = i - 1 /\ BeforeChild[i].children > 0 /\ BeforeChild[i].text = {}
    <3>1. CASE i < Len(frames)
      BY <1>1, <3>1, BeforeChildForm DEF FramesFit, IInv
    <3>2. CASE i = Len(frames)
      BY <1>1, <3>2, BeforeChildForm DEF FramesFit, IInv
    <3> QED BY <1>1, <3>1, <3>2
  <2> QED BY <1>n, <1>1, <1>4, <2>2 DEF FramesFit
<1> QED BY <1>7, <1>8 DEF IInv

LEMMA EmptyStep ==
  ASSUME IInv, NEW name \in Names, EmptyEvent(name)
  PROVE  IInv' /\ LevelOf(frames, pending)' = Len(frames)
<1>r. PICK r : r = Record("empty", Len(frames), name, {events'})
  OBVIOUS
<1>1. frames \in Seq(Frames) /\ Len(frames) \in Nat
  BY DEF IInv, TypeOK
<1>2. Event /\ frames' = BeforeChild /\ pending' = Append(Flushed, r)
        /\ outcome' = outcome /\ inked' = inked
  BY <1>r DEF EmptyEvent
<1>3. r \in Tags /\ r.kind = "empty" /\ r.depth = Len(frames)
  BY <1>r, <1>1, <1>2, Resting DEF Tags, Records, Record
<1>4. frames' \in Seq(Frames) /\ Len(frames') = Len(frames)
  BY <1>1, <1>2, BeforeChildForm
<1>5. TagFits(r)'
  BY <1>1, <1>2, <1>3, <1>4, BeforeChildForm DEF TagFits, Innermost
<1>6. LevelOf(frames', <<r>>) = Len(frames)
  BY <1>1, <1>3, <1>4, LevelForm
<1>7. TypeOK' /\ PendingFits' /\ InkFits' /\ LevelOf(frames, pending)' = Len(frames)
  BY <1>2, <1>3, <1>4, <1>5, <1>6, TagEvent
<1>8. FramesFit'
  BY <1>1, <1>2, <1>4, BeforeChildForm DEF FramesFit, IInv
<1> QED BY <1>7, <1>8 DEF IInv

LEMMA EndStep ==
  ASSUME IInv, EndEvent
  PROVE  IInv' /\ LevelOf(frames, pending)' = Len(frames)
<1>r. PICK r : r = Record("end", Innermost.depth, Garbled, {})
  OBVIOUS
<1>1. frames \in Seq(Frames) /\ Len(frames) \in Nat \ {0} /\ frames # <<>>
  BY DEF IInv, TypeOK, EndEvent
<1>2. /\ Event /\ pending' = Append(Flushed, r)
      /\ frames' = SubSeq(frames, 1, Len(frames) - 1)
      /\ outcome' = outcome /\ inked' = inked
  BY <1>r DEF EndEvent
<1>3. Innermost \in Frames /\ Innermost.depth = Len(frames) - 1
  BY <1>1, <1>2, Resting
<1>4. r \in Tags /\ r.kind = "end" /\ r.depth = Len(frames) - 1
  BY <1>r, <1>1, <1>3 DEF Tags, Records, Record
<1>5. /\ frames' \in Seq(Frames) /\ Len(frames') = Len(frames) - 1
      /\ \A i \in 1..Len(frames') : frames'[i] = frames[i]
  <2>1. PICK n \in Nat : n = Len(frames) - 1
    BY <1>1
  <2>2. 1 \in Int /\ n \in Int /\ \A i \in 1..n : frames[i] \in Frames
    BY <1>1, <2>1
  <2>3. /\ SubSeq(frames, 1, n) \in Seq(Frames)
        /\ Len(SubSeq(frames, 1, n)) = IF 1 <= n THEN n - 1 + 1 ELSE 0
        /\ \A i \in 1..n - 1 + 1 : SubSeq(frames, 1, n)[i] = frames[1 + i - 1]
    BY <2>2, SubSeqProperties
  <2>4. Len(SubSeq(frames, 1, n)) = n /\ \A i \in 1..n : SubSeq(frames, 1, n)[i] = frames[i]
    BY <2>2, <2>3
  <2> QED BY <1>2, <2>1, <2>3, <2>4
<1>6. FramesFit' /\ \A i \in 1..Len(frames') : frames'[i].children > 0 /\ frames'[i].text = {}
  <2>1. PICK n \in Nat : n = Len(frames) - 1
    BY <1>1
  <2>2. \A i \in 1..n : /\ i \in 1..Len(frames) /\ i < Len(frames)
                        /\ frames'[i] = frames[i]
    BY <1>1, <1>5, <2>1
  <2>3. \A i \in 1..n : /\ frames'[i].depth = i - 1
                        /\ frames'[i].children > 0 /\ frames'[i].text = {}
    BY <2>2 DEF FramesFit, IInv
  <2>4. Len(frames') = n
    BY <1>5, <2>1
  <2> QED BY <2>3, <2>4 DEF FramesFit
<1>7. TagFits(r)'
  BY <1>1, <1>4, <1>5, <1>6 DEF TagFits, Innermost
<1>8. LevelOf(frames', <<r>>) = Len(frames)
  <2>1. LevelOf(frames', <<r>>) = Len(frames') + 1
    BY <1>4, LevelForm
  <2> QED BY <1>1, <1>5, <2>1
<1>9. TypeOK' /\ PendingFits' /\ InkFits' /\ LevelOf(frames, pending)' = Len(frames)
  BY <1>2, <1>4, <1>5, <1>7, <1>8, TagEvent
<1> QED BY <1>6, <1>9 DEF IInv

LEMMA GarbledStep ==
  ASSUME IInv, GarbledEvent
  PROVE  IInv' /\ LevelOf(frames, pending)' = Len(frames)
<1>1. frames \in Seq(Frames) /\ Len(frames) \in Nat /\ IInv
  BY DEF IInv, TypeOK
<1>2. /\ Event /\ pending' = Flushed /\ frames' = BeforeChild
      /\ outcome' = "failed" /\ inked' = inked /\ told' = told /\ given' = given
  BY DEF GarbledEvent, Event
<1>3. frames' \in Seq(Frames) /\ Len(frames') = Len(frames)
  BY <1>1, <1>2, BeforeChildForm
<1>4. FramesFit'
  BY <1>1, <1>2, <1>3, BeforeChildForm DEF FramesFit, IInv
<1>5. Held' = {} /\ (frames' # <<>> => Innermost'.text = {})
  BY <1>1, <1>2, <1>3, BeforeChildForm DEF Held, Innermost
<1>6. \/ pending' = <<>> /\ Held = {}
      \/ \E t \in Texts : pending' = <<t>> /\ t.value \ {0} = Held
  BY <1>1, <1>2, FlushedForm DEF Held
<1>7. pending' \in Seq(Records)
  <2>1. <<>> \in Seq(Records) /\ \A t \in Texts : <<t>> \in Seq(Records)
    BY DEF Texts
  <2> QED BY <1>6, <2>1
<1>8. TypeOK'
  BY <1>2, <1>3, <1>7, Resting DEF IInv, TypeOK
<1>9. PendingFits'
  BY <1>2, <1>5, <1>6 DEF PendingFits
<1>10. Waiting' = Held
  BY <1>6, WaitingForm DEF Waiting
<1>11. InkFits'
  BY <1>2, <1>5, <1>10, Resting DEF InkFits, IInv
<1>12. LevelOf(frames, pending)' = Len(frames)
  BY <1>3, <1>6, LevelForm
<1> QED BY <1>4, <1>8, <1>9, <1>11, <1>12 DEF IInv

\* A piece of text is after all the ink read before it.
LEMMA TextStep ==
  ASSUME IInv, NEW ink \in BOOLEAN, TextEvent(ink)
  PROVE  IInv' /\ LevelOf(frames, pending)' = Len(frames)
<1>1. /\ frames \in Seq(Frames) /\ Len(frames) \in Nat /\ Event
      /\ pending = <<>> /\ pending' = <<>> /\ told' = told /\ given' = given
      /\ outcome = "reading"
  BY DEF IInv, TypeOK, TextEvent, Event
<1>2. Waiting' = {}
  BY <1>1, WaitingForm DEF Waiting
<1>3. inked \subseteq 1..events' /\ events' \in 1..events' /\ \A a \in told : a < events'
  <2>1. inked \subseteq 1..events /\ told \subseteq inked
    BY DEF IInv, InkFits, TypeOK
  <2>2. events \in Nat /\ events' = events + 1
    BY <1>1, Resting
  <2>3. \A a \in 1..events : a \in 1..events' /\ a < events'
    BY <2>2
  <2> QED BY <2>1, <2>2, <2>3
<1>4. CASE frames = <<>>
  <2>1. frames' = <<>> /\ inked' = inked /\ outcome' \in {"reading", "failed"}
    BY <1>1, <1>4 DEF TextEvent
  <2>2. TypeOK' /\ FramesFit'
    BY <1>1, <1>4, <2>1, Resting DEF IInv, TypeOK, FramesFit
  <2>3. PendingFits'
    BY <1>1, <2>1 DEF PendingFits
  <2>4. InkFits'
    BY <1>1, <1>2, <1>4, <2>1, Resting DEF InkFits, IInv, Held
  <2> QED BY <1>1, <1>4, <2>1, <2>2, <2>3, <2>4, LevelForm DEF IInv
<1>5. CASE frames # <<>>
  <2> DEFINE n == Len(frames)
             piece == IF ink THEN events' ELSE 0
             f == [frames[n] EXCEPT !.text = @ \cup {piece}]
  <2>1. n \in 1..Len(frames) /\ frames[n] \in Frames /\ piece \in Nat
    BY <1>1, <1>5, Resting
  <2>2. /\ f \in Frames /\ f.depth = frames[n].depth /\ f.children = frames[n].children
        /\ f.text = frames[n].text \cup {piece}
    BY <2>1 DEF Frames
  <2>3. /\ frames' = [frames EXCEPT ![n] = f]
        /\ inked' = IF ink THEN inked \cup {events'} ELSE inked
        /\ outcome' = outcome
    BY <1>5 DEF TextEvent
  <2> HIDE DEF f
  <2>4. /\ frames' \in Seq(Frames) /\ Len(frames') = Len(frames) /\ frames' # <<>>
        /\ frames'[n] = f /\ \A i \in 1..Len(frames) : i < n => frames'[i] = frames[i]
    BY <1>1, <1>5, <2>1, <2>2, <2>3
  <2>5. Held' = Held \cup IF ink THEN {events'} ELSE {}
    BY <1>1, <1>5, <2>2, <2>4, Resting DEF Held, Innermost
  <2>6. TypeOK'
    <3>1. inked' \subseteq 1..MaxEvents
      <4>1. events' \in 1..MaxEvents
        BY <1>1, Resting, EventBounds
      <4> QED BY <4>1, <2>3 DEF IInv, TypeOK
    <3> QED BY <1>1, <2>3, <2>4, <3>1, Resting DEF IInv, TypeOK
  <2>7. FramesFit'
    BY <1>1, <2>2, <2>4 DEF IInv, FramesFit
  <2>8. PendingFits'
    BY <1>1, <1>5, <2>2, <2>4, Resting DEF PendingFits, Innermost
  <2>9. InkFits'
    <3>1. inked' = told' \cup Waiting' \cup Held'
      BY <1>1, <1>2, <2>3, <2>5, Resting
    <3>2. inked' \subseteq 1..events'
      BY <1>3, <2>3
    <3>3. \A a \in told', b \in Waiting' \cup Held' : a < b
      BY <1>1, <1>2, <1>3, <2>5 DEF IInv, InkFits
    <3> QED BY <1>1, <2>3, <3>1, <3>2, <3>3 DEF InkFits
  <2> QED BY <1>1, <2>4, <2>6, <2>7, <2>8, <2>9, LevelForm DEF IInv
<1> QED BY <1>4, <1>5

LEMMA QuietStep ==
  ASSUME IInv, EofEvent \/ IgnoredEvent \/ ErrorEvent
  PROVE  IInv'
<1>1. /\ Event /\ frames' = frames /\ pending = <<>> /\ pending' = <<>>
      /\ inked' = inked /\ told' = told /\ given' = given
      /\ outcome' \in {"reading", "ended", "failed"}
      /\ outcome' = "ended" => frames = <<>>
  BY DEF EofEvent, IgnoredEvent, ErrorEvent, Event
<1>2. Waiting' = Waiting /\ Held' = Held
  BY <1>1 DEF Waiting, Held, Innermost
<1>3. TypeOK' /\ FramesFit'
  BY <1>1, Resting DEF IInv, TypeOK, FramesFit
<1>4. PendingFits'
  BY <1>1, Resting DEF PendingFits, Innermost
<1>5. InkFits'
  BY <1>1, <1>2, Resting DEF IInv, InkFits
<1> QED BY <1>3, <1>4, <1>5 DEF IInv

\* The record handed out and what is left to hand out.
LEMMA TakeStep ==
  ASSUME IInv, Take
  PROVE  IInv'
<1>1. /\ frames' = frames /\ outcome' = outcome /\ events' = events /\ inked' = inked
      /\ outcome # "failed" /\ pending # <<>>
      /\ given' = Head(pending) /\ pending' = Tail(pending)
      /\ told' = IF given'.kind \in {"text", "tail"} THEN told \cup (given'.value \ {0}) ELSE told
  BY DEF Take
<1>2. Held' = Held /\ FramesFit'
  BY <1>1 DEF Held, Innermost, IInv, FramesFit
<1>3. ASSUME NEW r \in Tags, pending = <<r>>, TagFits(r)
      PROVE  IInv'
  <2>1. given' = r /\ pending' = <<>> /\ told' = told
    BY <1>1, <1>3 DEF Tags
  <2>2. Waiting = {} /\ Waiting' = {}
    BY <1>3, <2>1, WaitingForm DEF Waiting
  <2>3. TypeOK'
    <3>1. told' \subseteq inked' /\ given' \in Records /\ pending' \in Seq(Records)
      <4>1. r \in Records /\ <<>> \in Seq(Records) /\ told \subseteq inked
        BY DEF Tags, IInv, TypeOK
      <4> QED BY <1>1, <2>1, <4>1
    <3>2. /\ frames' \in Seq(Frames) /\ outcome' \in {"reading", "ended", "failed"}
          /\ events' \in 0..MaxEvents /\ inked' \subseteq 1..MaxEvents
      BY <1>1 DEF IInv, TypeOK
    <3> QED BY <3>1, <3>2 DEF TypeOK
  <2>4. PendingFits'
    BY <1>1, <1>3, <2>1 DEF PendingFits, TagFits, Innermost, Tags
  <2>5. InkFits'
    BY <1>1, <1>2, <2>1, <2>2 DEF IInv, InkFits
  <2> QED BY <1>2, <2>3, <2>4, <2>5 DEF IInv
<1>4. ASSUME NEW t \in Texts, NEW r \in Tags, pending = <<t, r>>, TagFits(r)
      PROVE  IInv'
  <2>1. given' = t /\ pending' = <<r>> /\ told' = told \cup (t.value \ {0})
    BY <1>1, <1>4 DEF Texts
  <2>2. Waiting = t.value \ {0} /\ Waiting' = {}
    BY <1>4, <2>1, WaitingForm DEF Waiting
  <2>3. Held = {}
    BY <1>4 DEF Held, TagFits
  <2>4. t \in Records /\ r \in Records
    BY DEF Texts, Tags
  <2>5. inked' = told' \cup Waiting' \cup Held'
    BY <1>1, <1>2, <2>1, <2>2 DEF IInv, InkFits
  <2>6. TypeOK'
    <3>1. told' \subseteq inked' /\ given' \in Records /\ pending' \in Seq(Records)
      BY <2>1, <2>4, <2>5
    <3>2. /\ frames' \in Seq(Frames) /\ outcome' \in {"reading", "ended", "failed"}
          /\ events' \in 0..MaxEvents /\ inked' \subseteq 1..MaxEvents
      BY <1>1 DEF IInv, TypeOK
    <3> QED BY <3>1, <3>2 DEF TypeOK
  <2>7. PendingFits'
    BY <1>1, <1>4, <2>1 DEF PendingFits, TagFits, Innermost
  <2>8. InkFits'
    BY <1>1, <1>2, <2>1, <2>2, <2>3, <2>5 DEF IInv, InkFits
  <2> QED BY <1>2, <2>6, <2>7, <2>8 DEF IInv
<1> QED BY <1>1, <1>3, <1>4 DEF IInv, PendingFits

LEMMA InitIInv == Init => IInv
<1> SUFFICES ASSUME Init PROVE IInv
  OBVIOUS
<1>1. frames = <<>> /\ pending = <<>> /\ inked = {} /\ told = {} /\ events = 0
      /\ outcome = "reading" /\ given = NoRecord
  BY DEF Init
<1>2. TypeOK
  BY <1>1, EventBounds DEF TypeOK, NoRecord, Record, Records
<1>3. Waiting = {} /\ Held = {}
  BY <1>1, WaitingForm DEF Waiting, Held
<1> QED BY <1>1, <1>2, <1>3 DEF IInv, FramesFit, PendingFits, InkFits

LEMMA NextIInv == IInv /\ [Next]_rvars => IInv'
<1> SUFFICES ASSUME IInv, [Next]_rvars PROVE IInv'
  OBVIOUS
<1>1. ASSUME NEW name \in Names, StartEvent(name) PROVE IInv'
  BY <1>1, StartStep
<1>2. ASSUME NEW name \in Names, EmptyEvent(name) PROVE IInv'
  BY <1>2, EmptyStep
<1>3. CASE GarbledEvent
  BY <1>3, GarbledStep
<1>4. ASSUME NEW ink \in BOOLEAN, TextEvent(ink) PROVE IInv'
  BY <1>4, TextStep
<1>5. CASE EndEvent
  BY <1>5, EndStep
<1>6. CASE EofEvent \/ IgnoredEvent \/ ErrorEvent
  BY <1>6, QuietStep
<1>7. CASE Take
  BY <1>7, TakeStep
<1>8. CASE UNCHANGED rvars
  BY <1>8 DEF rvars, IInv, TypeOK, FramesFit, PendingFits, TagFits, TextFits, InkFits,
              Waiting, Held, Innermost
<1> QED BY <1>1, <1>2, <1>3, <1>4, <1>5, <1>6, <1>7, <1>8 DEF Next

-----------------------------------------------------------------------------
(***************************************************************************)
(* Theorems.                                                               *)
(***************************************************************************)

THEOREM ReaderInvariant == Spec => []IInv
BY InitIInv, NextIInv, PTL DEF Spec

\* The variables of the reader keep their types.
THEOREM ReaderTypeOK == Spec => []TypeOK
<1>1. IInv => TypeOK
  BY DEF IInv
<1> QED BY <1>1, ReaderInvariant, PTL

\* The texts handed out by SourceRecordReader are the ink of the source, each
\* piece once and in document order, and all of it when the source has ended.
THEOREM ReaderInkInOrder == Spec => []InkInOrder
<1>1. IInv => InkInOrder
  <2> SUFFICES ASSUME IInv PROVE InkInOrder
    OBVIOUS
  <2>1. /\ frames \in Seq(Frames) /\ pending \in Seq(Records)
        /\ told \subseteq inked /\ inked \subseteq 1..events
        /\ inked = told \cup Waiting \cup Held
        /\ \A a \in told, b \in Waiting \cup Held : a < b
        /\ told \subseteq Nat \ {0}
    BY DEF IInv, TypeOK, InkFits
  <2>2. told \cap (Waiting \cup Held) = {}
    BY <2>1
  <2>3. \A a \in told, b \in inked \ told : a < b
    BY <2>1
  <2>4. \A i \in DOMAIN pending :
          pending[i].kind \in {"text", "tail"} => pending[i].value \cap told = {}
    <3> SUFFICES ASSUME NEW i \in DOMAIN pending, pending[i].kind \in {"text", "tail"}
                 PROVE  pending[i].value \cap told = {}
      OBVIOUS
    <3>1. pending[i] \in Texts /\ i \in 1..Len(pending)
      BY <2>1 DEF Texts
    <3>2. pending[i].value \ {0} \subseteq Waiting
      BY <3>1 DEF Waiting, InkOf
    <3> QED BY <2>1, <2>2, <3>2
  <2>5. \A i \in DOMAIN frames : frames[i].text \cap told = {}
    <3> SUFFICES ASSUME NEW i \in 1..Len(frames) PROVE frames[i].text \cap told = {}
      BY <2>1
    <3>1. CASE i < Len(frames)
      BY <3>1 DEF IInv, FramesFit
    <3>2. CASE i = Len(frames)
      BY <2>1, <2>2, <3>2 DEF Held, Innermost
    <3> QED BY <2>1, <3>1, <3>2
  <2>6. outcome = "ended" => told = inked
    <3> SUFFICES ASSUME outcome = "ended" PROVE told = inked
      OBVIOUS
    <3>1. frames = <<>> /\ pending = <<>>
      BY DEF IInv, InkFits
    <3>2. Waiting = {} /\ Held = {}
      BY <3>1, WaitingForm DEF Waiting, Held
    <3> QED BY <2>1, <3>2
  <2> QED BY <2>3, <2>4, <2>5, <2>6 DEF InkInOrder
<1> QED BY <1>1, ReaderInvariant, PTL

\* What is handed out is, record by record, a step of the stream.
LEMMA TakeRefines ==
  ASSUME IInv, Take
  PROVE  Stream!Next
<1> DEFINE Level == LevelOf(frames, pending)
<1>1. /\ frames \in Seq(Frames) /\ Len(frames) \in Nat /\ frames' = frames
      /\ outcome = "reading" /\ outcome' = outcome /\ pending # <<>>
      /\ given' = Head(pending) /\ pending' = Tail(pending)
  BY DEF IInv, TypeOK, InkFits, Take
<1>2. ASSUME NEW r \in Tags, pending = <<r>>, TagFits(r)
      PROVE  Stream!Next
  <2>1. given' = r /\ pending' = <<>>
    BY <1>1, <1>2
  <2>2. Level' = Len(frames)
    BY <1>1, <2>1, LevelForm
  <2>3. CASE r.kind = "start"
    <3>1. Level = Len(frames) - 1 /\ r.depth = Len(frames) - 1
      BY <1>2, <2>3, LevelForm DEF TagFits
    <3>2. Stream!Start
      BY <1>1, <2>1, <2>2, <2>3, <3>1 DEF Stream!Start, Stream!Give
    <3> QED BY <3>2 DEF Stream!Next
  <2>4. CASE r.kind = "empty"
    <3>1. Level = Len(frames) /\ r.depth = Len(frames)
      BY <1>2, <2>4, LevelForm DEF TagFits
    <3>2. Stream!Empty
      BY <1>1, <2>1, <2>2, <2>4, <3>1 DEF Stream!Empty, Stream!Give
    <3> QED BY <3>2 DEF Stream!Next
  <2>5. CASE r.kind = "end"
    <3>1. Level = Len(frames) + 1 /\ r.depth = Len(frames)
      BY <1>2, <2>5, LevelForm DEF TagFits
    <3>2. Stream!End
      BY <1>1, <2>1, <2>2, <2>5, <3>1 DEF Stream!End, Stream!Give
    <3> QED BY <3>2 DEF Stream!Next
  <2> QED BY <2>3, <2>4, <2>5 DEF Tags
<1>3. ASSUME NEW t \in Texts, NEW r \in Tags, pending = <<t, r>>, TextFits(t, Level)
      PROVE  Stream!Next
  <2>1. given' = t /\ pending' = <<r>>
    BY <1>1, <1>3
  <2>2. Level' = Level
    BY <1>1, <1>3, <2>1, LevelForm
  <2>3. CASE t.kind = "text"
    <3>1. given.kind = "start" /\ t.depth = Level - 1
      BY <1>3, <2>3 DEF TextFits
    <3>2. Stream!Text
      BY <1>1, <2>1, <2>2, <2>3, <3>1 DEF Stream!Text, Stream!Give
    <3> QED BY <3>2 DEF Stream!Next
  <2>4. CASE t.kind = "tail"
    <3>1. given.kind \in {"empty", "end"} /\ Level > 0 /\ t.depth = Level
      BY <1>3, <2>4 DEF TextFits
    <3>2. Stream!Tail
      BY <1>1, <2>1, <2>2, <2>4, <3>1 DEF Stream!Tail, Stream!Give
    <3> QED BY <3>2 DEF Stream!Next
  <2> QED BY <2>3, <2>4 DEF Texts
<1>4. PendingFits /\ outcome # "failed"
  BY <1>1 DEF IInv
<1> QED BY <1>1, <1>2, <1>3, <1>4 DEF PendingFits

\* The records that SourceRecordReader hands out are a stream as RecordStream
\* promises it: balanced, with true depths, and every text in its place.
THEOREM ReaderImplementsStream == Spec => ImplementsStream
<1>1. Init => Stream!Init
  <2> SUFFICES ASSUME Init PROVE Stream!Init
    OBVIOUS
  <2>1. LevelOf(frames, pending) = 0
    BY LevelForm DEF Init
  <2> QED BY <2>1 DEF Init, Stream!Init, NoRecord, Record
<1>2. IInv /\ [Next]_rvars => [Stream!Next]_(Stream!svars)
  <2> SUFFICES ASSUME IInv, [Next]_rvars PROVE [Stream!Next]_(Stream!svars)
    OBVIOUS
  <2>1. ASSUME Event, LevelOf(frames, pending)' = Len(frames),
               \/ outcome' = outcome
               \/ outcome' = "failed"
               \/ outcome' = "ended" /\ frames = <<>>
        PROVE  [Stream!Next]_(Stream!svars)
    <3>1. /\ outcome = "reading" /\ given' = given
          /\ LevelOf(frames, pending) = Len(frames)
      BY <2>1, LevelForm DEF Event
    <3>2. CASE outcome' = outcome
      BY <2>1, <3>1, <3>2 DEF Stream!svars
    <3>3. CASE outcome' = "failed" \/ (outcome' = "ended" /\ frames = <<>>)
      <4>1. Stream!Stop
        BY <2>1, <3>1, <3>3 DEF Stream!Stop
      <4> QED BY <4>1 DEF Stream!Next
    <3> QED BY <2>1, <3>2, <3>3
  <2>2. ASSUME NEW name \in Names, StartEvent(name) PROVE [Stream!Next]_(Stream!svars)
    BY <2>1, <2>2, StartStep DEF StartEvent
  <2>3. ASSUME NEW name \in Names, EmptyEvent(name) PROVE [Stream!Next]_(Stream!svars)
    BY <2>1, <2>3, EmptyStep DEF EmptyEvent
  <2>4. CASE GarbledEvent
    BY <2>1, <2>4, GarbledStep DEF GarbledEvent
  <2>5. ASSUME NEW ink \in BOOLEAN, TextEvent(ink) PROVE [Stream!Next]_(Stream!svars)
    BY <2>1, <2>5, TextStep DEF TextEvent
  <2>6. CASE EndEvent
    BY <2>1, <2>6, EndStep DEF EndEvent
  <2>7. CASE EofEvent \/ IgnoredEvent \/ ErrorEvent
    <3>1. Event /\ LevelOf(frames, pending)' = Len(frames)
      <4>1. Event /\ frames' = frames /\ pending' = <<>>
        BY <2>7 DEF EofEvent, IgnoredEvent, ErrorEvent, Event
      <4> QED BY <4>1, LevelForm
    <3> QED BY <2>1, <2>7, <3>1 DEF EofEvent, IgnoredEvent, ErrorEvent
  <2>8. CASE Take
    BY <2>8, TakeRefines
  <2>9. CASE UNCHANGED rvars
    <3>1. /\ frames' = frames /\ pending' = pending
          /\ given' = given /\ outcome' = outcome
      BY <2>9 DEF rvars
    <3>2. LevelOf(frames, pending)' = LevelOf(frames, pending)
      BY <3>1
    <3> QED BY <3>1, <3>2 DEF Stream!svars
  <2> QED BY <2>2, <2>3, <2>4, <2>5, <2>6, <2>7, <2>8, <2>9 DEF Next
<1> QED BY <1>1, <1>2, ReaderInvariant, PTL DEF Spec, ImplementsStream, Stream!Spec

(***************************************************************************)
(* The conversion and the audit read every source alike, whatever its      *)
(* length and nesting: their frames stay equal, and so do the records.     *)
(***************************************************************************)
Alike == auditFrames = frames /\ auditing = outcome

\* The code of the two readers, on equal frames.
LEMMA SameFlush ==
  ASSUME Alike
  PROVE  AuditFlushed = Flushed
BY DEF Alike, AuditFlushed, Flushed, Innermost, Last

LEMMA ReplaceLast ==
  ASSUME NEW s \in Seq(Frames), s # <<>>, NEW f \in Frames
  PROVE  Append(Front(s), f) = [s EXCEPT ![Len(s)] = f]
<1>1. PICK n \in Nat : n + 1 = Len(s)
  OBVIOUS
<1>2. 1 \in Int /\ n \in Int /\ \A i \in 1..n : s[i] \in Frames
  BY <1>1
<1> DEFINE u == SubSeq(s, 1, n)
           a == Append(u, f)
           b == [s EXCEPT ![Len(s)] = f]
<1>3. u \in Seq(Frames) /\ Len(u) = n /\ \A i \in 1..n : u[i] = s[i]
  <2>1. /\ u \in Seq(Frames)
        /\ Len(u) = IF 1 <= n THEN n - 1 + 1 ELSE 0
        /\ \A i \in 1..n - 1 + 1 : u[i] = s[1 + i - 1]
    BY <1>2, SubSeqProperties
  <2> HIDE DEF u
  <2> QED BY <1>2, <2>1
<1>4. Front(s) = u
  BY <1>1 DEF Front
<1> HIDE DEF u
<1>5. /\ a \in Seq(Frames) /\ Len(a) = n + 1 /\ a[n + 1] = f
      /\ \A i \in 1..n : a[i] = s[i]
  BY <1>3
<1>6. /\ b \in Seq(Frames) /\ Len(b) = n + 1 /\ b[n + 1] = f
      /\ \A i \in 1..n : b[i] = s[i]
  BY <1>1
<1> HIDE DEF a, b
<1>7. \A i \in 1..Len(a) : a[i] = b[i]
  BY <1>5, <1>6
<1>8. a = b
  BY <1>5, <1>6, <1>7, SeqEqual
<1> QED BY <1>4, <1>8 DEF a, b

LEMMA SameCount ==
  ASSUME Alike, frames \in Seq(Frames)
  PROVE  AuditCounted = BeforeChild
<1>1. CASE frames = <<>>
  BY <1>1 DEF Alike, AuditCounted, BeforeChild
<1>2. CASE frames # <<>>
  <2> DEFINE n == Len(frames)
             f == [depth |-> frames[n].depth, children |-> frames[n].children + 1, text |-> {}]
  <2>1. frames[n] \in Frames
    BY <1>2
  <2>2. f \in Frames
    BY <2>1 DEF Frames
  <2>3. BeforeChild = [frames EXCEPT ![n] = f]
    BY <1>2 DEF BeforeChild
  <2>4. AuditCounted = Append(Front(frames), f)
    BY <1>2 DEF Alike, AuditCounted, Last
  <2> HIDE DEF f
  <2> QED BY <1>2, <2>2, <2>3, <2>4, ReplaceLast
<1> QED BY <1>1, <1>2

\* What one event gives to the conversion it gives to the audit.
Agreed == /\ Alike'
          /\ events' # events => pending' = observed' /\ outcome' = auditing'

LEMMA AgreeStart ==
  ASSUME Alike, frames \in Seq(Frames), NEW name, StartEvent(name), AuditStart(name)
  PROVE  Agreed
BY SameFlush, SameCount DEF StartEvent, AuditStart, Observing, Alike, Agreed

LEMMA AgreeEmpty ==
  ASSUME Alike, frames \in Seq(Frames), NEW name, EmptyEvent(name), AuditEmpty(name)
  PROVE  Agreed
BY SameFlush, SameCount DEF EmptyEvent, AuditEmpty, Observing, Alike, Agreed

LEMMA AgreeGarbled ==
  ASSUME Alike, frames \in Seq(Frames), GarbledEvent, AuditGarbled
  PROVE  Agreed
BY SameFlush, SameCount DEF GarbledEvent, AuditGarbled, ObservingText, Alike, Agreed

LEMMA AgreeText ==
  ASSUME Alike, frames \in Seq(Frames), events \in Nat,
         NEW ink \in BOOLEAN, TextEvent(ink), AuditText(ink)
  PROVE  Agreed
<1>1. /\ pending = <<>> /\ pending' = <<>> /\ observed' = <<>>
      /\ events' \in Nat
  BY DEF TextEvent, Event, AuditText, ObservingNothing
<1>2. CASE frames = <<>>
  BY <1>1, <1>2 DEF TextEvent, AuditText, Alike, Agreed
<1>3. CASE frames # <<>>
  <2> DEFINE n == Len(frames)
             piece == IF ink THEN events' ELSE 0
             f == [frames[n] EXCEPT !.text = @ \cup {piece}]
  <2>1. frames[n] \in Frames /\ piece \in Nat
    BY <1>1, <1>3
  <2>2. f \in Frames
    BY <2>1 DEF Frames
  <2>3. frames' = [frames EXCEPT ![n] = f] /\ outcome' = outcome
    BY <1>3 DEF TextEvent
  <2>4. auditFrames' = Append(Front(frames), f) /\ auditing' = auditing
    BY <1>3 DEF AuditText, Alike, Last
  <2> HIDE DEF f
  <2>5. auditFrames' = frames'
    BY <1>3, <2>2, <2>3, <2>4, ReplaceLast
  <2> QED BY <1>1, <2>3, <2>4, <2>5 DEF Alike, Agreed
<1> QED BY <1>2, <1>3

LEMMA AgreeEnd ==
  ASSUME Alike, EndEvent, AuditEnd
  PROVE  Agreed
<1>1. auditFrames # <<>> /\ Last(auditFrames).depth = Innermost.depth
  BY DEF EndEvent, Alike, Last, Innermost
<1>2. frames' = Front(frames)
  BY DEF EndEvent, Front
<1>3. /\ auditFrames' = Front(auditFrames) /\ auditing' = auditing
      /\ observed' = Append(AuditFlushed, Record("end", Innermost.depth, Garbled, {}))
  BY <1>1 DEF AuditEnd, Observing
<1> QED BY <1>2, <1>3, SameFlush DEF EndEvent, Alike, Agreed

LEMMA AgreeQuiet ==
  ASSUME Alike,
         \/ EofEvent /\ AuditEof
         \/ IgnoredEvent /\ AuditOther(auditing)
         \/ ErrorEvent /\ AuditOther("failed")
  PROVE  Agreed
BY DEF EofEvent, AuditEof, IgnoredEvent, ErrorEvent, AuditOther, ObservingNothing, Event, Alike,
       Agreed

\* A record handed out concerns the conversion alone.
LEMMA AgreeTake ==
  ASSUME Alike, Take, UNCHANGED avars
  PROVE  Agreed
BY DEF Take, avars, Alike, Agreed

LEMMA AgreeStep ==
  ASSUME Alike, IInv, [TwoNext]_vars
  PROVE  Agreed /\ [Next]_rvars
<1>1. frames \in Seq(Frames) /\ events \in Nat
  BY EventBounds DEF IInv, TypeOK
<1>2. ASSUME NEW name \in Names, Reads(name) PROVE Agreed /\ [Next]_rvars
  BY <1>1, <1>2, AgreeStart, AgreeEmpty DEF Reads, Next
<1>3. ASSUME Follows PROVE Agreed /\ [Next]_rvars
  BY <1>1, <1>3, AgreeGarbled, AgreeText, AgreeEnd, AgreeQuiet DEF Follows, Next
<1>4. ASSUME Converts PROVE Agreed /\ [Next]_rvars
  BY <1>4, AgreeTake DEF Converts, Next
<1>5. ASSUME UNCHANGED vars PROVE Agreed /\ [Next]_rvars
  BY <1>5 DEF vars, avars, rvars, Alike, Agreed
<1> QED BY <1>2, <1>3, <1>4, <1>5 DEF TwoNext

\* Whatever the source, the conversion and its audit get the same records of
\* every event, and one refuses an event where the other does.
THEOREM ReadersAlwaysAgree == TwoSpec => ReadersAgree
<1>1. TwoInit => IInv /\ Alike
  BY InitIInv DEF TwoInit, Init, Alike
<1>2. IInv /\ Alike /\ [TwoNext]_vars => (IInv /\ Alike)'
  BY AgreeStep, NextIInv DEF Agreed
<1>3. IInv /\ Alike /\ [TwoNext]_vars =>
        [events' # events => pending' = observed' /\ outcome' = auditing']_vars
  BY AgreeStep DEF Agreed
<1> QED BY <1>1, <1>2, <1>3, PTL DEF TwoSpec, ReadersAgree

-----------------------------------------------------------------------------
(***************************************************************************)
(* The path of an entry's records, and its headword.                       *)
(***************************************************************************)

\* What the record r makes of the path p.
Stepped(p, r) ==
  CASE r.kind = "start" -> Append(p, r.name)
    [] r.kind = "end" -> Front(p)
    [] OTHER -> p

PathOf(s, f) ==
  f = [n \in 0..Len(s) |-> IF n = 0 THEN <<>> ELSE Stepped(f[n - 1], s[n])]

\* The recursion over the records has a solution, one record after the other.
LEMMA PathExists ==
  ASSUME NEW s \in Seq(Records)
  PROVE  PathOf(s, Path(s))
<1> DEFINE E(f, n) == IF n = 0 THEN <<>> ELSE Stepped(f[n - 1], s[n])
           T == {n \in Nat : \E f : f = [m \in 0..n |-> E(f, m)]}
<1>1. 0 \in T
  <2> DEFINE f == [m \in 0..0 |-> <<>>]
  <2>1. f = [m \in 0..0 |-> E(f, m)]
    OBVIOUS
  <2> HIDE DEF f
  <2>. QED BY <2>1
<1>2. ASSUME NEW n \in Nat, n \in T PROVE n + 1 \in T
  <2>1. PICK f : f = [m \in 0..n |-> E(f, m)]
    BY <1>2
  <2> DEFINE v == Stepped(f[n], s[n + 1])
             g == [m \in 0..(n + 1) |-> IF m = n + 1 THEN v ELSE f[m]]
  <2>2. \A m \in 0..n : f[m] = E(f, m)
    BY <2>1
  <2>3. \A m \in 0..(n + 1) : g[m] = IF m = n + 1 THEN v ELSE f[m]
    OBVIOUS
  <2> HIDE DEF g
  <2>4. \A m \in 0..(n + 1) : g[m] = E(g, m)
    <3> TAKE m \in 0..(n + 1)
    <3>1. CASE m = n + 1
      <4>1. m # 0 /\ m - 1 = n /\ n \in 0..(n + 1) /\ n # n + 1
        BY <3>1
      <4>2. g[m - 1] = f[n]
        BY <2>3, <4>1
      <4>3. g[m] = v
        BY <2>3, <3>1
      <4>. QED BY <3>1, <4>1, <4>2, <4>3
    <3>2. CASE m = 0
      BY <2>2, <2>3, <3>2
    <3>3. CASE m \in 1..n
      <4>1. m - 1 \in 0..n /\ m \in 0..n /\ m # 0 /\ m # n + 1 /\ m - 1 # n + 1
            /\ m - 1 \in 0..(n + 1)
        BY <3>3
      <4>2. g[m - 1] = f[m - 1] /\ g[m] = f[m]
        BY <2>3, <4>1
      <4>. QED BY <2>2, <4>1, <4>2
    <3>. QED BY <3>1, <3>2, <3>3
  <2>5. g = [m \in 0..(n + 1) |-> E(g, m)]
    <3>1. g = [m \in 0..(n + 1) |-> g[m]]
      BY DEF g
    <3>. QED BY <2>4, <3>1
  <2>. QED BY <2>5
<1>3. Len(s) \in T
  <2> HIDE DEF T
  <2>. QED BY <1>1, <1>2, SetInduction
<1>4. Path(s) = CHOOSE f : f = [m \in 0..Len(s) |-> E(f, m)]
  BY DEF Path, Stepped
<1>. QED BY <1>3, <1>4 DEF PathOf
LEMMA PathSteps ==
  ASSUME NEW s \in Seq(Records)
  PROVE  /\ Path(s)[0] = <<>>
         /\ \A n \in 1..Len(s) : Path(s)[n] = Stepped(Path(s)[n - 1], s[n])
<1> DEFINE f == Path(s)
<1>1. f = [n \in 0..Len(s) |-> IF n = 0 THEN <<>> ELSE Stepped(f[n - 1], s[n])]
  BY PathExists DEF PathOf
<1>2. \A n \in 0..Len(s) : f[n] = IF n = 0 THEN <<>> ELSE Stepped(f[n - 1], s[n])
  <2> HIDE DEF f
  <2>. QED BY <1>1
<1> HIDE DEF f
<1>3. f[0] = <<>> /\ \A n \in 1..Len(s) : f[n] = Stepped(f[n - 1], s[n])
  BY <1>2
<1>. QED BY <1>3 DEF f

\* A record more does not change the path of those before it.
LEMMA PathAppend ==
  ASSUME NEW s \in Seq(Records), NEW r \in Records
  PROVE  /\ \A n \in 0..Len(s) : Path(Append(s, r))[n] = Path(s)[n]
         /\ Path(Append(s, r))[Len(s) + 1] = Stepped(Path(s)[Len(s)], r)
<1> DEFINE t == Append(s, r)
           T == {n \in 0..Len(s) : Path(t)[n] = Path(s)[n]}
<1>1. /\ t \in Seq(Records) /\ Len(t) = Len(s) + 1 /\ Len(s) \in Nat /\ t[Len(s) + 1] = r
      /\ \A n \in 1..Len(s) : t[n] = s[n]
  OBVIOUS
<1> HIDE DEF t
<1>2. Path(t)[0] = <<>> /\ \A n \in 1..Len(t) : Path(t)[n] = Stepped(Path(t)[n - 1], t[n])
  BY <1>1, PathSteps
<1>3. Path(s)[0] = <<>> /\ \A n \in 1..Len(s) : Path(s)[n] = Stepped(Path(s)[n - 1], s[n])
  BY PathSteps
<1>4. 0 \in T
  BY <1>1, <1>2, <1>3
<1>5. \A n \in 0..(Len(s) - 1) : n \in T => n + 1 \in T
  <2> TAKE n \in 0..(Len(s) - 1)
  <2> HAVE n \in T
  <2>1. n + 1 \in 1..Len(s) /\ n + 1 \in 1..Len(t) /\ (n + 1) - 1 = n /\ n + 1 \in 0..Len(s)
    BY <1>1
  <2>2. Path(t)[n + 1] = Stepped(Path(t)[n], t[n + 1])
    BY <1>2, <2>1
  <2>3. Path(s)[n + 1] = Stepped(Path(s)[n], s[n + 1])
    BY <1>3, <2>1
  <2>4. Path(t)[n] = Path(s)[n] /\ t[n + 1] = s[n + 1]
    BY <1>1, <2>1
  <2>. QED BY <2>1, <2>2, <2>3, <2>4
<1>6. \A n \in 0..Len(s) : Path(t)[n] = Path(s)[n]
  <2>1. 0..Len(s) \subseteq T
    <3> HIDE DEF T
    <3> DEFINE m == Len(s)
    <3>1. 0 \in Int /\ m \in Int /\ 0 \in T /\ \A n \in 0..(m - 1) : n \in T => n + 1 \in T
      BY <1>1, <1>4, <1>5
    <3> HIDE DEF m
    <3>2. 0..m \subseteq T
      BY <3>1, IntervalInduction, Zenon
    <3>. QED BY <3>2 DEF m
  <2>. QED BY <2>1
<1>7. Path(t)[Len(s) + 1] = Stepped(Path(s)[Len(s)], r)
  <2>1. Len(s) + 1 \in 1..Len(t) /\ (Len(s) + 1) - 1 = Len(s) /\ Len(s) \in 0..Len(s)
    BY <1>1
  <2>2. Path(t)[Len(s) + 1] = Stepped(Path(t)[Len(s)], t[Len(s) + 1])
    BY <1>2, <2>1
  <2>. QED BY <1>1, <1>6, <2>1, <2>2
<1>. QED BY <1>6, <1>7 DEF t

LEMMA HoldsAppend ==
  ASSUME NEW s \in Seq(Records), NEW r \in Records, NEW i \in 1..Len(s)
  PROVE  HoldsHeadword(Append(s, r), i) <=> HoldsHeadword(s, i)
<1>1. Append(s, r)[i] = s[i]
  OBVIOUS
<1>2. i - 1 \in 0..Len(s)
  OBVIOUS
<1>3. Path(Append(s, r))[i - 1] = Path(s)[i - 1]
  BY <1>2, PathAppend
<1>. QED BY <1>1, <1>3 DEF HoldsHeadword

\* The headword is that of the first record that holds one.
LEMMA ExtractFirst ==
  ASSUME NEW s \in Seq(Records), NEW n,
         NEW i \in 1..Len(s), HoldsHeadword(s, i),
         \A j \in 1..(i - 1) : ~HoldsHeadword(s, j)
  PROVE  ExtractHeadword(s, n) = Headword(s[i].value)
<1> DEFINE found == {j \in DOMAIN s : HoldsHeadword(s, j)}
<1>1. i \in found /\ \A j \in found : i <= j
  OBVIOUS
<1>2. \A x \in found : (\A y \in found : x <= y) => x = i
  BY <1>1
<1>3. Min(found) = i
  <2> HIDE DEF found
  <2>. QED BY <1>1, <1>2 DEF Min
<1>. QED BY <1>1, <1>3 DEF ExtractHeadword

LEMMA FirstHolder ==
  ASSUME NEW s \in Seq(Records), NEW k \in 1..Len(s), HoldsHeadword(s, k)
  PROVE  \E i \in 1..Len(s) : /\ HoldsHeadword(s, i)
                              /\ \A j \in 1..(i - 1) : ~HoldsHeadword(s, j)
<1> DEFINE found == {j \in 1..Len(s) : HoldsHeadword(s, j)}
<1>1. found \in SUBSET Nat /\ found # {}
  OBVIOUS
<1>2. PICK i \in found : \A j \in found : i <= j
  <2> HIDE DEF found
  <2>. QED BY <1>1, LeastNatural
<1>. QED BY <1>2

\* A record more only matters to an entry without a headword.
LEMMA ExtractAppend ==
  ASSUME NEW s \in Seq(Records), NEW r \in Records, NEW n
  PROVE  LET t == Append(s, r) IN
         /\ (\E i \in 1..Len(s) : HoldsHeadword(s, i)) =>
              ExtractHeadword(t, n) = ExtractHeadword(s, n)
         /\ (\A i \in 1..Len(s) : ~HoldsHeadword(s, i)) =>
              ExtractHeadword(t, n) = IF HoldsHeadword(t, Len(s) + 1)
                                        THEN Headword(r.value) ELSE Numbered(n)
<1> DEFINE t == Append(s, r)
<1>1. /\ t \in Seq(Records) /\ Len(t) = Len(s) + 1 /\ Len(s) \in Nat /\ t[Len(s) + 1] = r
      /\ \A i \in 1..Len(s) : t[i] = s[i]
  OBVIOUS
<1>2. \A i \in 1..Len(s) : HoldsHeadword(t, i) <=> HoldsHeadword(s, i)
  BY HoldsAppend
<1> HIDE DEF t
<1>3. ASSUME NEW k \in 1..Len(s), HoldsHeadword(s, k)
      PROVE  ExtractHeadword(t, n) = ExtractHeadword(s, n)
  <2>1. PICK i \in 1..Len(s) : /\ HoldsHeadword(s, i)
                               /\ \A j \in 1..(i - 1) : ~HoldsHeadword(s, j)
    BY <1>3, FirstHolder
  <2>2. i \in 1..Len(t) /\ HoldsHeadword(t, i) /\ \A j \in 1..(i - 1) : ~HoldsHeadword(t, j)
    BY <1>1, <1>2, <2>1
  <2>3. ExtractHeadword(t, n) = Headword(t[i].value)
    BY <1>1, <2>2, ExtractFirst
  <2>4. ExtractHeadword(s, n) = Headword(s[i].value)
    BY <2>1, ExtractFirst
  <2>. QED BY <1>1, <2>3, <2>4
<1>4. ASSUME \A i \in 1..Len(s) : ~HoldsHeadword(s, i)
      PROVE  ExtractHeadword(t, n) = IF HoldsHeadword(t, Len(s) + 1)
                                       THEN Headword(r.value) ELSE Numbered(n)
  <2>1. \A j \in 1..Len(s) : ~HoldsHeadword(t, j)
    BY <1>2, <1>4
  <2>2. CASE HoldsHeadword(t, Len(s) + 1)
    <3>1. Len(s) + 1 \in 1..Len(t) /\ (Len(s) + 1) - 1 = Len(s)
      BY <1>1
    <3>2. ExtractHeadword(t, n) = Headword(t[Len(s) + 1].value)
      BY <1>1, <2>1, <2>2, <3>1, ExtractFirst
    <3>. QED BY <1>1, <2>2, <3>2
  <2>3. CASE ~HoldsHeadword(t, Len(s) + 1)
    <3>1. \A j \in DOMAIN t : ~HoldsHeadword(t, j)
      BY <1>1, <2>1, <2>3
    <3>. QED BY <2>3, <3>1 DEF ExtractHeadword
  <2>. QED BY <2>2, <2>3
<1>. QED BY <1>3, <1>4 DEF t

-----------------------------------------------------------------------------
(***************************************************************************)
(* The audit's summary d beside the conversion, of the same records: the   *)
(* conversion collects an entry exactly while one is open on the audit's   *)
(* path, no entry is written that the audit has not counted, and as long   *)
(* as it has counted no other the headwords are the same.                  *)
(***************************************************************************)

Headings == [text : SUBSET Nat, number : Nat]
Paths == Seq(Names \cup {Garbled})
Summaries == [stack : Paths, entries : Nat, depth : Nat \cup {NoDepth},
              headword : Headings, headwords : Seq(Headings)]

\* The entries that were begun: those written and the one in the buffer b.
Begun(b, a) == Len(a) + (IF b = <<>> THEN 0 ELSE 1)

Inked(r) == r.kind \in {"start", "empty", "text"} => r.value \ {0} # {}

Outside(d) == \A i \in 1..Len(d.stack) : d.stack[i] # Entry

\* The buffer's entry is the first one on the path, and the path of the buffer
\* is the path from there.
Inside(d, b) ==
  LET k == b[1].depth + 1
      p == Path(b)[Len(b)]
  IN /\ k \in 1..Len(d.stack) /\ d.stack[k] = Entry
     /\ \A i \in 1..(k - 1) : d.stack[i] # Entry
     /\ p \in Paths /\ Len(p) = Len(d.stack) - k + 1
     /\ \A i \in 1..Len(p) : p[i] = d.stack[k - 1 + i]

Same(d, b, a) ==
  /\ d.headwords = a
  /\ b = <<>> => d.depth = NoDepth
  /\ b # <<>> => d.depth = b[1].depth /\ d.headword = ExtractHeadword(b, 0)

Tracks(d, b, a) ==
  /\ d \in Summaries
  /\ a \in Seq(Headings)
  /\ b \in Seq(Records) /\ \A i \in 1..Len(b) : Inked(b[i])
  /\ b = <<>> => Outside(d)
  /\ b # <<>> => Inside(d, b)
  /\ Begun(b, a) <= d.entries
  /\ Begun(b, a) = d.entries => Same(d, b, a)

\* The record r comes next after the path of d.
Placed(d, r) ==
  /\ Inked(r)
  /\ r.kind \in {"start", "empty", "text", "tail", "end"}
  /\ r.kind \notin {"start", "empty"} => r.name = Garbled
  /\ r.kind = "start" => r.depth = Len(d.stack)
  /\ r.kind = "text" => Len(d.stack) > 0
  /\ r.kind = "end" => Len(d.stack) > 0 /\ r.depth = Len(d.stack) - 1

\* The record r makes c and z of the buffer and the articles.
Moves(b, a, r, c, z) ==
  IF b # <<>>
    THEN IF r.kind = "end" /\ r.depth = b[1].depth
           THEN z = Append(a, ExtractHeadword(Append(b, r), Len(a) + 1)) /\ c = <<>>
           ELSE c = Append(b, r) /\ z = a
    ELSE IF r.name = Entry /\ r.kind = "start"
           THEN c = <<r>> /\ z = a
         ELSE IF r.name = Entry /\ r.kind = "empty"
           THEN z = Append(a, ExtractHeadword(<<r>>, Len(a) + 1)) /\ c = b
         ELSE c = b /\ z = a

Nesting(d, r) == r.name = Entry /\ \E i \in 1..Len(d.stack) : d.stack[i] = Entry

\* What comes of d, b and a when both have seen r.
Handled(d, b, a, e, c, z, r) ==
  /\ Tracks(e, c, z)
  /\ Begun(c, z) < e.entries <=> Begun(b, a) < d.entries \/ Nesting(d, r)

\* A record holds a headword by its own name, or by the path before it.
HeldBy(r, p) ==
  IF krdict
    THEN r.kind \in {"start", "empty"} /\ r.name = Written
    ELSE r.kind = "text" /\ Len(p) > 1 /\ p[Len(p) - 1] = WordInfo /\ p[Len(p)] = Word

LEMMA HoldsLast ==
  ASSUME NEW s \in Seq(Records), NEW r \in Records, Path(s)[Len(s)] \in Paths
  PROVE  HoldsHeadword(Append(s, r), Len(s) + 1) <=> HeldBy(r, Path(s)[Len(s)])
<1> DEFINE p == Path(s)[Len(s)]
           t == Append(s, r)
<1>1. t[Len(s) + 1] = r /\ (Len(s) + 1) - 1 = Len(s) /\ Len(s) \in 0..Len(s)
  OBVIOUS
<1>2. Path(t)[Len(s)] = p
  BY <1>1, PathAppend
<1>3. p \in Paths
  OBVIOUS
<1> HIDE DEF p, t
<1>4. HoldsHeadword(t, Len(s) + 1) <=>
        IF krdict
          THEN r.kind \in {"start", "empty"} /\ r.name = Written
          ELSE /\ r.kind = "text"
               /\ Len(p) > 1 /\ SubSeq(p, Len(p) - 1, Len(p)) = <<WordInfo, Word>>
  BY <1>1, <1>2 DEF HoldsHeadword
<1>5. ASSUME Len(p) > 1
      PROVE  SubSeq(p, Len(p) - 1, Len(p)) = <<WordInfo, Word>> <=>
               p[Len(p) - 1] = WordInfo /\ p[Len(p)] = Word
  <2> DEFINE q == SubSeq(p, Len(p) - 1, Len(p))
  <2>1. /\ q \in Paths /\ Len(q) = 2 /\ q[1] = p[Len(p) - 1] /\ q[2] = p[Len(p)]
    BY <1>3, <1>5 DEF Paths
  <2> HIDE DEF q
  <2>2. q = <<q[1], q[2]>>
    BY <2>1 DEF Paths
  <2>. QED BY <2>1, <2>2 DEF q
<1>. QED BY <1>4, <1>5 DEF HeldBy, p, t

\* An entry has a headword if one of its records holds one, as that has ink.
LEMMA HeadwordKnown ==
  ASSUME NEW s \in Seq(Records), \A i \in 1..Len(s) : Inked(s[i])
  PROVE  /\ (\E i \in 1..Len(s) : HoldsHeadword(s, i)) => ExtractHeadword(s, 0) # NoHeadword
         /\ (\A i \in 1..Len(s) : ~HoldsHeadword(s, i)) =>
              \A n : ExtractHeadword(s, n) = Numbered(n)
<1>1. ASSUME NEW k \in 1..Len(s), HoldsHeadword(s, k)
      PROVE  ExtractHeadword(s, 0) # NoHeadword
  <2>1. PICK i \in 1..Len(s) : /\ HoldsHeadword(s, i)
                               /\ \A j \in 1..(i - 1) : ~HoldsHeadword(s, j)
    BY <1>1, FirstHolder
  <2>2. ExtractHeadword(s, 0) = Headword(s[i].value)
    BY <2>1, ExtractFirst
  <2>3. s[i].kind \in {"start", "empty", "text"}
    BY <2>1 DEF HoldsHeadword
  <2>4. s[i].value \ {0} # {}
    BY <2>3 DEF Inked
  <2>. QED BY <2>2, <2>4 DEF Headword, NoHeadword, Numbered
<1>2. (\A i \in 1..Len(s) : ~HoldsHeadword(s, i)) =>
         \A n : ExtractHeadword(s, n) = Numbered(n)
  BY DEF ExtractHeadword
<1>. QED BY <1>1, <1>2

\* The buffer with one record more.
LEMMA Grown ==
  ASSUME NEW d, NEW b, NEW a, Tracks(d, b, a), b # <<>>, NEW r \in Records, Inked(r)
  PROVE  LET c == Append(b, r)
             p == Path(b)[Len(b)]
             h == ExtractHeadword(b, 0)
         IN /\ c \in Seq(Records) /\ c # <<>> /\ c[1] = b[1]
            /\ \A i \in 1..Len(c) : Inked(c[i])
            /\ Path(c)[Len(c)] = Stepped(p, r)
            /\ h # NoHeadword => \A n : ExtractHeadword(c, n) = h
            /\ h = NoHeadword => \A n : ExtractHeadword(c, n) =
                                   IF HeldBy(r, p) THEN Headword(r.value) ELSE Numbered(n)
<1> DEFINE c == Append(b, r)
           p == Path(b)[Len(b)]
           h == ExtractHeadword(b, 0)
<1>1. b \in Seq(Records) /\ (\A i \in 1..Len(b) : Inked(b[i])) /\ p \in Paths
  BY DEF Tracks, Inside
<1>2. /\ c \in Seq(Records) /\ c # <<>> /\ c[1] = b[1] /\ Len(c) = Len(b) + 1
      /\ c[Len(b) + 1] = r /\ \A i \in 1..Len(b) : c[i] = b[i]
  BY <1>1
<1>3. \A i \in 1..Len(c) : Inked(c[i])
  <2> HIDE DEF c
  <2> TAKE i \in 1..Len(c)
  <2>1. i \in 1..Len(b) \/ i = Len(b) + 1
    BY <1>1, <1>2
  <2>. QED BY <1>1, <1>2, <2>1
<1>4. Path(c)[Len(c)] = Stepped(p, r)
  BY <1>1, <1>2, PathAppend
<1>5. HoldsHeadword(c, Len(b) + 1) <=> HeldBy(r, p)
  BY <1>1, HoldsLast
<1>6. /\ (\E i \in 1..Len(b) : HoldsHeadword(b, i)) =>
           \A n : ExtractHeadword(c, n) = ExtractHeadword(b, n)
      /\ (\A i \in 1..Len(b) : ~HoldsHeadword(b, i)) =>
           \A n : ExtractHeadword(c, n) = IF HoldsHeadword(c, Len(b) + 1)
                                            THEN Headword(r.value) ELSE Numbered(n)
  BY <1>1, ExtractAppend
<1>7. /\ (\E i \in 1..Len(b) : HoldsHeadword(b, i)) => h # NoHeadword
      /\ (\A i \in 1..Len(b) : ~HoldsHeadword(b, i)) => h = NoHeadword
  BY <1>1, HeadwordKnown DEF NoHeadword
<1>8. (\E i \in 1..Len(b) : HoldsHeadword(b, i)) => \A n : ExtractHeadword(b, n) = h
  <2> SUFFICES ASSUME NEW k \in 1..Len(b), HoldsHeadword(b, k), NEW n
               PROVE  ExtractHeadword(b, n) = ExtractHeadword(b, 0)
    OBVIOUS
  <2>1. PICK i \in 1..Len(b) : /\ HoldsHeadword(b, i)
                               /\ \A j \in 1..(i - 1) : ~HoldsHeadword(b, j)
    BY <1>1, FirstHolder
  <2>. QED BY <1>1, <2>1, ExtractFirst
<1> HIDE DEF c, p, h
<1>9. /\ h # NoHeadword => \A n : ExtractHeadword(c, n) = h
      /\ h = NoHeadword => \A n : ExtractHeadword(c, n) =
                             IF HeldBy(r, p) THEN Headword(r.value) ELSE Numbered(n)
  BY <1>5, <1>6, <1>7, <1>8
<1>. QED BY <1>2, <1>3, <1>4, <1>9 DEF c, p, h

\* The tag of an entry holds no headword.
LEMMA EntryTag ==
  ASSUME NEW r \in Records, r.kind \in {"start", "empty"}, r.name = Entry
  PROVE  /\ <<r>> \in Seq(Records) /\ Len(<<r>>) = 1 /\ <<r>>[1] = r
         /\ Path(<<r>>)[1] = Stepped(<<>>, r)
         /\ \A n : ExtractHeadword(<<r>>, n) = Numbered(n)
<1> DEFINE s == <<r>>
<1>1. s \in Seq(Records) /\ Len(s) = 1 /\ s[1] = r
  OBVIOUS
<1> HIDE DEF s
<1>2. Path(s)[0] = <<>> /\ Path(s)[1] = Stepped(Path(s)[1 - 1], s[1])
  BY <1>1, PathSteps
<1>3. ~HoldsHeadword(s, 1)
  BY <1>1, EntryAssumption DEF HoldsHeadword
<1>4. \A i \in DOMAIN s : ~HoldsHeadword(s, i)
  BY <1>1, <1>3
<1>5. \A n : ExtractHeadword(s, n) = Numbered(n)
  BY <1>4 DEF ExtractHeadword
<1>. QED BY <1>1, <1>2, <1>5 DEF s

\* The path of the audit ends as the path of the buffer does, from the entry on.
LEMMA SameEnd ==
  ASSUME NEW d, NEW b, NEW a, Tracks(d, b, a), b # <<>>, NEW r \in Records, r.kind = "text"
  PROVE  HeldBy(r, Path(b)[Len(b)]) <=>
           /\ ~krdict
           /\ Last(d.stack) = Word
           /\ Len(d.stack) > 1 /\ d.stack[Len(d.stack) - 1] = WordInfo
<1> DEFINE k == b[1].depth + 1
           p == Path(b)[Len(b)]
           s == d.stack
<1>1. /\ k \in 1..Len(s) /\ s[k] = Entry /\ p \in Paths /\ Len(p) = Len(s) - k + 1
      /\ \A i \in 1..Len(p) : p[i] = s[k - 1 + i]
      /\ s \in Paths
  BY DEF Tracks, Inside, Summaries
<1> HIDE DEF k, p, s
<1>2. Len(s) \in Nat /\ Len(p) \in Nat /\ k \in Int
  BY <1>1 DEF Paths
<1>3. CASE Len(p) > 1
  <2>1. Len(s) > 1 /\ Len(p) \in 1..Len(p) /\ Len(p) - 1 \in 1..Len(p)
    BY <1>1, <1>2, <1>3
  <2>2. k - 1 + Len(p) = Len(s) /\ k - 1 + (Len(p) - 1) = Len(s) - 1
    BY <1>1, <1>2
  <2>3. p[Len(p)] = s[Len(s)] /\ p[Len(p) - 1] = s[Len(s) - 1]
    BY <1>1, <2>1, <2>2
  <2>. QED BY <1>3, <2>1, <2>3 DEF HeldBy, Last, p, s
<1>4. CASE ~(Len(p) > 1)
  <2>1. k = Len(s)
    BY <1>1, <1>2, <1>4
  <2>2. Last(s) # Word
    BY <1>1, <2>1, EntryAssumption DEF Last
  <2>. QED BY <1>4, <2>2 DEF HeldBy, p, s
<1>. QED BY <1>3, <1>4

\* A text, which may be the headword of the entry open.
LEMMA HandleText ==
  ASSUME NEW d, NEW b, NEW a, NEW c, NEW z, NEW r \in Records,
         Tracks(d, b, a), Placed(d, r), Moves(b, a, r, c, z), r.kind = "text"
  PROVE  Handled(d, b, a, ObserveText(d, r), c, z, r)
<1> DEFINE e == ObserveText(d, r)
           Found == /\ ~krdict /\ d.headword = NoHeadword /\ Last(d.stack) = Word
                    /\ Len(d.stack) > 1 /\ d.stack[Len(d.stack) - 1] = WordInfo
<1>1. d \in Summaries /\ a \in Seq(Headings) /\ b \in Seq(Records) /\ r.name = Garbled
  BY DEF Tracks, Placed
<1>2. Headword(r.value) \in Headings
  BY DEF Headword, Headings, Records
<1>3. e = IF Found THEN [d EXCEPT !.headword = Headword(r.value)] ELSE d
  BY DEF ObserveText
<1>4. /\ e \in Summaries /\ e.stack = d.stack /\ e.entries = d.entries /\ e.depth = d.depth
      /\ e.headwords = d.headwords
      /\ e.headword = IF Found THEN Headword(r.value) ELSE d.headword
  BY <1>1, <1>2, <1>3 DEF Summaries
<1> HIDE DEF e
<1>5. ~Nesting(d, r)
  BY <1>1, NamesAssumption DEF Nesting
<1>6. CASE b = <<>>
  <2>1. c = b /\ z = a
    BY <1>6 DEF Moves
  <2>2. Tracks(e, c, z)
    BY <1>1, <1>4, <1>6, <2>1 DEF Tracks, Outside, Same
  <2>. QED BY <1>4, <1>5, <2>1, <2>2 DEF Handled, e
<1>7. CASE b # <<>>
  <2> DEFINE p == Path(b)[Len(b)]
             h == ExtractHeadword(b, 0)
  <2>1. c = Append(b, r) /\ z = a
    BY <1>7 DEF Moves
  <2>2. Inked(r)
    BY DEF Placed
  <2>3. /\ c \in Seq(Records) /\ c # <<>> /\ c[1] = b[1]
        /\ \A i \in 1..Len(c) : Inked(c[i])
        /\ Path(c)[Len(c)] = Stepped(p, r)
        /\ h # NoHeadword => \A n : ExtractHeadword(c, n) = h
        /\ h = NoHeadword => \A n : ExtractHeadword(c, n) =
                               IF HeldBy(r, p) THEN Headword(r.value) ELSE Numbered(n)
    BY <1>7, <2>1, <2>2, Grown
  <2>4. Stepped(p, r) = p
    BY DEF Stepped
  <2>5. HeldBy(r, p) /\ d.headword = NoHeadword <=> Found
    BY <1>7, SameEnd
  <2> HIDE DEF p, h, Found
  <2>6. Begun(c, z) = Begun(b, a)
    BY <1>7, <2>1, <2>3 DEF Begun
  <2>7. Inside(e, c)
    BY <1>4, <1>7, <2>3, <2>4 DEF Tracks, Inside, p
  <2>8. Same(d, b, a) => Same(e, c, z)
    <3> SUFFICES ASSUME Same(d, b, a) PROVE Same(e, c, z)
      OBVIOUS
    <3>1. d.headwords = a /\ d.depth = b[1].depth /\ d.headword = h
      BY <1>7 DEF Same, h
    <3>2. e.headword = ExtractHeadword(c, 0)
      BY <1>4, <2>3, <2>5, <3>1 DEF NoHeadword
    <3>. QED BY <1>4, <2>1, <2>3, <3>1, <3>2 DEF Same
  <2>9. Tracks(e, c, z)
    BY <1>1, <1>4, <2>1, <2>3, <2>6, <2>7, <2>8 DEF Tracks
  <2>. QED BY <1>4, <1>5, <2>6, <2>9 DEF Handled, e
<1>. QED BY <1>6, <1>7

\* A tail, which neither looks at.
LEMMA HandleTail ==
  ASSUME NEW d, NEW b, NEW a, NEW c, NEW z, NEW r \in Records,
         Tracks(d, b, a), Placed(d, r), Moves(b, a, r, c, z), r.kind = "tail"
  PROVE  Handled(d, b, a, d, c, z, r)
<1>1. ~Nesting(d, r)
  BY NamesAssumption DEF Nesting, Placed
<1>2. CASE b = <<>>
  BY <1>1, <1>2 DEF Moves, Handled
<1>3. CASE b # <<>>
  <2> DEFINE p == Path(b)[Len(b)]
             h == ExtractHeadword(b, 0)
  <2>1. c = Append(b, r) /\ z = a
    BY <1>3 DEF Moves
  <2>2. Inked(r)
    BY DEF Placed
  <2>3. /\ c \in Seq(Records) /\ c # <<>> /\ c[1] = b[1]
        /\ \A i \in 1..Len(c) : Inked(c[i])
        /\ Path(c)[Len(c)] = Stepped(p, r)
        /\ h # NoHeadword => \A n : ExtractHeadword(c, n) = h
        /\ h = NoHeadword => \A n : ExtractHeadword(c, n) =
                               IF HeldBy(r, p) THEN Headword(r.value) ELSE Numbered(n)
    BY <1>3, <2>1, <2>2, Grown
  <2>4. Stepped(p, r) = p /\ ~HeldBy(r, p)
    BY DEF Stepped, HeldBy
  <2> HIDE DEF p, h
  <2>5. ExtractHeadword(c, 0) = h
    BY <2>3, <2>4 DEF NoHeadword
  <2>6. Begun(c, z) = Begun(b, a)
    BY <1>3, <2>1, <2>3 DEF Begun
  <2>7. Inside(d, c)
    BY <1>3, <2>3, <2>4 DEF Tracks, Inside, p
  <2>8. Same(d, b, a) => Same(d, c, z)
    BY <1>3, <2>1, <2>3, <2>5 DEF Same, h
  <2>9. Tracks(d, c, z)
    BY <2>1, <2>3, <2>6, <2>7, <2>8 DEF Tracks
  <2>. QED BY <1>1, <2>6, <2>9 DEF Handled
<1>. QED BY <1>2, <1>3

\* A tag in an entry that does not nest another: the buffer grows by it, and the
\* audit looks for krdict's headword.
LEMMA TagInEntry ==
  ASSUME NEW d, NEW b, NEW a, Tracks(d, b, a), b # <<>>,
         NEW r \in Records, r.kind \in {"start", "empty"}, Inked(r), Same(d, b, a)
  PROVE  Capture(d, r).headword = ExtractHeadword(Append(b, r), 0)
<1> DEFINE p == Path(b)[Len(b)]
           h == ExtractHeadword(b, 0)
           c == Append(b, r)
<1>1. /\ h # NoHeadword => \A n : ExtractHeadword(c, n) = h
      /\ h = NoHeadword => \A n : ExtractHeadword(c, n) =
                             IF HeldBy(r, p) THEN Headword(r.value) ELSE Numbered(n)
  BY Grown
<1>2. d \in Summaries /\ d.depth = b[1].depth /\ d.headword = h
  BY DEF Tracks, Same
<1>3. b[1].depth \in Nat
  <2>1. b[1] \in Records
    BY DEF Tracks
  <2>. QED BY <2>1 DEF Records
<1>4. d.depth # NoDepth
  BY <1>2, <1>3 DEF NoDepth
<1>5. HeldBy(r, p) <=> krdict /\ r.name = Written
  BY DEF HeldBy
<1> HIDE DEF p, h, c
<1>6. Capture(d, r).headword =
        IF krdict /\ d.headword = NoHeadword /\ r.name = Written
          THEN Headword(r.value) ELSE d.headword
  BY <1>2, <1>4 DEF Capture, Summaries
<1>. QED BY <1>1, <1>2, <1>5, <1>6 DEF NoHeadword, c

\* What capture_krdict_headword may change.
LEMMA Captured ==
  ASSUME NEW d \in Summaries, NEW r \in Records
  PROVE  LET e == Capture(d, r) IN
         /\ e \in Summaries /\ e.stack = d.stack /\ e.entries = d.entries
         /\ e.depth = d.depth /\ e.headwords = d.headwords
         /\ d.depth = NoDepth => e = d
<1>1. Headword(r.value) \in Headings
  BY DEF Headword, Headings, Records
<1>. QED BY <1>1 DEF Capture, Summaries

\* An element is opened on the path of the audit and on that of the buffer.
LEMMA Pushed ==
  ASSUME NEW d, NEW b, NEW a, Tracks(d, b, a), b # <<>>,
         NEW r \in Records, r.kind = "start", Inked(r),
         NEW e, e.stack = Append(d.stack, r.name)
  PROVE  Inside(e, Append(b, r))
<1> DEFINE c == Append(b, r)
           p == Path(b)[Len(b)]
           q == Path(c)[Len(c)]
           k == b[1].depth + 1
<1>1. /\ c[1] = b[1] /\ q = Append(p, r.name)
  <2>1. c[1] = b[1] /\ q = Stepped(p, r)
    BY Grown
  <2>. QED BY <2>1 DEF Stepped
<1>2. /\ k \in 1..Len(d.stack) /\ d.stack[k] = Entry
      /\ \A i \in 1..(k - 1) : d.stack[i] # Entry
      /\ p \in Paths /\ Len(p) = Len(d.stack) - k + 1
      /\ \A i \in 1..Len(p) : p[i] = d.stack[k - 1 + i]
  BY DEF Tracks, Inside
<1>3. d.stack \in Paths /\ r.name \in Names \cup {Garbled}
  BY DEF Tracks, Summaries, Records
<1> HIDE DEF p, k, q
<1>4. /\ q \in Paths /\ Len(q) = Len(p) + 1 /\ q[Len(p) + 1] = r.name /\ Len(p) \in Nat
      /\ \A i \in 1..Len(p) : q[i] = p[i]
  <2>1. p \in Seq(Names \cup {Garbled})
    BY <1>2 DEF Paths
  <2>2. q = Append(p, r.name) /\ r.name \in Names \cup {Garbled}
    BY <1>1, <1>3
  <2>. QED BY <2>1, <2>2 DEF Paths
<1>5. /\ Len(e.stack) = Len(d.stack) + 1 /\ Len(d.stack) \in Nat
      /\ e.stack[Len(d.stack) + 1] = r.name
      /\ \A i \in 1..Len(d.stack) : e.stack[i] = d.stack[i]
  BY <1>3 DEF Paths
<1>6. k \in 1..Len(e.stack) /\ e.stack[k] = Entry /\ Len(q) = Len(e.stack) - k + 1
  BY <1>2, <1>4, <1>5
<1>7. \A i \in 1..(k - 1) : e.stack[i] # Entry
  BY <1>2, <1>5
<1>8. \A i \in 1..Len(q) : q[i] = e.stack[k - 1 + i]
  <2> TAKE i \in 1..Len(q)
  <2>1. CASE i = Len(p) + 1
    <3>1. k - 1 + i = Len(d.stack) + 1
      BY <1>2, <1>4, <1>5, <2>1
    <3>. QED BY <1>4, <1>5, <2>1, <3>1
  <2>2. CASE i \in 1..Len(p)
    <3>1. k - 1 + i \in 1..Len(d.stack)
      BY <1>2, <1>4, <1>5, <2>2
    <3>. QED BY <1>2, <1>4, <1>5, <2>2, <3>1
  <2>3. i = Len(p) + 1 \/ i \in 1..Len(p)
    BY <1>4
  <2>. QED BY <2>1, <2>2, <2>3
<1> HIDE DEF c
<1>9. Inside(e, c)
  BY <1>1, <1>4, <1>6, <1>7, <1>8 DEF Inside, q, k
<1>. QED BY <1>9 DEF c

\* The start of an entry.
LEMMA HandleEntry ==
  ASSUME NEW d, NEW b, NEW a, NEW c, NEW z, NEW r \in Records,
         Tracks(d, b, a), Placed(d, r), Moves(b, a, r, c, z),
         r.kind = "start", r.name = Entry
  PROVE  Handled(d, b, a, ObserveStart(d, r), c, z, r)
<1> DEFINE o == [d EXCEPT !.entries = @ + 1, !.depth = r.depth, !.headword = NoHeadword]
           g == Capture(o, r)
           e == ObserveStart(d, r)
<1>1. /\ d \in Summaries /\ a \in Seq(Headings) /\ b \in Seq(Records)
      /\ r.depth = Len(d.stack) /\ d.stack \in Paths /\ d.entries \in Nat
      /\ r.name \in Names \cup {Garbled} /\ r.depth \in Nat
  BY DEF Tracks, Placed, Summaries, Records
<1>2. NoHeadword \in Headings
  BY DEF NoHeadword, Numbered, Headings
<1>3. /\ o \in Summaries /\ o.stack = d.stack /\ o.entries = d.entries + 1
      /\ o.depth = r.depth /\ o.headword = NoHeadword /\ o.headwords = d.headwords
  <2> DEFINE o1 == [d EXCEPT !.entries = @ + 1]
             o2 == [o1 EXCEPT !.depth = r.depth]
  <2>1. /\ o1 \in Summaries /\ o1.stack = d.stack /\ o1.entries = d.entries + 1
        /\ o1.headwords = d.headwords
    <3> DEFINE n == d.entries + 1
    <3>1. n \in Nat /\ o1 = [d EXCEPT !.entries = n]
      BY <1>1 DEF Summaries
    <3> HIDE DEF n, o1
    <3>2. /\ o1 \in Summaries /\ o1.stack = d.stack /\ o1.entries = n
          /\ o1.headwords = d.headwords
      BY <1>1, <3>1 DEF Summaries
    <3>. QED BY <3>2 DEF n
  <2>2. o = [o2 EXCEPT !.headword = NoHeadword]
    OBVIOUS
  <2> HIDE DEF o1, o
  <2>3. /\ o2 \in Summaries /\ o2.stack = d.stack /\ o2.entries = d.entries + 1
        /\ o2.depth = r.depth /\ o2.headwords = d.headwords
    BY <1>1, <2>1 DEF Summaries
  <2> HIDE DEF o2
  <2>. QED BY <1>2, <2>2, <2>3 DEF Summaries
<1>4. e = [g EXCEPT !.stack = Append(@, r.name)]
  BY DEF ObserveStart
<1> HIDE DEF o
<1>5. g = o
  BY EntryAssumption DEF Capture
<1> HIDE DEF g
<1>6. /\ e \in Summaries /\ e.stack = Append(d.stack, Entry) /\ e.entries = d.entries + 1
      /\ e.depth = r.depth /\ e.headword = NoHeadword /\ e.headwords = d.headwords
  <2>1. e = [o EXCEPT !.stack = Append(o.stack, Entry)]
    BY <1>3, <1>4, <1>5 DEF Summaries
  <2>2. Append(o.stack, Entry) \in Paths
    BY <1>1, <1>3 DEF Paths
  <2> HIDE DEF e
  <2>. QED BY <1>3, <2>1, <2>2 DEF Summaries
<1> HIDE DEF e
<1>7. /\ Len(e.stack) = Len(d.stack) + 1 /\ Len(d.stack) \in Nat
      /\ e.stack[Len(d.stack) + 1] = Entry
      /\ \A i \in 1..Len(d.stack) : e.stack[i] = d.stack[i]
  BY <1>1, <1>6 DEF Paths
<1>8. CASE b = <<>>
  <2>1. c = <<r>> /\ z = a
    BY <1>8 DEF Moves
  <2>2. /\ c \in Seq(Records) /\ Len(c) = 1 /\ c[1] = r /\ Path(c)[1] = Stepped(<<>>, r)
        /\ \A n : ExtractHeadword(c, n) = Numbered(n)
    BY <2>1, EntryTag
  <2>3. Outside(d)
    BY <1>8 DEF Tracks
  <2>4. Inside(e, c)
    <3> DEFINE p == Path(c)[Len(c)]
    <3>1. p = Append(<<>>, Entry)
      BY <2>2 DEF Stepped
    <3>2. p \in Paths /\ Len(p) = 1 /\ p[1] = Entry
      BY <1>1, <3>1 DEF Paths
    <3> HIDE DEF p
    <3> DEFINE k == c[1].depth + 1
    <3>3. k = Len(d.stack) + 1
      BY <1>1, <2>2
    <3> HIDE DEF k
    <3>4. k \in 1..Len(e.stack) /\ e.stack[k] = Entry /\ Len(p) = Len(e.stack) - k + 1
      BY <1>7, <3>2, <3>3
    <3>5. \A i \in 1..(k - 1) : e.stack[i] # Entry
      BY <1>7, <2>3, <3>3 DEF Outside
    <3>6. \A i \in 1..Len(p) : p[i] = e.stack[k - 1 + i]
      BY <1>7, <3>2, <3>3
    <3>. QED BY <3>2, <3>4, <3>5, <3>6 DEF Inside, p, k
  <2>5. Begun(b, a) = Len(a) /\ Begun(c, z) = Len(a) + 1 /\ Len(a) \in Nat /\ c # <<>>
    BY <1>1, <1>8, <2>1, <2>2 DEF Begun
  <2>6. Same(d, b, a) => Same(e, c, z)
    BY <1>6, <2>1, <2>2, <2>5 DEF Same, NoHeadword
  <2>7. \A i \in 1..Len(c) : Inked(c[i])
    BY <2>2 DEF Placed
  <2>8. Begun(b, a) <= d.entries /\ (Begun(b, a) = d.entries => Same(d, b, a))
    BY DEF Tracks
  <2>9. Tracks(e, c, z)
    BY <1>1, <1>6, <2>1, <2>2, <2>4, <2>5, <2>6, <2>7, <2>8 DEF Tracks
  <2>10. ~Nesting(d, r)
    BY <2>3 DEF Nesting, Outside
  <2>. QED BY <1>1, <1>6, <2>5, <2>9, <2>10 DEF Handled, e
<1>9. CASE b # <<>>
  <2>1. c = Append(b, r) /\ z = a
    BY <1>9 DEF Moves
  <2>2. Inked(r)
    BY DEF Placed
  <2>3. /\ c \in Seq(Records) /\ c # <<>> /\ c[1] = b[1]
        /\ \A i \in 1..Len(c) : Inked(c[i])
    BY <1>9, <2>1, <2>2, Grown
  <2>4. \E i \in 1..Len(d.stack) : d.stack[i] = Entry
    BY <1>9 DEF Tracks, Inside
  <2>5. Inside(e, c)
    BY <1>6, <1>9, <2>1, <2>2, Pushed
  <2>6. Begun(c, z) = Begun(b, a) /\ Begun(b, a) \in Nat
    BY <1>1, <1>9, <2>1, <2>3 DEF Begun
  <2>7. Begun(b, a) <= d.entries
    BY DEF Tracks
  <2>8. Begun(c, z) < e.entries
    BY <1>1, <1>6, <2>6, <2>7
  <2>9. Tracks(e, c, z)
    BY <1>1, <1>6, <2>1, <2>3, <2>5, <2>6, <2>8 DEF Tracks
  <2>10. Nesting(d, r)
    BY <2>4 DEF Nesting
  <2>. QED BY <2>8, <2>9, <2>10 DEF Handled, e
<1>. QED BY <1>8, <1>9

\* The start of another element.
LEMMA HandleStart ==
  ASSUME NEW d, NEW b, NEW a, NEW c, NEW z, NEW r \in Records,
         Tracks(d, b, a), Placed(d, r), Moves(b, a, r, c, z),
         r.kind = "start", r.name # Entry
  PROVE  Handled(d, b, a, ObserveStart(d, r), c, z, r)
<1> DEFINE g == Capture(d, r)
           e == ObserveStart(d, r)
<1>1. /\ d \in Summaries /\ a \in Seq(Headings) /\ b \in Seq(Records)
      /\ d.stack \in Paths /\ r.name \in Names \cup {Garbled}
  BY DEF Tracks, Summaries, Records
<1>2. /\ g \in Summaries /\ g.stack = d.stack /\ g.entries = d.entries
      /\ g.depth = d.depth /\ g.headwords = d.headwords
      /\ d.depth = NoDepth => g = d
  BY <1>1, Captured
<1>3. e = [g EXCEPT !.stack = Append(g.stack, r.name)]
  BY DEF ObserveStart
<1> HIDE DEF g, e
<1>4. /\ e \in Summaries /\ e.stack = Append(d.stack, r.name) /\ e.entries = d.entries
      /\ e.depth = d.depth /\ e.headwords = d.headwords /\ e.headword = g.headword
  <2>1. Append(g.stack, r.name) \in Paths
    BY <1>1, <1>2 DEF Paths
  <2>. QED BY <1>2, <1>3, <2>1 DEF Summaries
<1>5. ~Nesting(d, r)
  BY DEF Nesting
<1>6. CASE b = <<>>
  <2>1. c = b /\ z = a
    BY <1>6 DEF Moves
  <2>2. Outside(e)
    <3>1. Outside(d)
      BY <1>6 DEF Tracks
    <3>2. /\ Len(e.stack) = Len(d.stack) + 1 /\ Len(d.stack) \in Nat
          /\ e.stack[Len(d.stack) + 1] = r.name
          /\ \A i \in 1..Len(d.stack) : e.stack[i] = d.stack[i]
      BY <1>1, <1>4 DEF Paths
    <3>3. \A i \in 1..Len(e.stack) : i \in 1..Len(d.stack) \/ i = Len(d.stack) + 1
      BY <3>2
    <3>. QED BY <3>1, <3>2, <3>3 DEF Outside
  <2>3. Same(d, b, a) => Same(e, c, z)
    BY <1>4, <1>6, <2>1 DEF Same
  <2>4. Tracks(e, c, z)
    BY <1>4, <1>6, <2>1, <2>2, <2>3 DEF Tracks
  <2>. QED BY <1>4, <1>5, <2>1, <2>4 DEF Handled, e
<1>7. CASE b # <<>>
  <2>1. c = Append(b, r) /\ z = a
    BY <1>7 DEF Moves
  <2>2. Inked(r)
    BY DEF Placed
  <2>3. /\ c \in Seq(Records) /\ c # <<>> /\ c[1] = b[1]
        /\ \A i \in 1..Len(c) : Inked(c[i])
    BY <1>7, <2>1, <2>2, Grown
  <2>4. Inside(e, c)
    BY <1>4, <1>7, <2>1, <2>2, Pushed
  <2>5. Begun(c, z) = Begun(b, a)
    BY <1>7, <2>1, <2>3 DEF Begun
  <2>6. Same(d, b, a) => Same(e, c, z)
    <3> SUFFICES ASSUME Same(d, b, a) PROVE Same(e, c, z)
      OBVIOUS
    <3>1. g.headword = ExtractHeadword(c, 0)
      BY <1>7, <2>1, <2>2, TagInEntry DEF g
    <3>. QED BY <1>4, <1>7, <2>1, <2>3, <3>1 DEF Same
  <2>7. Tracks(e, c, z)
    BY <1>1, <1>4, <2>1, <2>3, <2>4, <2>5, <2>6 DEF Tracks
  <2>. QED BY <1>4, <1>5, <2>5, <2>7 DEF Handled, e
<1>. QED BY <1>6, <1>7

\* An empty element: an entry of its own, or one more record of the entry open.
LEMMA HandleEmpty ==
  ASSUME NEW d, NEW b, NEW a, NEW c, NEW z, NEW r \in Records,
         Tracks(d, b, a), Placed(d, r), Moves(b, a, r, c, z), r.kind = "empty"
  PROVE  Handled(d, b, a, ObserveEmpty(d, r), c, z, r)
<1> DEFINE e == ObserveEmpty(d, r)
           x == Numbered(d.entries + 1)
<1>1. /\ d \in Summaries /\ a \in Seq(Headings) /\ b \in Seq(Records)
      /\ d.entries \in Nat /\ d.headwords \in Seq(Headings) /\ x \in Headings
  BY DEF Tracks, Summaries, Numbered, Headings
<1>2. ASSUME r.name = Entry
      PROVE  /\ e \in Summaries /\ e.stack = d.stack /\ e.entries = d.entries + 1
             /\ e.depth = d.depth /\ e.headwords = Append(d.headwords, x)
             /\ e.headword = d.headword
  <2> DEFINE n == d.entries + 1
             o == [d EXCEPT !.entries = n]
  <2>1. e = [o EXCEPT !.headwords = Append(d.headwords, x)]
    BY <1>1, <1>2 DEF ObserveEmpty, Summaries
  <2>2. n \in Nat /\ Append(d.headwords, x) \in Seq(Headings)
    BY <1>1
  <2> HIDE DEF e, n, x
  <2>3. /\ o \in Summaries /\ o.stack = d.stack /\ o.entries = n /\ o.depth = d.depth
        /\ o.headword = d.headword
    BY <1>1, <2>2 DEF Summaries
  <2> HIDE DEF o
  <2>4. /\ e \in Summaries /\ e.stack = d.stack /\ e.entries = n /\ e.depth = d.depth
        /\ e.headwords = Append(d.headwords, x) /\ e.headword = d.headword
    BY <2>1, <2>2, <2>3 DEF Summaries
  <2>. QED BY <2>4 DEF n
<1>3. ASSUME r.name # Entry
      PROVE  /\ e = Capture(d, r)
             /\ e \in Summaries /\ e.stack = d.stack /\ e.entries = d.entries
             /\ e.depth = d.depth /\ e.headwords = d.headwords
             /\ d.depth = NoDepth => e = d
  <2>1. e = Capture(d, r)
    BY <1>3 DEF ObserveEmpty
  <2> HIDE DEF e
  <2>. QED BY <1>1, <2>1, Captured
<1> HIDE DEF e
<1>4. CASE b = <<>> /\ r.name = Entry
  <2>1. c = b /\ z = Append(a, ExtractHeadword(<<r>>, Len(a) + 1))
    BY <1>4 DEF Moves
  <2>2. ExtractHeadword(<<r>>, Len(a) + 1) = Numbered(Len(a) + 1)
    BY <1>4, EntryTag
  <2>3. Outside(d) /\ Begun(b, a) <= d.entries /\ (Begun(b, a) = d.entries => Same(d, b, a))
    BY <1>4 DEF Tracks
  <2>4. z = Append(a, Numbered(Len(a) + 1)) /\ Numbered(Len(a) + 1) \in Headings
    BY <1>1, <2>1, <2>2 DEF Numbered, Headings
  <2>5. /\ z \in Seq(Headings) /\ Len(a) \in Nat
        /\ Begun(b, a) = Len(a) /\ Begun(c, z) = Len(a) + 1
    BY <1>1, <1>4, <2>1, <2>4 DEF Begun
  <2>6. Begun(c, z) = e.entries => Same(e, c, z)
    <3> SUFFICES ASSUME Begun(c, z) = e.entries PROVE Same(e, c, z)
      OBVIOUS
    <3>1. d.entries = Len(a) /\ Same(d, b, a)
      BY <1>1, <1>2, <1>4, <2>3, <2>5
    <3>2. e.headwords = z
      BY <1>2, <1>4, <2>4, <3>1 DEF Same
    <3>. QED BY <1>2, <1>4, <2>1, <3>1, <3>2 DEF Same
  <2>7. Tracks(e, c, z)
    BY <1>1, <1>2, <1>4, <2>1, <2>3, <2>5, <2>6 DEF Tracks, Outside
  <2>8. ~Nesting(d, r)
    BY <2>3 DEF Nesting, Outside
  <2>. QED BY <1>1, <1>2, <1>4, <2>5, <2>7, <2>8 DEF Handled, e
<1>5. CASE b = <<>> /\ r.name # Entry
  <2>1. c = b /\ z = a
    BY <1>5 DEF Moves
  <2>2. Tracks(e, c, z)
    BY <1>3, <1>5, <2>1 DEF Tracks, Outside, Same
  <2>. QED BY <1>3, <1>5, <2>1, <2>2 DEF Handled, Nesting, e
<1>6. CASE b # <<>>
  <2> DEFINE p == Path(b)[Len(b)]
  <2>1. c = Append(b, r) /\ z = a
    BY <1>6 DEF Moves
  <2>2. Inked(r)
    BY DEF Placed
  <2>3. /\ c \in Seq(Records) /\ c # <<>> /\ c[1] = b[1]
        /\ \A i \in 1..Len(c) : Inked(c[i])
        /\ Path(c)[Len(c)] = Stepped(p, r)
    BY <1>6, <2>1, <2>2, Grown
  <2>4. Stepped(p, r) = p
    BY DEF Stepped
  <2> HIDE DEF p
  <2>5. e.stack = d.stack /\ e \in Summaries /\ e.depth = d.depth
    BY <1>2, <1>3
  <2>6. Inside(e, c)
    BY <1>6, <2>3, <2>4, <2>5 DEF Tracks, Inside, p
  <2>7. Begun(c, z) = Begun(b, a) /\ Begun(b, a) \in Nat
    BY <1>1, <1>6, <2>1, <2>3 DEF Begun
  <2>8. Begun(b, a) <= d.entries /\ (Begun(b, a) = d.entries => Same(d, b, a))
    BY DEF Tracks
  <2>9. CASE r.name = Entry
    <3>1. Begun(c, z) < e.entries
      BY <1>1, <1>2, <2>7, <2>8, <2>9
    <3>2. Tracks(e, c, z)
      BY <1>1, <2>1, <2>3, <2>5, <2>6, <2>7, <3>1 DEF Tracks, Summaries
    <3>3. Nesting(d, r)
      BY <1>6, <2>9 DEF Nesting, Tracks, Inside
    <3>. QED BY <3>1, <3>2, <3>3 DEF Handled, e
  <2>10. CASE r.name # Entry
    <3>1. Same(d, b, a) => Same(e, c, z)
      <4> SUFFICES ASSUME Same(d, b, a) PROVE Same(e, c, z)
        OBVIOUS
      <4>1. Capture(d, r).headword = ExtractHeadword(c, 0)
        BY <1>6, <2>1, <2>2, TagInEntry
      <4>2. e.headword = ExtractHeadword(c, 0)
        BY <1>3, <2>10, <4>1
      <4>. QED BY <1>3, <1>6, <2>1, <2>3, <2>10, <4>2 DEF Same
    <3>2. Tracks(e, c, z)
      BY <1>1, <1>3, <2>1, <2>3, <2>5, <2>6, <2>7, <2>8, <2>10, <3>1 DEF Tracks
    <3>. QED BY <1>3, <2>7, <2>10, <3>2 DEF Handled, Nesting, e
  <2>. QED BY <2>9, <2>10
<1>. QED BY <1>4, <1>5, <1>6

\* What the end of an element leaves of a path.
LEMMA FrontOfPath ==
  ASSUME NEW q \in Paths, Len(q) > 0
  PROVE  /\ Front(q) \in Paths /\ Len(Front(q)) = Len(q) - 1
         /\ \A i \in 1..(Len(q) - 1) : Front(q)[i] = q[i]
<1> DEFINE n == Len(q) - 1
           u == SubSeq(q, 1, n)
<1>1. /\ 1 \in Int /\ n \in Nat /\ q \in Seq(Names \cup {Garbled})
      /\ \A i \in 1..n : q[i] \in Names \cup {Garbled}
  BY DEF Paths
<1>2. Front(q) = u
  BY DEF Front
<1> HIDE DEF n
<1>3. /\ u \in Seq(Names \cup {Garbled})
      /\ Len(u) = IF 1 <= n THEN n - 1 + 1 ELSE 0
      /\ \A i \in 1..n - 1 + 1 : u[i] = q[1 + i - 1]
  BY <1>1, SubSeqProperties
<1> HIDE DEF u
<1>4. /\ u \in Paths /\ Len(u) = n /\ \A i \in 1..n : u[i] = q[i]
  BY <1>1, <1>3 DEF Paths
<1>. QED BY <1>2, <1>4 DEF n

\* The end of an element, which may be that of the entry.
LEMMA HandleEnd ==
  ASSUME NEW d, NEW b, NEW a, NEW c, NEW z, NEW r \in Records,
         Tracks(d, b, a), Placed(d, r), Moves(b, a, r, c, z), r.kind = "end"
  PROVE  Handled(d, b, a, ObserveEnd(d, r), c, z, r)
<1> DEFINE x == IF d.headword = NoHeadword THEN Numbered(d.entries) ELSE d.headword
           Closes == d.depth = r.depth /\ Last(d.stack) = Entry
           g == IF Closes
                  THEN [d EXCEPT !.headwords = Append(@, x), !.headword = NoHeadword,
                                 !.depth = NoDepth]
                  ELSE d
           e == ObserveEnd(d, r)
<1>1. /\ d \in Summaries /\ a \in Seq(Headings) /\ b \in Seq(Records)
      /\ d.entries \in Nat /\ d.headwords \in Seq(Headings) /\ d.stack \in Paths
      /\ r.name = Garbled /\ r.depth = Len(d.stack) - 1 /\ Len(d.stack) > 0
      /\ r.depth \in Nat /\ Len(d.stack) \in Nat
  BY DEF Tracks, Summaries, Placed, Records, Paths
<1>2. x \in Headings /\ NoHeadword \in Headings
  BY <1>1 DEF NoHeadword, Numbered, Headings, Summaries
<1>3. /\ g \in Summaries /\ g.stack = d.stack /\ g.entries = d.entries
      /\ Closes => g.depth = NoDepth /\ g.headwords = Append(d.headwords, x)
      /\ ~Closes => g = d
  <2>1. CASE Closes
    <3> DEFINE u == Append(d.headwords, x)
               g1 == [d EXCEPT !.headwords = u]
               g2 == [g1 EXCEPT !.headword = NoHeadword]
    <3>1. g = [g2 EXCEPT !.depth = NoDepth]
      BY <1>1, <2>1 DEF Summaries
    <3>2. u \in Seq(Headings)
      BY <1>1, <1>2
    <3> HIDE DEF u, x, g
    <3>3. /\ g1 \in Summaries /\ g1.stack = d.stack /\ g1.entries = d.entries
          /\ g1.headwords = u
      BY <1>1, <3>2 DEF Summaries
    <3> HIDE DEF g1
    <3>4. /\ g2 \in Summaries /\ g2.stack = d.stack /\ g2.entries = d.entries
          /\ g2.headwords = u
      BY <1>2, <3>3 DEF Summaries
    <3> HIDE DEF g2
    <3>5. /\ g \in Summaries /\ g.stack = d.stack /\ g.entries = d.entries
          /\ g.headwords = u /\ g.depth = NoDepth
      BY <3>1, <3>4 DEF Summaries
    <3>. QED BY <2>1, <3>5 DEF u
  <2>2. CASE ~Closes
    BY <1>1, <2>2
  <2>. QED BY <2>1, <2>2
<1>4. e = [g EXCEPT !.stack = Front(@)]
  BY DEF ObserveEnd
<1> HIDE DEF x, g, e
<1>5. /\ e \in Summaries /\ e.stack = Front(d.stack) /\ e.entries = d.entries
      /\ e.depth = g.depth /\ e.headwords = g.headwords /\ e.headword = g.headword
  <2> DEFINE f == Front(d.stack)
  <2>1. e = [g EXCEPT !.stack = f] /\ f \in Paths
    BY <1>1, <1>3, <1>4, FrontOfPath DEF Summaries
  <2> HIDE DEF f
  <2>2. /\ e \in Summaries /\ e.stack = f /\ e.entries = d.entries
        /\ e.depth = g.depth /\ e.headwords = g.headwords /\ e.headword = g.headword
    BY <1>3, <2>1 DEF Summaries
  <2>. QED BY <2>2 DEF f
<1>6. /\ Len(e.stack) = Len(d.stack) - 1
      /\ \A i \in 1..(Len(d.stack) - 1) : e.stack[i] = d.stack[i]
  BY <1>1, <1>5, FrontOfPath
<1>7. ~Nesting(d, r)
  BY <1>1, NamesAssumption DEF Nesting
<1>8. Begun(b, a) <= d.entries /\ (Begun(b, a) = d.entries => Same(d, b, a))
  BY DEF Tracks
<1>9. CASE b = <<>>
  <2>1. c = b /\ z = a
    BY <1>1, <1>9, NamesAssumption DEF Moves
  <2>2. Outside(e)
    <3>1. Outside(d)
      BY <1>9 DEF Tracks
    <3>. QED BY <1>1, <1>6, <3>1 DEF Outside
  <2>3. Same(d, b, a) => Same(e, c, z)
    <3> SUFFICES ASSUME Same(d, b, a) PROVE Same(e, c, z)
      OBVIOUS
    <3>1. d.depth = NoDepth /\ ~Closes
      BY <1>1, <1>9 DEF Same, NoDepth
    <3>2. g = d
      BY <1>3, <3>1
    <3>. QED BY <1>5, <1>9, <2>1, <3>2 DEF Same
  <2>4. Tracks(e, c, z)
    BY <1>1, <1>5, <1>8, <1>9, <2>1, <2>2, <2>3 DEF Tracks
  <2>. QED BY <1>5, <1>7, <2>1, <2>4 DEF Handled, e
<1>10. CASE b # <<>>
  <2> DEFINE p == Path(b)[Len(b)]
             h == ExtractHeadword(b, 0)
             k == b[1].depth + 1
             t == Append(b, r)
  <2>1. Inked(r)
    BY DEF Placed
  <2>2. /\ t \in Seq(Records) /\ t # <<>> /\ t[1] = b[1]
        /\ \A i \in 1..Len(t) : Inked(t[i])
        /\ Path(t)[Len(t)] = Stepped(p, r)
        /\ h # NoHeadword => \A n : ExtractHeadword(t, n) = h
        /\ h = NoHeadword => \A n : ExtractHeadword(t, n) =
                               IF HeldBy(r, p) THEN Headword(r.value) ELSE Numbered(n)
    BY <1>10, <2>1, Grown
  <2>3. ~HeldBy(r, p) /\ Stepped(p, r) = Front(p)
    BY DEF HeldBy, Stepped
  <2>4. /\ k \in 1..Len(d.stack) /\ d.stack[k] = Entry
        /\ \A i \in 1..(k - 1) : d.stack[i] # Entry
        /\ p \in Paths /\ Len(p) = Len(d.stack) - k + 1
        /\ \A i \in 1..Len(p) : p[i] = d.stack[k - 1 + i]
    BY <1>10 DEF Tracks, Inside
  <2>5. b[1].depth \in Nat
    <3>1. b[1] \in Records
      BY <1>1, <1>10
    <3>. QED BY <3>1 DEF Records
  <2>6. Begun(b, a) = Len(a) + 1 /\ Len(a) \in Nat
    BY <1>1, <1>10 DEF Begun
  <2>7. Same(d, b, a) => d.headwords = a /\ d.depth = b[1].depth /\ d.headword = h
    BY <1>10 DEF Same
  <2> HIDE DEF p, h
  <2>8. CASE r.depth = b[1].depth
    <3>1. z = Append(a, ExtractHeadword(t, Len(a) + 1)) /\ c = <<>>
      BY <1>10, <2>8 DEF Moves
    <3>2. k = Len(d.stack)
      BY <1>1, <2>5, <2>8
    <3>3. Outside(e)
      BY <1>1, <1>6, <2>4, <3>2 DEF Outside
    <3>4. \A n \in Nat : Numbered(n) \in Headings
      BY DEF Numbered, Headings
    <3>5. Same(d, b, a) => h \in Headings
      BY <1>1, <2>7 DEF Summaries
    <3>6. ExtractHeadword(t, Len(a) + 1) =
            IF h = NoHeadword THEN Numbered(Len(a) + 1) ELSE h
      BY <2>2, <2>3
    <3>7. h \in Headings
      <4>1. \A i \in 1..Len(b) : b[i] \in Records /\ Headword(b[i].value) \in Headings
        <5> TAKE i \in 1..Len(b)
        <5>1. b[i] \in Records
          BY <1>1
        <5>. QED BY <5>1 DEF Records, Headword, Headings
      <4>2. ASSUME NEW m \in 1..Len(b), HoldsHeadword(b, m) PROVE h \in Headings
        <5>1. PICK i \in 1..Len(b) : /\ HoldsHeadword(b, i)
                                     /\ \A j \in 1..(i - 1) : ~HoldsHeadword(b, j)
          BY <1>1, <4>2, FirstHolder
        <5>2. h = Headword(b[i].value)
          BY <1>1, <5>1, ExtractFirst DEF h
        <5>. QED BY <4>1, <5>2
      <4>3. ASSUME \A m \in 1..Len(b) : ~HoldsHeadword(b, m) PROVE h \in Headings
        <5>1. h = Numbered(0)
          BY <1>1, <4>3 DEF h, ExtractHeadword
        <5>. QED BY <3>4, <5>1
      <4>. QED BY <4>2, <4>3
    <3>8. ExtractHeadword(t, Len(a) + 1) \in Headings
      BY <2>6, <3>4, <3>6, <3>7
    <3>9. z \in Seq(Headings) /\ Len(z) = Len(a) + 1
      BY <1>1, <3>1, <3>8
    <3>10. Begun(c, z) = Begun(b, a)
      BY <2>6, <3>1, <3>9 DEF Begun
    <3>11. Begun(b, a) = d.entries => Same(e, c, z)
      <4> SUFFICES ASSUME Begun(b, a) = d.entries PROVE Same(e, c, z)
        OBVIOUS
      <4>1. d.headwords = a /\ d.depth = b[1].depth /\ d.headword = h
        BY <1>8, <2>7
      <4>2. Closes
        BY <1>1, <2>4, <2>8, <3>2, <4>1 DEF Last
      <4>3. e.depth = NoDepth /\ e.headwords = Append(a, x)
        BY <1>3, <1>5, <4>1, <4>2
      <4>4. x = ExtractHeadword(t, Len(a) + 1)
        BY <2>6, <3>6, <4>1 DEF x
      <4>. QED BY <3>1, <4>3, <4>4 DEF Same
    <3>12. Tracks(e, c, z)
      BY <1>1, <1>5, <1>8, <3>1, <3>3, <3>9, <3>10, <3>11 DEF Tracks
    <3>. QED BY <1>5, <1>7, <3>10, <3>12 DEF Handled, e
  <2>9. CASE r.depth # b[1].depth
    <3>1. c = t /\ z = a
      BY <1>10, <2>9 DEF Moves
    <3>2. k < Len(d.stack)
      <4>1. k # Len(d.stack)
        BY <1>1, <2>5, <2>9
      <4> HIDE DEF k
      <4>. QED BY <1>1, <2>4, <4>1
    <3> HIDE DEF t, k
    <3>3. Inside(e, c)
      <4> DEFINE q == Path(c)[Len(c)]
      <4>1. /\ q \in Paths /\ Len(q) = Len(p) - 1
            /\ \A i \in 1..(Len(p) - 1) : q[i] = p[i]
        <5>1. q = Front(p)
          BY <2>2, <2>3, <3>1
        <5>2. Len(p) > 0
          BY <1>1, <2>4, <3>2
        <5> HIDE DEF q
        <5>. QED BY <2>4, <5>1, <5>2, FrontOfPath
      <4>2. c[1] = b[1]
        BY <2>2, <3>1
      <4> HIDE DEF q
      <4>3. k \in 1..Len(e.stack) /\ e.stack[k] = Entry /\ Len(q) = Len(e.stack) - k + 1
        BY <1>1, <1>6, <2>4, <3>2, <4>1
      <4>4. \A i \in 1..(k - 1) : e.stack[i] # Entry
        <5>1. \A i \in 1..(k - 1) : i \in 1..(Len(d.stack) - 1)
          BY <1>1, <2>4, <3>2
        <5>. QED BY <1>6, <2>4, <5>1
      <4>5. \A i \in 1..Len(q) : q[i] = e.stack[k - 1 + i]
        <5> TAKE i \in 1..Len(q)
        <5>1. i \in 1..Len(p) /\ i \in 1..(Len(p) - 1) /\ k - 1 + i \in 1..(Len(d.stack) - 1)
          BY <1>1, <2>4, <3>2, <4>1
        <5>. QED BY <1>6, <2>4, <4>1, <5>1
      <4>6. k = c[1].depth + 1
        BY <4>2 DEF k
      <4>. QED BY <4>1, <4>3, <4>4, <4>5, <4>6 DEF Inside, q
    <3>4. ExtractHeadword(c, 0) = h
      BY <2>2, <2>3, <3>1 DEF NoHeadword
    <3>5. Begun(c, z) = Begun(b, a)
      BY <1>10, <2>2, <3>1 DEF Begun
    <3>6. Same(d, b, a) => Same(e, c, z)
      <4> SUFFICES ASSUME Same(d, b, a) PROVE Same(e, c, z)
        OBVIOUS
      <4>1. d.headwords = a /\ d.depth = b[1].depth /\ d.headword = h
        BY <2>7
      <4>2. g = d
        BY <1>3, <2>9, <4>1
      <4>. QED BY <1>5, <2>2, <3>1, <3>4, <4>1, <4>2 DEF Same
    <3>7. Tracks(e, c, z)
      BY <1>1, <1>5, <1>8, <2>2, <3>1, <3>3, <3>5, <3>6 DEF Tracks
    <3>. QED BY <1>5, <1>7, <3>5, <3>7 DEF Handled, e
  <2>. QED BY <2>8, <2>9
<1>. QED BY <1>9, <1>10

\* Whatever the record, the audit's path follows it.
LEMMA StackSteps ==
  ASSUME NEW d \in Summaries, NEW r \in Records,
         r.kind \in {"start", "empty", "text", "tail", "end"}
  PROVE  Observe(d, r).stack = Stepped(d.stack, r)
<1>h. Headword(r.value) \in Headings /\ NoHeadword \in Headings
  BY DEF Headword, NoHeadword, Numbered, Headings, Records
<1>1. CASE r.kind = "start"
  <2> DEFINE o == IF r.name = Entry
                    THEN [d EXCEPT !.entries = @ + 1, !.depth = r.depth, !.headword = NoHeadword]
                    ELSE d
             g == Capture(o, r)
  <2>1. DOMAIN o = DOMAIN d /\ o.stack = d.stack
    BY DEF Summaries
  <2>2. Observe(d, r) = [g EXCEPT !.stack = Append(@, r.name)]
    BY <1>1 DEF Observe, ObserveStart
  <2> HIDE DEF o
  <2>3. DOMAIN g = DOMAIN d /\ g.stack = d.stack
    BY <2>1 DEF Capture, Summaries
  <2>4. "stack" \in DOMAIN g
    BY <2>3 DEF Summaries
  <2> HIDE DEF g
  <2>5. Observe(d, r).stack = Append(g.stack, r.name)
    BY <2>2, <2>4
  <2>. QED BY <1>1, <2>3, <2>5 DEF Stepped
<1>2. CASE r.kind = "empty"
  <2>1. Observe(d, r) = ObserveEmpty(d, r)
    BY <1>2 DEF Observe
  <2>2. ObserveEmpty(d, r).stack = d.stack
    BY DEF ObserveEmpty, Capture, Summaries
  <2>. QED BY <1>2, <2>1, <2>2 DEF Stepped
<1>3. CASE r.kind = "text"
  <2>1. Observe(d, r) = ObserveText(d, r)
    BY <1>3 DEF Observe
  <2>2. ObserveText(d, r).stack = d.stack
    BY DEF ObserveText, Summaries
  <2>. QED BY <1>3, <2>1, <2>2 DEF Stepped
<1>4. CASE r.kind = "tail"
  BY <1>4 DEF Observe, Stepped
<1>5. CASE r.kind = "end"
  <2> DEFINE x == IF d.headword = NoHeadword THEN Numbered(d.entries) ELSE d.headword
             g == IF d.depth = r.depth /\ Last(d.stack) = Entry
                    THEN [d EXCEPT !.headwords = Append(@, x), !.headword = NoHeadword,
                                   !.depth = NoDepth]
                    ELSE d
  <2>1. Observe(d, r) = [g EXCEPT !.stack = Front(@)]
    BY <1>5 DEF Observe, ObserveEnd
  <2> HIDE DEF x
  <2>2. g.stack = d.stack /\ "stack" \in DOMAIN g
    BY DEF Summaries
  <2> HIDE DEF g
  <2>3. Observe(d, r).stack = Front(g.stack)
    BY <2>1, <2>2
  <2>. QED BY <1>5, <2>2, <2>3 DEF Stepped
<1>. QED BY <1>1, <1>2, <1>3, <1>4, <1>5

\* The two see the same record.
LEMMA Handle ==
  ASSUME NEW d, NEW b, NEW a, NEW c, NEW z, NEW r \in Records,
         Tracks(d, b, a), Placed(d, r), Moves(b, a, r, c, z)
  PROVE  /\ Handled(d, b, a, Observe(d, r), c, z, r)
         /\ Observe(d, r).stack = Stepped(d.stack, r)
<1>1. d \in Summaries /\ r.kind \in {"start", "empty", "text", "tail", "end"}
  BY DEF Tracks, Placed
<1>2. ASSUME r.kind = "start" PROVE Handled(d, b, a, Observe(d, r), c, z, r)
  BY <1>2, HandleEntry, HandleStart DEF Observe
<1>3. ASSUME r.kind = "empty" PROVE Handled(d, b, a, Observe(d, r), c, z, r)
  BY <1>3, HandleEmpty DEF Observe
<1>4. ASSUME r.kind = "text" PROVE Handled(d, b, a, Observe(d, r), c, z, r)
  BY <1>4, HandleText DEF Observe
<1>5. ASSUME r.kind = "tail" PROVE Handled(d, b, a, Observe(d, r), c, z, r)
  BY <1>5, HandleTail DEF Observe
<1>6. ASSUME r.kind = "end" PROVE Handled(d, b, a, Observe(d, r), c, z, r)
  BY <1>6, HandleEnd DEF Observe
<1>. QED BY <1>1, <1>2, <1>3, <1>4, <1>5, <1>6, StackSteps

-----------------------------------------------------------------------------
(***************************************************************************)
(* The summary at any moment: the audit is ahead of the conversion by the  *)
(* records that wait, so it is what they make of a summary that goes with  *)
(* the buffer and the articles.                                            *)
(***************************************************************************)

After(d, ps) ==
  IF ps = <<>> THEN d
  ELSE IF Len(ps) = 1 THEN Observe(d, ps[1])
  ELSE Observe(Observe(d, ps[1]), ps[2])

\* What the names and attributes of a record are.
Labelled(r) ==
  /\ Inked(r)
  /\ r.kind \notin {"start", "empty"} => r.name = Garbled

Explains(d) ==
  /\ Tracks(d, buffer, articles)
  /\ Len(d.stack) = LevelOf(frames, pending)
  /\ summary = After(d, pending)
  /\ nested <=> \/ Begun(buffer, articles) < d.entries
                \/ \E i \in 1..Len(pending) : Nesting(d, pending[i])

SummaryInv ==
  outcome # "failed" =>
    /\ \A i \in 1..Len(pending) : Labelled(pending[i])
    /\ \E d : Explains(d)

\* What does not depend on the state but for the dictionary.
LEMMA SameObserve ==
  ASSUME krdict' = krdict
  PROVE  \A d, r : Observe(d, r)' = Observe(d, r)
<1>1. \A d, r : Capture(d, r)' = Capture(d, r)
  BY DEF Capture
<1>2. \A d, r : ObserveText(d, r)' = ObserveText(d, r)
  BY DEF ObserveText
<1>3. \A d, r : ObserveStart(d, r)' = ObserveStart(d, r)
  BY <1>1 DEF ObserveStart
<1>4. \A d, r : ObserveEmpty(d, r)' = ObserveEmpty(d, r)
  BY <1>1 DEF ObserveEmpty
<1>5. \A d, r : ObserveEnd(d, r)' = ObserveEnd(d, r)
  BY DEF ObserveEnd
<1>. QED BY <1>2, <1>3, <1>4, <1>5 DEF Observe

LEMMA SameTracks ==
  ASSUME krdict' = krdict
  PROVE  \A d, b, a : Tracks(d, b, a)' <=> Tracks(d, b, a)
<1>1. \A s, i : HoldsHeadword(s, i)' <=> HoldsHeadword(s, i)
  BY DEF HoldsHeadword
<1>2. \A s, n : ExtractHeadword(s, n)' = ExtractHeadword(s, n)
  BY <1>1 DEF ExtractHeadword
<1>3. \A d, b, a : Same(d, b, a)' <=> Same(d, b, a)
  BY <1>2 DEF Same
<1>. QED BY <1>3 DEF Tracks

LEMMA SameMoves ==
  \A r : Convert(r) => Moves(buffer, articles, r, buffer', articles')
BY DEF Convert, Moves, WriteArticle, bvars

\* A level is the length of the path with the record.
LEMMA LevelSteps ==
  ASSUME NEW s \in Paths, NEW r \in Tags, Len(s) = LevelOf(frames, <<r>>),
         frames \in Seq(Frames)
  PROVE  Len(Stepped(s, r)) = Len(frames)
<1>1. CASE r.kind = "start"
  <2>1. Len(s) = Len(frames) - 1
    BY <1>1, LevelForm
  <2>2. Len(Append(s, r.name)) = Len(s) + 1
    BY DEF Paths
  <2>. QED BY <1>1, <2>1, <2>2 DEF Stepped
<1>2. CASE r.kind = "end"
  <2>1. Len(s) = Len(frames) + 1
    BY <1>2, LevelForm
  <2>2. Len(Front(s)) = Len(s) - 1
    BY <2>1, FrontOfPath
  <2>. QED BY <1>2, <2>1, <2>2 DEF Stepped
<1>3. CASE r.kind = "empty"
  BY <1>3, LevelForm DEF Stepped
<1>. QED BY <1>1, <1>2, <1>3 DEF Tags

\* The audit is ahead by an event that ends in the tag r.
LEMMA TagKeeps ==
  ASSUME IInv, Alike, SummaryInv, Event, NEW r \in Tags, Labelled(r),
         pending' = Append(Flushed, r), summary' = Observe(AfterFlush, r),
         LevelOf(frames, pending)' = Len(frames), outcome' = outcome,
         UNCHANGED <<krdict, bvars>>, nested' <=> nested \/ Nesting(summary, r)
  PROVE  SummaryInv'
<1>1. outcome = "reading" /\ pending = <<>> /\ frames \in Seq(Frames)
  BY DEF Event, IInv, TypeOK
<1>2. PICK d : Explains(d)
  BY <1>1 DEF SummaryInv
<1>3. /\ Tracks(d, buffer, articles) /\ summary = d /\ Len(d.stack) = Len(frames)
      /\ nested <=> Begun(buffer, articles) < d.entries
  BY <1>1, <1>2, LevelForm DEF Explains, After
<1>4. buffer' = buffer /\ articles' = articles
  BY DEF bvars
<1>5. Tracks(d, buffer, articles)'
  BY <1>3, <1>4, SameTracks
<1>6. ASSUME Flushed = <<>>
      PROVE  SummaryInv'
  <2>1. pending' = <<r>> /\ summary' = Observe(d, r)
    BY <1>3, <1>6, SameFlush DEF AfterFlush
  <2>2. After(d, pending)' = Observe(d, r)
    BY <2>1, SameObserve DEF After
  <2>3. nested' <=> \/ Begun(buffer', articles') < d.entries
                    \/ \E i \in 1..Len(pending') : Nesting(d, pending'[i])
    BY <1>3, <1>4, <2>1
  <2>4. Explains(d)'
    BY <1>3, <1>4, <1>5, <2>1, <2>2, <2>3 DEF Explains
  <2>5. \A i \in 1..Len(pending') : Labelled(pending'[i])
    BY <2>1
  <2>. QED BY <2>4, <2>5 DEF SummaryInv
<1>7. ASSUME NEW t \in Texts, Flushed = <<t>>, Ink(t.value), t.name = Garbled
      PROVE  SummaryInv'
  <2>1. pending' = <<t, r>>
    BY <1>7, AppendPair DEF Texts, Tags
  <2>2. summary' = Observe(Observe(d, t), r)
    BY <1>3, <1>7, SameFlush DEF AfterFlush
  <2>3. After(d, pending)' = Observe(Observe(d, t), r)
    BY <2>1, SameObserve DEF After
  <2>4. Labelled(t) /\ ~Nesting(d, t)
    BY <1>7, NamesAssumption DEF Labelled, Inked, Ink, Texts, Nesting
  <2>5. \A i \in 1..Len(pending') : pending'[i] = t \/ pending'[i] = r
    BY <2>1
  <2>6. nested' <=> \/ Begun(buffer', articles') < d.entries
                    \/ \E i \in 1..Len(pending') : Nesting(d, pending'[i])
    <3>1. 2 \in 1..Len(pending') /\ pending'[2] = r
      BY <2>1
    <3>. QED BY <1>3, <1>4, <2>4, <2>5, <3>1
  <2>7. Explains(d)'
    BY <1>3, <1>4, <1>5, <2>2, <2>3, <2>6 DEF Explains
  <2>. QED BY <2>4, <2>5, <2>7 DEF SummaryInv
<1>. QED BY <1>1, <1>6, <1>7, FlushedForm

\* Nothing is given to either.
LEMMA QuietKeeps ==
  ASSUME SummaryInv, UNCHANGED <<krdict, bvars, pending, summary, nested>>,
         LevelOf(frames, pending)' = LevelOf(frames, pending),
         outcome' # "failed" => outcome # "failed"
  PROVE  SummaryInv'
<1> SUFFICES ASSUME outcome' # "failed"
             PROVE  /\ \A i \in 1..Len(pending') : Labelled(pending'[i])
                    /\ \E d : Explains(d)'
  BY DEF SummaryInv
<1>1. PICK d : Explains(d)
  BY DEF SummaryInv
<1>2. buffer' = buffer /\ articles' = articles
  BY DEF bvars
<1>3. Tracks(d, buffer, articles)'
  BY <1>1, <1>2, SameTracks DEF Explains
<1>4. After(d, pending)' = After(d, pending)
  BY SameObserve DEF After
<1>5. Explains(d)'
  BY <1>1, <1>2, <1>3, <1>4 DEF Explains
<1>. QED BY <1>5 DEF SummaryInv

\* A record is handed out.
LEMMA TakeKeeps ==
  ASSUME IInv, SummaryInv, Take, Convert(Head(pending)), UNCHANGED <<krdict, avars, nested>>
  PROVE  SummaryInv'
<1>1. /\ frames \in Seq(Frames) /\ frames' = frames /\ outcome' = outcome
      /\ outcome # "failed" /\ pending # <<>> /\ pending' = Tail(pending)
      /\ summary' = summary
  BY DEF Take, IInv, TypeOK, avars
<1>2. PICK d : Explains(d)
  BY <1>1 DEF SummaryInv
<1>3. Tracks(d, buffer, articles) /\ d \in Summaries /\ d.stack \in Paths /\ Len(d.stack) \in Nat
  BY <1>2 DEF Explains, Tracks, Summaries, Paths
<1>4. \A i \in 1..Len(pending) : Labelled(pending[i])
  BY <1>1 DEF SummaryInv
<1>5. \A r : Convert(r) => Moves(buffer, articles, r, buffer', articles')
  BY SameMoves
<1>6. ASSUME NEW r \in Tags, pending = <<r>>, TagFits(r)
      PROVE  SummaryInv'
  <2>0. PICK e : e = Observe(d, r)
    OBVIOUS
  <2>1. /\ pending' = <<>> /\ Head(pending) = r /\ Labelled(r) /\ r \in Records
        /\ summary = e /\ Len(d.stack) = LevelOf(frames, <<r>>)
        /\ nested <=> Begun(buffer, articles) < d.entries \/ Nesting(d, r)
    <3>1. pending' = <<>> /\ Head(pending) = r /\ r \in Records
      BY <1>1, <1>6 DEF Tags
    <3>2. 1 \in 1..Len(pending) /\ pending[1] = r /\ \A i \in 1..Len(pending) : i = 1
      BY <1>6
    <3>3. summary = e
      BY <1>2, <1>6, <2>0 DEF Explains, After
    <3>. QED BY <1>2, <1>4, <1>6, <3>1, <3>2, <3>3 DEF Explains
  <2>2. Placed(d, r)
    <3>1. r.kind = "start" => Len(d.stack) = Len(frames) - 1
      BY <2>1, LevelForm
    <3>2. r.kind = "end" => Len(d.stack) = Len(frames) + 1
      BY <2>1, LevelForm
    <3>. QED BY <1>1, <1>6, <2>1, <3>1, <3>2 DEF Placed, TagFits, Labelled, Tags
  <2>3. /\ Handled(d, buffer, articles, e, buffer', articles', r)
        /\ e.stack = Stepped(d.stack, r)
    BY <1>3, <1>5, <2>0, <2>1, <2>2, Handle
  <2>4. Len(e.stack) = Len(frames)
    BY <1>1, <1>3, <2>1, <2>3, LevelSteps
  <2>5. Tracks(e, buffer, articles)'
    BY <2>3, SameTracks DEF Handled
  <2>6. nested' <=> Begun(buffer', articles') < e.entries
    BY <2>1, <2>3 DEF Handled
  <2>7. Explains(e)'
    <3>1. LevelOf(frames, pending)' = Len(frames)
      BY <1>1, <2>1, LevelForm
    <3>2. After(e, pending)' = e
      BY <2>1 DEF After
    <3>3. \A i \in 1..Len(pending') : ~Nesting(e, pending'[i])
      BY <2>1
    <3>. QED BY <1>1, <2>0, <2>1, <2>4, <2>5, <2>6, <3>1, <3>2, <3>3 DEF Explains
  <2>. QED BY <2>1, <2>7 DEF SummaryInv
<1>7. ASSUME NEW t \in Texts, NEW r \in Tags, pending = <<t, r>>, TagFits(r),
             TextFits(t, LevelOf(frames, pending))
      PROVE  SummaryInv'
  <2>0. PICK e : e = Observe(d, t)
    OBVIOUS
  <2>1. /\ pending' = <<r>> /\ Head(pending) = t /\ t \in Records
        /\ Labelled(t) /\ Labelled(r)
    <3>1. 1 \in 1..Len(pending) /\ pending[1] = t /\ 2 \in 1..Len(pending) /\ pending[2] = r
      BY <1>7
    <3>. QED BY <1>1, <1>4, <1>7, <3>1 DEF Texts
  <2>2. /\ summary = Observe(e, r) /\ Len(d.stack) = LevelOf(frames, <<r>>)
        /\ Len(d.stack) = LevelOf(frames, pending)
    BY <1>2, <1>7, <2>0, LevelForm DEF Explains, After
  <2>3. nested <=> Begun(buffer, articles) < d.entries \/ Nesting(d, t) \/ Nesting(d, r)
    <3>1. /\ 1 \in 1..Len(pending) /\ pending[1] = t /\ 2 \in 1..Len(pending) /\ pending[2] = r
          /\ \A i \in 1..Len(pending) : i = 1 \/ i = 2
      BY <1>7
    <3>. QED BY <1>2, <3>1 DEF Explains
  <2>4. Placed(d, t)
    <3>1. t.depth \in Nat
      BY <2>1 DEF Records
    <3>2. t.kind = "text" => Len(d.stack) > 0
      BY <1>3, <1>7, <2>2, <3>1 DEF TextFits
    <3>. QED BY <2>1, <3>2 DEF Placed, Labelled, Texts
  <2>5. /\ Handled(d, buffer, articles, e, buffer', articles', t)
        /\ e.stack = d.stack
    <3>1. Stepped(d.stack, t) = d.stack
      BY DEF Stepped, Texts
    <3>. QED BY <1>3, <1>5, <2>0, <2>1, <2>4, <3>1, Handle
  <2>6. Tracks(e, buffer, articles)'
    BY <2>5, SameTracks DEF Handled
  <2>7. Nesting(e, r) <=> Nesting(d, r)
    BY <2>5 DEF Nesting
  <2>8. nested' <=> Begun(buffer', articles') < e.entries \/ Nesting(e, r)
    BY <2>3, <2>5, <2>7 DEF Handled
  <2>9. After(e, pending)' = Observe(e, r)
    BY <2>1, SameObserve DEF After
  <2>10. 1 \in 1..Len(pending') /\ pending'[1] = r /\ \A i \in 1..Len(pending') : i = 1
    BY <2>1
  <2>11. Len(e.stack) = LevelOf(frames, pending)'
    BY <1>1, <2>1, <2>2, <2>5
  <2>12. Explains(e)'
    BY <1>1, <2>2, <2>6, <2>8, <2>9, <2>10, <2>11 DEF Explains
  <2>. QED BY <2>1, <2>10, <2>12 DEF SummaryInv
<1>. QED BY <1>1, <1>6, <1>7 DEF IInv, PendingFits

\* The tag of a start or an empty element with the name.
LEMMA NamedTag ==
  ASSUME IInv, Event, NEW kind \in {"start", "empty"}, NEW name \in Names
  PROVE  LET r == Record(kind, Len(frames), name, {events'})
         IN r \in Tags /\ Labelled(r) /\ (Nests(name) <=> Nesting(summary, r))
<1> DEFINE r == Record(kind, Len(frames), name, {events'})
<1>1. frames \in Seq(Frames) /\ events \in Nat /\ events' = events + 1
  BY EventBounds DEF IInv, TypeOK, Event
<1>2. Len(frames) \in Nat /\ events' \in Nat /\ {events'} \ {0} # {}
  BY <1>1
<1>3. r \in Tags
  BY <1>2 DEF Record, Tags, Records
<1>4. Labelled(r)
  BY <1>2 DEF Record, Labelled, Inked
<1>5. Nests(name) <=> Nesting(summary, r)
  BY DEF Nests, Nesting, Record
<1>. QED BY <1>3, <1>4, <1>5

LEMMA SummaryStep ==
  ASSUME IInv, Alike, SummaryInv, [TwoNext]_vars
  PROVE  SummaryInv'
<1>1. Event => pending = <<>> /\ LevelOf(frames, pending) = Len(frames)
  BY LevelForm DEF Event
<1>2. ASSUME NEW name \in Names, Reads(name), StartEvent(name), AuditStart(name)
      PROVE  SummaryInv'
  <2>0. PICK r : r = Record("start", Len(frames), name, {events'})
    OBVIOUS
  <2>1. Event /\ pending' = Append(Flushed, r) /\ outcome' = outcome
    BY <1>2, <2>0 DEF StartEvent
  <2>2. summary' = Observe(AfterFlush, r)
    BY <1>2, <2>0 DEF AuditStart, Observing, Alike
  <2>3. r \in Tags /\ Labelled(r) /\ (Nests(name) <=> Nesting(summary, r))
    BY <2>0, <2>1, NamedTag
  <2>4. nested' = (nested \/ Nests(name)) /\ UNCHANGED <<krdict, bvars>>
    BY <1>2 DEF Reads
  <2>5. LevelOf(frames, pending)' = Len(frames)
    BY <1>2, StartStep
  <2>. QED BY <2>1, <2>2, <2>3, <2>4, <2>5, TagKeeps
<1>3. ASSUME NEW name \in Names, Reads(name), EmptyEvent(name), AuditEmpty(name)
      PROVE  SummaryInv'
  <2>0. PICK r : r = Record("empty", Len(frames), name, {events'})
    OBVIOUS
  <2>1. Event /\ pending' = Append(Flushed, r) /\ outcome' = outcome
    BY <1>3, <2>0 DEF EmptyEvent
  <2>2. summary' = Observe(AfterFlush, r)
    BY <1>3, <2>0 DEF AuditEmpty, Observing, Alike
  <2>3. r \in Tags /\ Labelled(r) /\ (Nests(name) <=> Nesting(summary, r))
    BY <2>0, <2>1, NamedTag
  <2>4. nested' = (nested \/ Nests(name)) /\ UNCHANGED <<krdict, bvars>>
    BY <1>3 DEF Reads
  <2>5. LevelOf(frames, pending)' = Len(frames)
    BY <1>3, EmptyStep
  <2>. QED BY <2>1, <2>2, <2>3, <2>4, <2>5, TagKeeps
<1>4. ASSUME EndEvent, AuditEnd, UNCHANGED <<krdict, bvars, nested>>
      PROVE  SummaryInv'
  <2>0. PICK r : r = Record("end", Innermost.depth, Garbled, {})
    OBVIOUS
  <2>1. Event /\ pending' = Append(Flushed, r) /\ outcome' = outcome /\ frames # <<>>
    BY <1>4, <2>0 DEF EndEvent
  <2>2. summary' = Observe(AfterFlush, r)
    BY <1>4, <2>0, <2>1 DEF AuditEnd, Observing, Alike, Last, Innermost
  <2>3. r \in Tags
    BY <2>0, <2>1, Resting DEF Tags, Records, Record, Frames
  <2>4. Labelled(r) /\ ~Nesting(summary, r)
    BY <2>0, NamesAssumption DEF Labelled, Inked, Nesting, Record
  <2>5. LevelOf(frames, pending)' = Len(frames)
    BY <1>4, EndStep
  <2>. QED BY <1>4, <2>1, <2>2, <2>3, <2>4, <2>5, TagKeeps
<1>5. ASSUME NEW ink \in BOOLEAN, TextEvent(ink), AuditText(ink),
             UNCHANGED <<krdict, bvars, nested>>
      PROVE  SummaryInv'
  <2>1. /\ Event /\ pending' = pending /\ summary' = summary
        /\ outcome' # "failed" => outcome # "failed"
    BY <1>5 DEF TextEvent, AuditText, ObservingNothing, Event
  <2>2. LevelOf(frames, pending)' = Len(frames)
    BY <1>5, TextStep
  <2>. QED BY <1>1, <1>5, <2>1, <2>2, QuietKeeps
<1>6. ASSUME EofEvent \/ IgnoredEvent \/ ErrorEvent \/ GarbledEvent,
             outcome' # "failed" => summary' = summary,
             UNCHANGED <<krdict, bvars, nested>>
      PROVE  SummaryInv'
  <2>1. CASE outcome' = "failed"
    BY <2>1 DEF SummaryInv
  <2>2. CASE outcome' # "failed"
    <3>1. /\ pending' = pending /\ frames' = frames /\ outcome = "reading"
      BY <1>6, <2>2 DEF EofEvent, IgnoredEvent, ErrorEvent, GarbledEvent, Event
    <3>2. LevelOf(frames, pending)' = LevelOf(frames, pending)
      BY <3>1
    <3>. QED BY <1>6, <2>2, <3>1, <3>2, QuietKeeps
  <2>. QED BY <2>1, <2>2
<1>7. ASSUME Follows PROVE SummaryInv'
  <2>0. UNCHANGED <<krdict, bvars, nested>>
    BY <1>7 DEF Follows
  <2>1. CASE \/ EofEvent /\ AuditEof
             \/ IgnoredEvent /\ AuditOther(auditing)
             \/ ErrorEvent /\ AuditOther("failed")
    <3>1. summary' = summary
      BY <2>1 DEF AuditEof, AuditOther, ObservingNothing
    <3>. QED BY <1>6, <2>0, <2>1, <3>1
  <2>2. CASE GarbledEvent
    <3>1. outcome' = "failed"
      BY <2>2 DEF GarbledEvent
    <3>. QED BY <1>6, <2>0, <2>2, <3>1
  <2>3. CASE \E ink \in BOOLEAN : TextEvent(ink) /\ AuditText(ink)
    BY <1>5, <2>0, <2>3
  <2>4. CASE EndEvent /\ AuditEnd
    BY <1>4, <2>0, <2>4
  <2>. QED BY <1>7, <2>1, <2>2, <2>3, <2>4 DEF Follows
<1>8. ASSUME Converts PROVE SummaryInv'
  BY <1>8, TakeKeeps DEF Converts
<1>9. ASSUME UNCHANGED vars PROVE SummaryInv'
  <2>1. /\ UNCHANGED <<krdict, bvars, pending, summary, nested>>
        /\ frames' = frames /\ outcome' = outcome
    BY <1>9 DEF vars, rvars, avars
  <2>2. LevelOf(frames, pending)' = LevelOf(frames, pending)
    BY <2>1
  <2>. QED BY <2>1, <2>2, QuietKeeps
<1>10. ASSUME NEW name \in Names, Reads(name) PROVE SummaryInv'
  BY <1>2, <1>3, <1>10 DEF Reads
<1>. QED BY <1>7, <1>8, <1>9, <1>10 DEF TwoNext

LEMMA InitSummary == TwoInit => SummaryInv
<1> SUFFICES ASSUME TwoInit PROVE SummaryInv
  OBVIOUS
<1>1. /\ frames = <<>> /\ pending = <<>> /\ buffer = <<>> /\ articles = <<>> /\ ~nested
      /\ summary = [stack |-> <<>>, entries |-> 0, depth |-> NoDepth,
                    headword |-> NoHeadword, headwords |-> <<>>]
  BY DEF TwoInit, Init
<1>2. summary \in Summaries
  BY <1>1 DEF Summaries, Paths, Headings, NoHeadword, Numbered
<1>3. summary.stack = <<>> /\ summary.entries = 0 /\ summary.depth = NoDepth
      /\ summary.headwords = <<>>
  BY <1>1
<1>4. Begun(buffer, articles) = 0
  BY <1>1 DEF Begun
<1>5. Tracks(summary, buffer, articles)
  BY <1>1, <1>2, <1>3, <1>4 DEF Tracks, Outside, Same
<1>6. LevelOf(frames, pending) = Len(frames)
  BY <1>1, LevelForm
<1>7. Explains(summary)
  BY <1>1, <1>3, <1>4, <1>5, <1>6 DEF Explains, After
<1>. QED BY <1>1, <1>7 DEF SummaryInv

\* With no element open and no record waiting, the summary is what was written.
LEMMA SummaryAtRest ==
  ASSUME IInv, SummaryInv
  PROVE  SummariesAgree
<1> SUFFICES ASSUME frames = <<>>, pending = <<>>, outcome # "failed"
             PROVE  ~nested <=> /\ summary.entries = Len(articles)
                                /\ summary.headwords = articles
  BY DEF SummariesAgree
<1>1. PICK d : Explains(d)
  BY DEF SummaryInv
<1>2. LevelOf(frames, pending) = 0
  BY LevelForm
<1>3. Tracks(d, buffer, articles) /\ Len(d.stack) = 0 /\ summary = d
      /\ (nested <=> Begun(buffer, articles) < d.entries)
  BY <1>1, <1>2 DEF Explains, After
<1>4. buffer = <<>>
  BY <1>3 DEF Tracks, Inside
<1>5. /\ Begun(buffer, articles) = Len(articles) /\ Len(articles) \in Nat /\ d.entries \in Nat
      /\ Len(articles) <= d.entries
      /\ Len(articles) = d.entries => d.headwords = articles
  BY <1>3, <1>4 DEF Tracks, Begun, Summaries, Same
<1>. QED BY <1>3, <1>5

\* Wherever a source ends, its audit has counted the entries and headwords that
\* the conversion wrote, exactly if no entry stood inside of another.
THEOREM ReadersSummariesAgree == TwoSpec => []SummariesAgree
<1>1. TwoInit => IInv /\ Alike /\ SummaryInv
  BY InitIInv, InitSummary DEF TwoInit, Init, Alike
<1>2. IInv /\ Alike /\ SummaryInv /\ [TwoNext]_vars => (IInv /\ Alike /\ SummaryInv)'
  BY AgreeStep, NextIInv, SummaryStep DEF Agreed
<1>3. IInv /\ SummaryInv => SummariesAgree
  BY SummaryAtRest
<1>. QED BY <1>1, <1>2, <1>3, PTL DEF TwoSpec
=============================================================================
