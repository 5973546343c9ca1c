------------------------- MODULE EntryImportProofs -------------------------
(***************************************************************************)
(* Theorems about EntryImport for any files, dictionaries and sources, and *)
(* any order of attempts, failures and commits.                            *)
(*                                                                         *)
(* KeysInv: what finish_entry looks up in memory and in the database is    *)
(* what keeps the ids of a corpus apart, and nothing of a rolled-back      *)
(* attempt takes part in it.                                               *)
(*                                                                         *)
(* RowsInv: at every record the open transaction holds exactly what the    *)
(* records read so far say. The path of the open entry names the elements  *)
(* open inside of it, so that its end is recognised where its element      *)
(* closes and its headword where one is given; the entities are the        *)
(* entries that are complete, their spans are apart, and each record       *)
(* belongs to the one it lies in.                                          *)
(***************************************************************************)
EXTENDS EntryImport, FiniteSetTheorems, FunctionTheorems, SequenceTheorems, TLAPS

\* A set of natural numbers that is not empty has a least element.
LEMMA LeastNatural ==
  ASSUME NEW T \in SUBSET Nat, T # {}
  PROVE  \E x \in T : \A y \in T : x <= y
<1> DEFINE less == {p \in Nat \X Nat : p[1] < p[2]}
<1>1. IsWellFoundedOn(less, Nat)
  BY NatLessThanWellFounded DEF OpToRel
<1>2. PICK x \in T : \A y \in T : ~(<<y, x>> \in less)
  <2> HIDE DEF less
  <2>. QED BY <1>1, WFMin
<1>3. \A y \in T : <<y, x>> \in less <=> y < x
  OBVIOUS
<1>4. \A y \in T : x \in Nat /\ y \in Nat /\ ~(y < x)
  BY <1>2, <1>3
<1>. QED BY <1>4

(***************************************************************************)
(* First the data, documents of any length and depth: levels, and where    *)
(* elements close; what a path of open elements holds; tables whose rows   *)
(* are numbered without a gap.                                             *)
(***************************************************************************)

\* Counting one record more.
LEMMA BetweenNext ==
  ASSUME NEW s, NEW k, NEW i \in Int, NEW j \in Int, i <= j + 1
  PROVE  /\ Between(s, k, i, j) \in Nat
         /\ Between(s, k, i, j + 1) =
              Between(s, k, i, j) + IF s[j + 1].kind = k THEN 1 ELSE 0
<1> DEFINE S(m) == {n \in i..m : s[n].kind = k}
<1>1. IsFiniteSet(S(j)) /\ Cardinality(S(j)) \in Nat
  <2>1. IsFiniteSet(i..j) /\ S(j) \in SUBSET (i..j)
    BY FS_Interval
  <2>. QED BY <2>1, FS_Subset, FS_CardinalityType
<1>2. CASE s[j + 1].kind = k
  <2>1. S(j + 1) = S(j) \cup {j + 1} /\ j + 1 \notin S(j)
    BY <1>2
  <2>. QED BY <1>1, <1>2, <2>1, FS_AddElement DEF Between
<1>3. CASE s[j + 1].kind # k
  <2>1. S(j + 1) = S(j)
    BY <1>3
  <2>2. Between(s, k, i, j + 1) = Cardinality(S(j + 1)) /\ Between(s, k, i, j) = Cardinality(S(j))
    BY DEF Between
  <2> HIDE DEF S
  <2>. QED BY <1>1, <1>3, <2>1, <2>2
<1>4. Between(s, k, i, j) \in Nat
  BY <1>1 DEF Between
<1>. QED BY <1>2, <1>3, <1>4

\* Counting in two parts.
LEMMA BetweenSplit ==
  ASSUME NEW s, NEW k, NEW i \in Nat \ {0}, NEW j \in Nat, i <= j + 1
  PROVE  Between(s, k, 1, j) = Between(s, k, 1, i - 1) + Between(s, k, i, j)
<1> DEFINE S(a, b) == {n \in a..b : s[n].kind = k}
<1>1. \A a, b \in Int : IsFiniteSet(S(a, b)) /\ Cardinality(S(a, b)) \in Nat
  <2> TAKE a, b \in Int
  <2>1. IsFiniteSet(a..b) /\ S(a, b) \in SUBSET (a..b)
    BY FS_Interval
  <2>. QED BY <2>1, FS_Subset, FS_CardinalityType
<1>2. S(1, j) = S(1, i - 1) \cup S(i, j) /\ S(1, i - 1) \cap S(i, j) = {}
  OBVIOUS
<1>3. Cardinality({}) = 0
  BY FS_EmptySet
<1> DEFINE A == S(1, i - 1)
           B == S(i, j)
<1>4. /\ IsFiniteSet(A) /\ Cardinality(A) \in Nat
      /\ IsFiniteSet(B) /\ Cardinality(B) \in Nat
  <2>1. 1 \in Int /\ i \in Int /\ i - 1 \in Int /\ j \in Int
    OBVIOUS
  <2> HIDE DEF S
  <2>. QED BY <1>1, <2>1
<1>5. S(1, j) = A \cup B /\ A \cap B = {}
  BY <1>2
<1> HIDE DEF S, A, B
<1>6. Cardinality(A \cup B) = Cardinality(A) + Cardinality(B) - Cardinality(A \cap B)
  BY <1>4, FS_Union
<1>7. Cardinality(S(1, j)) = Cardinality(A) + Cardinality(B)
  BY <1>3, <1>4, <1>5, <1>6
<1>. QED BY <1>7 DEF Between, S, A, B

\* The level goes up by one at a start, down by one at an end.
LEMMA LevelNext ==
  ASSUME NEW s, NEW n \in Nat
  PROVE  /\ Level(s, n) \in Int
         /\ s[n + 1].kind = "start" => Level(s, n + 1) = Level(s, n) + 1
         /\ s[n + 1].kind = "end" => Level(s, n + 1) = Level(s, n) - 1
         /\ s[n + 1].kind \notin {"start", "end"} => Level(s, n + 1) = Level(s, n)
BY BetweenNext DEF Level

LEMMA LevelZero == \A s : Level(s, 0) = 0
<1> TAKE s
<1>1. \A k : {n \in 1..0 : s[n].kind = k} = {}
  OBVIOUS
<1>. QED BY <1>1, FS_EmptySet DEF Level, Between

\* An element is balanced exactly where the level is that before its start.
LEMMA Balanced ==
  ASSUME NEW s, NEW i \in Nat \ {0}, NEW j \in Nat, i <= j + 1
  PROVE  Between(s, "start", i, j) = Between(s, "end", i, j)
           <=> Level(s, j) = Level(s, i - 1)
<1>1. \A k : /\ Between(s, k, 1, j) = Between(s, k, 1, i - 1) + Between(s, k, i, j)
             /\ Between(s, k, i, j) \in Nat /\ Between(s, k, 1, i - 1) \in Nat
  BY BetweenSplit, BetweenNext
<1>. QED BY <1>1 DEF Level

\* Every element of a document closes: above it the level is higher than before
\* its start, and its closing record is an end that brings the level back.
LEMMA ClosingOf ==
  ASSUME NEW s \in Documents, NEW i \in DOMAIN s, s[i].kind = "start"
  PROVE  /\ Closing(s, i) \in (i + 1)..Len(s)
         /\ s[Closing(s, i)].kind = "end"
         /\ Level(s, Closing(s, i)) = Level(s, i - 1)
         /\ \A k \in i..(Closing(s, i) - 1) : Level(s, k) > Level(s, i - 1)
<1>1. s \in Seq(SourceRecords) /\ Len(s) \in Nat /\ DOMAIN s = 1..Len(s) /\ i \in Nat \ {0}
  BY DEF Documents
<1>2. /\ \A n \in Nat : Level(s, n) \in Int
      /\ Level(s, Len(s)) = 0
      /\ Level(s, i) = Level(s, i - 1) + 1
  <2>1. i - 1 \in Nat /\ (i - 1) + 1 = i
    BY <1>1
  <2>. QED BY <2>1, LevelNext DEF Documents
<1>3. Level(s, i - 1) >= 0
  <2>1. s[i].depth \in Nat
    <3>1. s[i] \in SourceRecords
      BY <1>1
    <3>. QED BY <3>1 DEF SourceRecords
  <2>2. s[i].depth = Level(s, i - 1) - 0
    BY DEF Documents
  <2>. QED BY <1>1, <1>2, <2>1, <2>2
<1> DEFINE T == {j \in i..Len(s) : Level(s, j) <= Level(s, i - 1)}
<1>4. PICK j \in T : \A k \in T : j <= k
  <2>1. Len(s) \in T /\ T \in SUBSET Nat
    BY <1>1, <1>2, <1>3
  <2>. QED BY <2>1, LeastNatural
<1>5. j \in (i + 1)..Len(s) /\ Level(s, j) <= Level(s, i - 1)
  BY <1>1, <1>2
<1>6. \A k \in i..(j - 1) : Level(s, k) > Level(s, i - 1)
  <2> TAKE k \in i..(j - 1)
  <2>1. k \in i..Len(s) /\ k < j
    BY <1>1, <1>5
  <2>2. Level(s, k) \in Int /\ Level(s, i - 1) \in Int
    BY <1>1, <1>2, <2>1
  <2>. QED BY <1>4, <2>1, <2>2
<1>7. s[j].kind = "end" /\ Level(s, j) = Level(s, i - 1)
  <2>1. j - 1 \in Nat /\ j - 1 \in i..(j - 1) /\ (j - 1) + 1 = j
    BY <1>1, <1>5
  <2>2. Level(s, j - 1) > Level(s, i - 1)
    BY <1>6, <2>1
  <2>3. Level(s, j - 1) \in Int /\ Level(s, i - 1) \in Int
    BY <1>1, <1>2, <2>1
  <2>4. /\ s[j].kind = "start" => Level(s, j) = Level(s, j - 1) + 1
        /\ s[j].kind = "end" => Level(s, j) = Level(s, j - 1) - 1
        /\ s[j].kind \notin {"start", "end"} => Level(s, j) = Level(s, j - 1)
    BY <2>1, LevelNext
  <2>5. Level(s, j) <= Level(s, i - 1)
    BY <1>5
  <2>. QED BY <2>2, <2>3, <2>4, <2>5
<1> HIDE DEF T
<1> DEFINE P(c) == /\ Between(s, "start", i, c) = Between(s, "end", i, c)
                   /\ \A k \in i..(c - 1) : Between(s, "start", i, k) # Between(s, "end", i, k)
<1>8. \A c \in i..Len(s) : P(c) <=> /\ Level(s, c) = Level(s, i - 1)
                                    /\ \A k \in i..(c - 1) : Level(s, k) # Level(s, i - 1)
  BY <1>1, Balanced
<1>9. P(j)
  <2>1. j \in i..Len(s)
    BY <1>1, <1>5
  <2>2. \A k \in i..(j - 1) : Level(s, k) # Level(s, i - 1)
    <3> TAKE k \in i..(j - 1)
    <3>1. k \in Nat /\ i - 1 \in Nat
      BY <1>1
    <3>. QED BY <1>2, <1>6, <3>1
  <2>. QED BY <1>7, <1>8, <2>1, <2>2
<1>10. \A c \in i..Len(s) : P(c) => c = j
  <2> SUFFICES ASSUME NEW c \in i..Len(s), P(c), c # j PROVE FALSE
    OBVIOUS
  <2>1. Level(s, c) = Level(s, i - 1) /\ \A k \in i..(c - 1) : Level(s, k) # Level(s, i - 1)
    BY <1>8
  <2>2. CASE c < j
    <3>1. c \in i..(j - 1) /\ i - 1 \in Nat
      BY <1>1, <1>5, <2>2
    <3>. QED BY <1>2, <1>6, <2>1, <3>1
  <2>3. CASE j < c
    <3>1. j \in i..(c - 1)
      BY <1>1, <1>5, <2>3
    <3>. QED BY <1>7, <2>1, <3>1
  <2>. QED BY <1>1, <1>5, <2>2, <2>3
<1>11. Closing(s, i) = CHOOSE c \in i..Len(s) : P(c)
  BY DEF Closing
<1> HIDE DEF P
<1>12. Closing(s, i) = j
  <2>1. j \in i..Len(s)
    BY <1>1, <1>5
  <2>. QED BY <1>9, <1>10, <1>11, <2>1
<1>. QED BY <1>5, <1>6, <1>7, <1>12

(***************************************************************************)
(* The path of an entry names the elements open inside of it.              *)
(***************************************************************************)

\* Record j starts an element that is open after n records.
OpenAt(s, j, n) == s[j].kind = "start" /\ Closing(s, j) > n

\* After n records the path names the elements open from that which record i
\* starts, each at the place its level gives it.
PathOf(s, i, n, path) ==
  /\ path \in Seq(STRING)
  /\ Len(path) = Level(s, n) - Level(s, i - 1)
  /\ \A j \in i..n : OpenAt(s, j, n) => path[Level(s, j - 1) - Level(s, i - 1) + 1] = s[j].name
  /\ \A p \in 1..Len(path) : \E j \in i..n :
       OpenAt(s, j, n) /\ Level(s, j - 1) - Level(s, i - 1) + 1 = p

\* Record i starts an element of s that is open after n records.
OpenElement(s, i, n) ==
  /\ s \in Documents /\ i \in 1..n /\ n \in 1..(Len(s) - 1) /\ OpenAt(s, i, n)

LEMMA DocumentRecords ==
  ASSUME NEW s \in Documents
  PROVE  /\ s \in Seq(SourceRecords) /\ Len(s) \in Nat /\ DOMAIN s = 1..Len(s)
         /\ \A n \in Nat : Level(s, n) \in Int
         /\ \A i \in 1..Len(s) :
              /\ s[i].kind \in {"start", "empty", "text", "tail", "end"}
              /\ s[i].name \in STRING /\ s[i].depth \in Nat
              /\ s[i].kind = "start" => s[i].depth = Level(s, i - 1)
              /\ s[i].kind = "end" => s[i].depth = Level(s, i - 1) - 1
<1>1. s \in Seq(SourceRecords) /\ Len(s) \in Nat /\ DOMAIN s = 1..Len(s)
  BY DEF Documents
<1>2. \A n \in Nat : Level(s, n) \in Int
  BY LevelNext
<1>3. ASSUME NEW i \in 1..Len(s)
      PROVE  /\ s[i].kind \in {"start", "empty", "text", "tail", "end"}
             /\ s[i].name \in STRING /\ s[i].depth \in Nat
             /\ s[i].kind = "start" => s[i].depth = Level(s, i - 1)
             /\ s[i].kind = "end" => s[i].depth = Level(s, i - 1) - 1
  <2>1. s[i] \in SourceRecords
    BY <1>1
  <2>2. i \in DOMAIN s /\ i - 1 \in Nat
    BY <1>1
  <2>3. /\ s[i].kind = "start" => s[i].depth = Level(s, i - 1) - 0
        /\ s[i].kind = "end" => s[i].depth = Level(s, i - 1) - 1
    BY <2>2 DEF Documents
  <2>. QED BY <1>2, <2>1, <2>2, <2>3 DEF SourceRecords
<1>. QED BY <1>1, <1>2, <1>3

\* An open element lies above the level before it, and the element around it
\* below.
LEMMA OpenLevels ==
  ASSUME NEW s, NEW i, NEW n, OpenElement(s, i, n), NEW j \in i..n, OpenAt(s, j, n)
  PROVE  /\ Level(s, j - 1) \in Int /\ Level(s, i - 1) \in Int /\ Level(s, n) \in Int
         /\ Level(s, i - 1) <= Level(s, j - 1)
         /\ Level(s, j - 1) < Level(s, n)
<1>1. /\ s \in Documents /\ i \in Nat \ {0} /\ n \in Nat /\ Len(s) \in Nat /\ n < Len(s)
      /\ j \in Nat \ {0} /\ i <= j /\ j <= n
      /\ i \in DOMAIN s /\ j \in DOMAIN s /\ i - 1 \in Nat /\ j - 1 \in Nat
  <2>1. s \in Documents /\ i \in 1..n /\ n \in 1..(Len(s) - 1)
    BY DEF OpenElement
  <2>2. Len(s) \in Nat /\ DOMAIN s = 1..Len(s)
    BY <2>1, DocumentRecords
  <2>3. i \in Nat \ {0} /\ n \in Nat /\ n < Len(s) /\ i <= n
    BY <2>1, <2>2
  <2>4. j \in Nat \ {0} /\ i <= j /\ j <= n
    BY <2>3
  <2>. QED BY <2>1, <2>2, <2>3, <2>4
<1>2. /\ Closing(s, i) \in Nat /\ Closing(s, i) > n
      /\ \A k \in i..(Closing(s, i) - 1) : Level(s, k) > Level(s, i - 1)
  BY <1>1, ClosingOf DEF OpenElement, OpenAt
<1>3. /\ Closing(s, j) \in Nat /\ Closing(s, j) > n
      /\ \A k \in j..(Closing(s, j) - 1) : Level(s, k) > Level(s, j - 1)
  BY <1>1, ClosingOf DEF OpenAt
<1>4. Level(s, n) > Level(s, j - 1)
  BY <1>1, <1>3
<1>5. Level(s, j - 1) \in Int /\ Level(s, i - 1) \in Int /\ Level(s, n) \in Int
  BY <1>1, DocumentRecords
<1>6. CASE j = i
  BY <1>4, <1>5, <1>6
<1>7. CASE j # i
  <2>1. j - 1 \in i..(Closing(s, i) - 1)
    BY <1>1, <1>2, <1>7
  <2>2. Level(s, j - 1) > Level(s, i - 1)
    BY <1>2, <2>1
  <2>. QED BY <1>4, <1>5, <2>2
<1>. QED BY <1>6, <1>7

LEMMA PathStarts ==
  ASSUME NEW s \in Documents, NEW i \in 1..Len(s), s[i].kind = "start"
  PROVE  PathOf(s, i, i, <<s[i].name>>) /\ Closing(s, i) > i
<1>1. i \in DOMAIN s /\ i \in Nat \ {0} /\ i - 1 \in Nat /\ s[i].name \in STRING
  BY DocumentRecords
<1>2. Closing(s, i) \in (i + 1)..Len(s) /\ Len(s) \in Nat
  BY <1>1, ClosingOf, DocumentRecords
<1>3. Level(s, i) = Level(s, i - 1) + 1 /\ Level(s, i - 1) \in Int
  BY <1>1, LevelNext
<1> DEFINE path == <<s[i].name>>
<1>4. path \in Seq(STRING) /\ Len(path) = 1 /\ path[1] = s[i].name
  BY <1>1
<1>5. Level(s, i - 1) - Level(s, i - 1) + 1 = 1 /\ Level(s, i) - Level(s, i - 1) = 1
  BY <1>3
<1>6. \A j \in i..i : j = i
  BY <1>1
<1>7. OpenAt(s, i, i) /\ Closing(s, i) > i /\ i \in i..i
  BY <1>1, <1>2 DEF OpenAt
<1> HIDE DEF path
<1>8. PathOf(s, i, i, path)
  <2>1. \A p \in 1..Len(path) : p = 1
    BY <1>4
  <2>. QED BY <1>4, <1>5, <1>6, <1>7, <2>1 DEF PathOf
<1>. QED BY <1>7, <1>8 DEF path

\* A record that closes the open element n + 1 is an end that comes back to the
\* level before it; no other record closes anything.
LEMMA ClosesAt ==
  ASSUME NEW s, NEW i, NEW n, OpenElement(s, i, n), NEW j \in i..n, OpenAt(s, j, n)
  PROVE  Closing(s, j) = n + 1
           <=> s[n + 1].kind = "end" /\ Level(s, j - 1) + 1 = Level(s, n)
<1>1. /\ s \in Documents /\ i \in Nat \ {0} /\ n \in Nat /\ Len(s) \in Nat /\ n < Len(s)
      /\ j \in Nat \ {0} /\ i <= j /\ j <= n
      /\ j \in DOMAIN s /\ j - 1 \in Nat /\ n + 1 \in Nat
  BY DocumentRecords DEF OpenElement
<1>2. /\ Closing(s, j) \in (j + 1)..Len(s) /\ Closing(s, j) > n
      /\ s[Closing(s, j)].kind = "end"
      /\ Level(s, Closing(s, j)) = Level(s, j - 1)
      /\ \A k \in j..(Closing(s, j) - 1) : Level(s, k) > Level(s, j - 1)
  BY <1>1, ClosingOf DEF OpenAt
<1>3. /\ Level(s, n) \in Int /\ Level(s, j - 1) \in Int
      /\ s[n + 1].kind = "end" => Level(s, n + 1) = Level(s, n) - 1
  BY <1>1, LevelNext
<1>4. ASSUME Closing(s, j) = n + 1
      PROVE  s[n + 1].kind = "end" /\ Level(s, j - 1) + 1 = Level(s, n)
  BY <1>2, <1>3, <1>4
<1>5. ASSUME s[n + 1].kind = "end", Level(s, j - 1) + 1 = Level(s, n), Closing(s, j) # n + 1
      PROVE  FALSE
  <2>1. n + 1 \in j..(Closing(s, j) - 1)
    BY <1>1, <1>2, <1>5
  <2>2. Level(s, n + 1) > Level(s, j - 1)
    BY <1>2, <2>1
  <2>. QED BY <1>3, <1>5, <2>2
<1>. QED BY <1>4, <1>5

LEMMA ElementFacts ==
  ASSUME NEW s, NEW i, NEW n, OpenElement(s, i, n)
  PROVE  /\ s \in Documents /\ i \in Nat \ {0} /\ n \in Nat /\ i <= n
         /\ Len(s) \in Nat /\ n < Len(s) /\ n + 1 \in 1..Len(s)
         /\ \A k \in Nat : Level(s, k) \in Int
         /\ Level(s, i - 1) \in Int /\ Level(s, n) \in Int /\ Level(s, i - 1) < Level(s, n)
         /\ s[n + 1].name \in STRING
<1>1. /\ s \in Documents /\ i \in Nat \ {0} /\ n \in Nat /\ i <= n
      /\ Len(s) \in Nat /\ n < Len(s) /\ n + 1 \in 1..Len(s)
  BY DocumentRecords DEF OpenElement
<1>2. i \in i..n /\ OpenAt(s, i, n)
  BY <1>1 DEF OpenElement
<1>3. \A k \in Nat : Level(s, k) \in Int
  BY <1>1, DocumentRecords
<1>4. s[n + 1].name \in STRING
  BY <1>1, DocumentRecords
<1>. QED BY <1>1, <1>2, <1>3, <1>4, OpenLevels

\* The place of an open element on the path.
LEMMA OpenPlace ==
  ASSUME NEW s, NEW i, NEW n, OpenElement(s, i, n), NEW j \in i..n, OpenAt(s, j, n)
  PROVE  Level(s, j - 1) - Level(s, i - 1) + 1 \in 1..(Level(s, n) - Level(s, i - 1))
<1>1. /\ Level(s, j - 1) \in Int /\ Level(s, i - 1) \in Int /\ Level(s, n) \in Int
      /\ Level(s, i - 1) <= Level(s, j - 1)
      /\ Level(s, j - 1) < Level(s, n)
  BY OpenLevels
<1>. QED BY <1>1

\* A start element is opened.
LEMMA PathPushed ==
  ASSUME NEW s, NEW i, NEW n, OpenElement(s, i, n), s[n + 1].kind = "start",
         NEW path, PathOf(s, i, n, path)
  PROVE  PathOf(s, i, n + 1, Append(path, s[n + 1].name)) /\ Closing(s, i) > n + 1
<1>1. /\ s \in Documents /\ i \in Nat \ {0} /\ n \in Nat /\ i <= n
      /\ Len(s) \in Nat /\ n < Len(s) /\ n + 1 \in 1..Len(s)
      /\ \A k \in Nat : Level(s, k) \in Int
      /\ Level(s, i - 1) \in Int /\ Level(s, n) \in Int /\ Level(s, i - 1) < Level(s, n)
      /\ s[n + 1].name \in STRING
  BY ElementFacts
<1> DEFINE base == Level(s, i - 1)
           size == Level(s, n) - base
           new == Append(path, s[n + 1].name)
<1>2. Level(s, n + 1) = Level(s, n) + 1
  BY <1>1, LevelNext
<1>3. /\ new \in Seq(STRING) /\ Len(new) = size + 1 /\ new[size + 1] = s[n + 1].name
      /\ \A p \in 1..size : new[p] = path[p]
      /\ size \in Nat /\ Len(path) = size
  BY <1>1 DEF PathOf
<1>4. OpenAt(s, n + 1, n + 1)
  BY <1>1, PathStarts DEF OpenAt
<1>5. \A j \in i..n : OpenAt(s, j, n + 1) <=> OpenAt(s, j, n)
  <2> TAKE j \in i..n
  <2>1. OpenAt(s, j, n) => Closing(s, j) # n + 1
    BY ClosesAt
  <2>2. s[j].kind = "start" => Closing(s, j) \in Int
    <3>1. j \in DOMAIN s
      BY <1>1, DocumentRecords
    <3>. QED BY <1>1, <3>1, ClosingOf, DocumentRecords
  <2>. QED BY <1>1, <2>1, <2>2 DEF OpenAt
<1>6. \A j \in i..n : OpenAt(s, j, n) => Level(s, j - 1) - base + 1 \in 1..size
  BY OpenPlace
<1> HIDE DEF new
<1>7. \A j \in i..(n + 1) : OpenAt(s, j, n + 1) => new[Level(s, j - 1) - base + 1] = s[j].name
  <2> SUFFICES ASSUME NEW j \in i..(n + 1), OpenAt(s, j, n + 1)
               PROVE  new[Level(s, j - 1) - base + 1] = s[j].name
    OBVIOUS
  <2>1. CASE j = n + 1
    BY <1>1, <1>3, <2>1
  <2>2. CASE j # n + 1
    <3>1. j \in i..n /\ OpenAt(s, j, n)
      BY <1>1, <1>5, <2>2
    <3>. QED BY <1>3, <1>6, <3>1 DEF PathOf
  <2>. QED BY <2>1, <2>2
<1>8. \A p \in 1..Len(new) : \E j \in i..(n + 1) :
        OpenAt(s, j, n + 1) /\ Level(s, j - 1) - base + 1 = p
  <2> TAKE p \in 1..Len(new)
  <2>1. CASE p = size + 1
    <3>1. n + 1 \in i..(n + 1)
      BY <1>1
    <3>2. (n + 1) - 1 = n
      BY <1>1
    <3>3. Level(s, (n + 1) - 1) - base + 1 = p
      BY <2>1, <3>2
    <3>. QED BY <1>4, <3>1, <3>3
  <2>2. CASE p # size + 1
    <3>1. p \in 1..Len(path)
      BY <1>1, <1>3, <2>2
    <3>2. PICK j \in i..n : OpenAt(s, j, n) /\ Level(s, j - 1) - base + 1 = p
      BY <3>1 DEF PathOf
    <3>3. j \in i..(n + 1)
      BY <1>1
    <3>. QED BY <1>5, <3>2, <3>3
  <2>. QED BY <2>1, <2>2
<1>9. Len(new) = Level(s, n + 1) - base
  BY <1>1, <1>2, <1>3
<1>10. Closing(s, i) > n + 1
  <2>1. i \in i..n /\ OpenAt(s, i, n)
    BY <1>1 DEF OpenElement
  <2>. QED BY <1>5, <2>1 DEF OpenAt
<1>. QED BY <1>3, <1>7, <1>8, <1>9, <1>10 DEF PathOf, new

\* An empty element, text or tail changes nothing.
LEMMA PathKept ==
  ASSUME NEW s, NEW i, NEW n, OpenElement(s, i, n), s[n + 1].kind \notin {"start", "end"},
         NEW path, PathOf(s, i, n, path)
  PROVE  PathOf(s, i, n + 1, path) /\ Closing(s, i) > n + 1
<1>1. /\ s \in Documents /\ i \in Nat \ {0} /\ n \in Nat /\ i <= n
      /\ Len(s) \in Nat /\ n < Len(s) /\ n + 1 \in 1..Len(s)
      /\ \A k \in Nat : Level(s, k) \in Int
  BY ElementFacts
<1>2. Level(s, n + 1) = Level(s, n)
  BY <1>1, LevelNext
<1>3. \A j \in i..n : OpenAt(s, j, n + 1) <=> OpenAt(s, j, n)
  <2> TAKE j \in i..n
  <2>1. OpenAt(s, j, n) => Closing(s, j) # n + 1
    BY ClosesAt
  <2>2. s[j].kind = "start" => Closing(s, j) \in Int
    <3>1. j \in DOMAIN s
      BY <1>1, DocumentRecords
    <3>. QED BY <1>1, <3>1, ClosingOf, DocumentRecords
  <2>. QED BY <1>1, <2>1, <2>2 DEF OpenAt
<1>4. \A j \in i..(n + 1) : OpenAt(s, j, n + 1) => j \in i..n
  BY <1>1 DEF OpenAt
<1>5. \A j \in i..n : j \in i..(n + 1)
  BY <1>1
<1>6. i \in i..n /\ OpenAt(s, i, n)
  BY <1>1 DEF OpenElement
<1>. QED BY <1>2, <1>3, <1>4, <1>5, <1>6 DEF PathOf, OpenAt

\* The end of an element inside of the entry.
LEMMA PathPopped ==
  ASSUME NEW s, NEW i, NEW n, OpenElement(s, i, n), s[n + 1].kind = "end",
         NEW path, PathOf(s, i, n, path), Closing(s, i) # n + 1
  PROVE  PathOf(s, i, n + 1, SubSeq(path, 1, Len(path) - 1)) /\ Closing(s, i) > n + 1
<1>1. /\ s \in Documents /\ i \in Nat \ {0} /\ n \in Nat /\ i <= n
      /\ Len(s) \in Nat /\ n < Len(s) /\ n + 1 \in 1..Len(s)
      /\ \A k \in Nat : Level(s, k) \in Int
      /\ Level(s, i - 1) \in Int /\ Level(s, n) \in Int /\ Level(s, i - 1) < Level(s, n)
  BY ElementFacts
<1> DEFINE base == Level(s, i - 1)
           size == Level(s, n) - base
           new == SubSeq(path, 1, Len(path) - 1)
<1>2. Level(s, n + 1) = Level(s, n) - 1
  BY <1>1, LevelNext
<1>3. size \in Nat /\ size >= 1 /\ Len(path) = size /\ path \in Seq(STRING)
  BY <1>1 DEF PathOf
<1>4. /\ new \in Seq(STRING) /\ Len(new) = size - 1
      /\ \A p \in 1..(size - 1) : new[p] = path[p]
  <2> HIDE DEF size
  <2>1. 1 \in Int /\ size - 1 \in Int /\ \A p \in 1..(size - 1) : path[p] \in STRING
    BY <1>3
  <2>2. /\ new \in Seq(STRING)
        /\ Len(new) = IF 1 <= size - 1 THEN size - 1 - 1 + 1 ELSE 0
        /\ \A p \in 1..(size - 1) - 1 + 1 : new[p] = path[1 + p - 1]
    BY <1>3, <2>1, SubSeqProperties
  <2> HIDE DEF new
  <2>. QED BY <1>3, <2>2
<1>5. \A j \in i..n : OpenAt(s, j, n + 1) <=> OpenAt(s, j, n) /\ Level(s, j - 1) - base + 1 # size
  <2> TAKE j \in i..n
  <2>1. OpenAt(s, j, n) => (Closing(s, j) = n + 1 <=> Level(s, j - 1) + 1 = Level(s, n))
    BY ClosesAt
  <2>2. s[j].kind = "start" => Closing(s, j) \in Int
    <3>1. j \in DOMAIN s
      BY <1>1, DocumentRecords
    <3>. QED BY <1>1, <3>1, ClosingOf, DocumentRecords
  <2>3. Level(s, j - 1) + 1 = Level(s, n) <=> Level(s, j - 1) - base + 1 = size
    <3>1. j - 1 \in Nat
      BY <1>1
    <3>2. Level(s, j - 1) \in Int
      BY <1>1, <3>1
    <3>3. \A a, b, c \in Int : a + 1 = c <=> a - b + 1 = c - b
      OBVIOUS
    <3>4. base \in Int /\ Level(s, n) \in Int /\ size = Level(s, n) - base
      BY <1>1
    <3> HIDE DEF base, size
    <3>. QED BY <3>2, <3>3, <3>4
  <2>4. OpenAt(s, j, n + 1) <=> OpenAt(s, j, n) /\ Closing(s, j) # n + 1
    BY <1>1, <2>2 DEF OpenAt
  <2> HIDE DEF size, base
  <2>. QED BY <2>1, <2>3, <2>4
<1>6. \A j \in i..n : OpenAt(s, j, n) => Level(s, j - 1) - base + 1 \in 1..size
  BY OpenPlace
<1>7. \A j \in i..(n + 1) : OpenAt(s, j, n + 1) => j \in i..n
  BY <1>1 DEF OpenAt
<1> HIDE DEF new
<1>8. \A j \in i..(n + 1) : OpenAt(s, j, n + 1) => new[Level(s, j - 1) - base + 1] = s[j].name
  <2> SUFFICES ASSUME NEW j \in i..(n + 1), OpenAt(s, j, n + 1)
               PROVE  new[Level(s, j - 1) - base + 1] = s[j].name
    OBVIOUS
  <2> DEFINE p == Level(s, j - 1) - base + 1
  <2>1. j \in i..n /\ OpenAt(s, j, n) /\ p # size
    BY <1>5, <1>7
  <2>2. p \in 1..size /\ path[p] = s[j].name
    BY <1>6, <2>1 DEF PathOf
  <2> HIDE DEF p
  <2>3. p \in 1..(size - 1)
    BY <1>3, <2>1, <2>2
  <2>. QED BY <1>4, <2>2, <2>3 DEF p
<1>9. \A p \in 1..Len(new) : \E j \in i..(n + 1) :
        OpenAt(s, j, n + 1) /\ Level(s, j - 1) - base + 1 = p
  <2> TAKE p \in 1..Len(new)
  <2>1. p \in 1..Len(path) /\ p # size
    BY <1>3, <1>4
  <2>2. PICK j \in i..n : OpenAt(s, j, n) /\ Level(s, j - 1) - base + 1 = p
    BY <2>1 DEF PathOf
  <2>3. j \in i..(n + 1)
    BY <1>1
  <2>. QED BY <1>5, <2>1, <2>2, <2>3
<1>10. Len(new) = Level(s, n + 1) - base
  BY <1>1, <1>2, <1>3, <1>4
<1>11. Closing(s, i) > n + 1
  <2>1. OpenAt(s, i, n) /\ i \in DOMAIN s
    BY <1>1, DocumentRecords DEF OpenElement
  <2>2. Closing(s, i) \in Int
    BY <1>1, <2>1, ClosingOf, DocumentRecords DEF OpenAt
  <2>. QED BY <1>1, <2>1, <2>2 DEF OpenAt
<1>. QED BY <1>4, <1>8, <1>9, <1>10, <1>11 DEF PathOf, new

\* The element of a text is the one started directly before it.
LEMMA PathOfText ==
  ASSUME NEW s, NEW i, NEW n, OpenElement(s, i, n), s[n + 1].kind = "text",
         NEW path, PathOf(s, i, n, path)
  PROVE  Len(path) >= 1 /\ path[Len(path)] = s[n].name
<1>1. /\ s \in Documents /\ i \in Nat \ {0} /\ n \in Nat /\ i <= n
      /\ Len(s) \in Nat /\ n < Len(s) /\ n + 1 \in 1..Len(s)
      /\ \A k \in Nat : Level(s, k) \in Int
      /\ Level(s, i - 1) \in Int /\ Level(s, n) \in Int /\ Level(s, i - 1) < Level(s, n)
  BY ElementFacts
<1>2. s[n].kind = "start"
  <2>1. n + 1 \in DOMAIN s /\ (n + 1) - 1 = n
    BY <1>1, DocumentRecords
  <2>. QED BY <1>1, <2>1 DEF Documents
<1>3. n \in i..n /\ n \in 1..Len(s) /\ n - 1 \in Nat /\ (n - 1) + 1 = n
  BY <1>1
<1>4. OpenAt(s, n, n)
  BY <1>1, <1>2, <1>3, PathStarts DEF OpenAt
<1>5. Level(s, n) = Level(s, n - 1) + 1
  BY <1>2, <1>3, LevelNext
<1>6. path[Level(s, n - 1) - Level(s, i - 1) + 1] = s[n].name
      /\ Len(path) = Level(s, n) - Level(s, i - 1)
  BY <1>3, <1>4 DEF PathOf
<1>7. Level(s, n - 1) \in Int
  BY <1>1, <1>3
<1>8. Level(s, n - 1) - Level(s, i - 1) + 1 = Level(s, n) - Level(s, i - 1)
  BY <1>1, <1>5, <1>7
<1>. QED BY <1>1, <1>6, <1>8

\* A name is on the path of a record inside of the entry exactly if the record
\* stands under an element of that name.
LEMMA PathInside ==
  ASSUME NEW s, NEW i, NEW n, OpenElement(s, i, n), s[n + 1].kind # "end",
         NEW path, PathOf(s, i, n, path), NEW name, s[i].name # name
  PROVE  (\E p \in DOMAIN path : path[p] = name) <=> Under(s, name, i, n + 1)
<1>1. /\ s \in Documents /\ i \in Nat \ {0} /\ n \in Nat /\ i <= n
      /\ Len(s) \in Nat /\ n < Len(s) /\ n + 1 \in 1..Len(s)
      /\ \A k \in Nat : Level(s, k) \in Int
      /\ Level(s, i - 1) \in Int /\ Level(s, n) \in Int /\ Level(s, i - 1) < Level(s, n)
  BY ElementFacts
<1>2. path \in Seq(STRING) /\ DOMAIN path = 1..Len(path) /\ Len(path) \in Nat
      /\ Len(path) = Level(s, n) - Level(s, i - 1)
  BY DEF PathOf
<1>3. \A j \in i..n : OpenAt(s, j, n) <=> s[j].kind = "start" /\ Closing(s, j) > n + 1
  <2> TAKE j \in i..n
  <2>1. OpenAt(s, j, n) => Closing(s, j) # n + 1
    BY ClosesAt
  <2>2. s[j].kind = "start" => Closing(s, j) \in Int
    <3>1. j \in DOMAIN s
      BY <1>1, DocumentRecords
    <3>. QED BY <1>1, <3>1, ClosingOf, DocumentRecords
  <2>3. PICK c : c = Closing(s, j)
    OBVIOUS
  <2>4. CASE s[j].kind = "start"
    <3>1. OpenAt(s, j, n) <=> c > n
      BY <2>3, <2>4 DEF OpenAt
    <3>2. c \in Int /\ n \in Int /\ (c > n => c # n + 1)
      BY <1>1, <2>1, <2>2, <2>3, <2>4, <3>1
    <3>3. c > n <=> c > n + 1
      BY <3>2
    <3>. QED BY <2>3, <2>4, <3>1, <3>3
  <2>5. CASE s[j].kind # "start"
    BY <2>5 DEF OpenAt
  <2>. QED BY <2>4, <2>5
<1>4. ASSUME NEW p \in DOMAIN path, path[p] = name PROVE Under(s, name, i, n + 1)
  <2>1. PICK j \in i..n : OpenAt(s, j, n) /\ Level(s, j - 1) - Level(s, i - 1) + 1 = p
    BY <1>2 DEF PathOf
  <2>2. s[j].name = name
    BY <1>4, <2>1 DEF PathOf
  <2>3. j \in (i + 1)..((n + 1) - 1)
    BY <1>1, <2>2
  <2>. QED BY <1>3, <2>1, <2>2, <2>3 DEF Under
<1>5. ASSUME Under(s, name, i, n + 1) PROVE \E p \in DOMAIN path : path[p] = name
  <2>1. PICK j \in (i + 1)..((n + 1) - 1) :
          s[j].kind = "start" /\ s[j].name = name /\ Closing(s, j) > n + 1
    BY <1>5 DEF Under
  <2>2. j \in i..n /\ OpenAt(s, j, n)
    BY <1>1, <1>3, <2>1
  <2> DEFINE p == Level(s, j - 1) - Level(s, i - 1) + 1
  <2>3. path[p] = s[j].name
    BY <2>2 DEF PathOf
  <2>4. p \in 1..Len(path)
    BY <1>2, <2>2, OpenLevels
  <2>. QED BY <1>2, <2>1, <2>3, <2>4
<1>. QED BY <1>4, <1>5

(***************************************************************************)
(* Tables with an ordinal.                                                 *)
(***************************************************************************)

\* The rows of R are numbered from 0 to n - 1.
Numbered(R, n) ==
  /\ \A r \in R : r.ordinal \in 0..(n - 1)
  /\ \A k \in 0..(n - 1) : \E r \in R : r.ordinal = k
  /\ \A q, r \in R : q.ordinal = r.ordinal => q = r

LEMMA NumberedCount ==
  ASSUME NEW R, NEW n \in Nat, Numbered(R, n)
  PROVE  IsFiniteSet(R) /\ Cardinality(R) = n
<1> DEFINE f == [r \in R |-> r.ordinal]
<1>1. f \in Bijection(R, 0..(n - 1))
  <2>1. f \in Injection(R, 0..(n - 1))
    BY Fun_IsInj DEF Numbered
  <2>2. f \in Surjection(R, 0..(n - 1))
    BY Fun_IsSurj DEF Numbered
  <2>. QED BY <2>1, <2>2 DEF Bijection
<1>2. ExistsBijection(0..(n - 1), R)
  BY <1>1, Fun_ExistsBijSymmetric DEF ExistsBijection
<1>3. IsFiniteSet(0..(n - 1)) /\ Cardinality(0..(n - 1)) = n
  BY FS_Interval
<1>. QED BY <1>2, <1>3, FS_Bijection

\* The rows before one of them are a table too.
LEMMA NumberedBefore ==
  ASSUME NEW R, NEW n \in Nat, Numbered(R, n), NEW r \in R
  PROVE  Cardinality({q \in R : q.ordinal < r.ordinal}) = r.ordinal
<1>1. r.ordinal \in Nat /\ r.ordinal \in 0..(n - 1)
  BY DEF Numbered
<1>2. Numbered({q \in R : q.ordinal < r.ordinal}, r.ordinal)
  BY <1>1 DEF Numbered
<1>. QED BY <1>1, <1>2, NumberedCount

LEMMA NumberedOrdered ==
  ASSUME NEW R, NEW n \in Nat, Numbered(R, n)
  PROVE  /\ DOMAIN Ordered(R) = 1..n
         /\ \A i \in 1..n : Ordered(R)[i] \in R /\ Ordered(R)[i].ordinal = i - 1
<1> DEFINE P(i, r) == Cardinality({q \in R : q.ordinal < r.ordinal}) = i - 1
<1>1. Ordered(R) = [i \in 1..n |-> CHOOSE r \in R : P(i, r)]
  BY NumberedCount DEF Ordered
<1>2. ASSUME NEW i \in 1..n
      PROVE  (CHOOSE r \in R : P(i, r)) \in R /\ (CHOOSE r \in R : P(i, r)).ordinal = i - 1
  <2>1. PICK r \in R : r.ordinal = i - 1
    BY DEF Numbered
  <2>2. P(i, r)
    BY <2>1, NumberedBefore
  <2>3. (CHOOSE q \in R : P(i, q)) \in R /\ P(i, CHOOSE q \in R : P(i, q))
    BY <2>2
  <2>. QED BY <2>3, NumberedBefore
<1> HIDE DEF P
<1>. QED BY <1>1, <1>2

LEMMA NumberedContiguous ==
  ASSUME NEW R, NEW n \in Nat, Numbered(R, n)
  PROVE  Ordinals(R) = 0..(n - 1) /\ Contiguous(Ordinals(R))
<1>1. Ordinals(R) = 0..(n - 1)
  BY DEF Ordinals, Numbered
<1>2. Cardinality(0..(n - 1)) = n
  BY FS_Interval
<1>. QED BY <1>1, <1>2 DEF Contiguous

\* A row more, with the next ordinal.
LEMMA NumberedNext ==
  ASSUME NEW R, NEW n \in Nat, Numbered(R, n), NEW x, x.ordinal = n
  PROVE  Numbered(R \cup {x}, n + 1)
BY DEF Numbered

\* Rows rewritten without touching their ordinals.
LEMMA NumberedRewritten ==
  ASSUME NEW R, NEW n \in Nat, Numbered(R, n), NEW T,
         \A t \in T : \E r \in R : t.ordinal = r.ordinal,
         \A r \in R : \E t \in T : t.ordinal = r.ordinal,
         \A t, u \in T : t.ordinal = u.ordinal => t = u
  PROVE  Numbered(T, n)
BY DEF Numbered

(***************************************************************************)
(* The ids of a corpus.                                                    *)
(***************************************************************************)

\* The keys an attempt remembers are those of the entities it has written.
KeysWritten ==
  file # <<>> => \A k \in keys : \E e \in entities : e.key = k /\ e.file = file[1]

\* An open transaction has not failed yet.
NotRefused == file # <<>> => outcome = "none"

\* No two entities, committed or about to be, have one canonical id.
IdsUnique == \A a, b \in db.entities \cup entities : a.id = b.id => a = b

\* An id is made of the dictionary and the key.
IdsOfKeys ==
  \A e \in db.entities \cup entities : e.id = CanonicalId(DictionaryOf[e.file], e.key)

\* What belongs to an attempt goes with it.
NothingBetween == file = <<>> => entities = {}

KeysInv == KeysWritten /\ NotRefused /\ IdsUnique /\ IdsOfKeys /\ NothingBetween

LEMMA KeysInvInit == Init => KeysInv
BY DEF Init, KeysInv, KeysWritten, NotRefused, IdsUnique, IdsOfKeys, NothingBetween

\* The arms of the record loop that only insert rows and follow the entry.
LEMMA KeptStep ==
  ASSUME KeysInv, Kept
  PROVE  KeysInv'
BY DEF Kept, KeysInv, KeysWritten, NotRefused, IdsUnique, IdsOfKeys, NothingBetween

LEMMA RollBackStep ==
  ASSUME KeysInv, NEW reason, RollBack(reason)
  PROVE  KeysInv'
BY DEF RollBack, KeysInv, KeysWritten, NotRefused, IdsUnique, IdsOfKeys, NothingBetween

LEMMA PairParts ==
  ASSUME NEW x, NEW y, NEW u, NEW v, <<x, y>> = <<u, v>>
  PROVE  x = u /\ y = v
OBVIOUS

\* The entity of a complete entry, if nothing is wrong with it: its id is new.
LEMMA RowIsNew ==
  ASSUME KeysInv, NEW e, NEW n, Fault(e) = "", NEW a \in db.entities \cup entities
  PROVE  a.id # EntityRow(e, n).id
<1>1. EntityRow(e, n).id = <<Dictionary, Normalized(e.key)>>
  BY DEF EntityRow, CanonicalId
<1>2. a.id = <<DictionaryOf[a.file], a.key>>
  BY DEF KeysInv, IdsOfKeys, CanonicalId
<1>3. ~Taken(Normalized(e.key))
  BY DEF Fault
<1>4. ~(a.key = Normalized(e.key) /\ DictionaryOf[a.file] = Dictionary)
  BY <1>3 DEF Taken
<1>5. SUFFICES ASSUME a.id = EntityRow(e, n).id PROVE FALSE
  OBVIOUS
<1>6. <<DictionaryOf[a.file], a.key>> = <<Dictionary, Normalized(e.key)>>
  BY <1>1, <1>2, <1>5
<1>7. DictionaryOf[a.file] = Dictionary /\ a.key = Normalized(e.key)
  BY <1>6, PairParts
<1>. QED BY <1>4, <1>7

LEMMA FinishStep ==
  ASSUME KeysInv, FinishEntry
  PROVE  KeysInv'
<1> DEFINE e == entry[1]
           row == EntityRow(e, Count)
<1>1. CASE Fault(e) # ""
  BY <1>1, RollBackStep DEF FinishEntry
<1>2. CASE Fault(e) = ""
  <2>1. /\ keys' = keys \cup {row.key}
        /\ entities' = entities \cup {row}
        /\ UNCHANGED <<db, file, outcome>>
        /\ file # <<>>
    BY <1>2 DEF FinishEntry, Reading
  <2>2. row.file = file[1] /\ row.id = CanonicalId(DictionaryOf[row.file], row.key)
    BY DEF EntityRow, Dictionary
  <2>3. \A a \in db.entities \cup entities : a.id # row.id
    BY <1>2, RowIsNew
  <2> HIDE DEF row
  <2>4. KeysWritten'
    BY <2>1, <2>2 DEF KeysInv, KeysWritten
  <2>5. IdsUnique'
    BY <2>1, <2>3 DEF KeysInv, IdsUnique
  <2>6. IdsOfKeys'
    BY <2>1, <2>2 DEF KeysInv, IdsOfKeys, CanonicalId
  <2>. QED BY <2>1, <2>4, <2>5, <2>6 DEF KeysInv, NotRefused, NothingBetween
<1>. QED BY <1>1, <1>2

LEMMA EndOfSourceStep ==
  ASSUME KeysInv, EndOfSource
  PROVE  KeysInv'
<1>1. CASE entry # <<>> \/ ~Validates(records, attributes)
  BY <1>1, RollBackStep DEF EndOfSource
<1>2. CASE ~(entry # <<>> \/ ~Validates(records, attributes))
  <2>1. /\ db'.entities = db.entities \cup entities
        /\ entities' = {} /\ file' = <<>>
    BY <1>2 DEF EndOfSource
  <2>. QED BY <2>1 DEF KeysInv, KeysWritten, NotRefused, IdsUnique, IdsOfKeys, NothingBetween
<1>. QED BY <1>1, <1>2

LEMMA KeysInvStep == KeysInv /\ [Next]_vars => KeysInv'
<1> SUFFICES ASSUME KeysInv, [Next]_vars PROVE KeysInv'
  OBVIOUS
<1>1. ASSUME NEW f \in Files, NEW s \in Sources[DictionaryOf[f]], BeginFile(f, s) PROVE KeysInv'
  BY <1>1 DEF BeginFile, KeysInv, KeysWritten, NotRefused, IdsUnique, IdsOfKeys, NothingBetween
<1>2. CASE StartEntry \/ StartElement \/ EmptyElement \/ ElementText \/ TailText
  BY <1>2, KeptStep DEF StartEntry, StartElement, EmptyElement, ElementText, TailText
<1>3. CASE NestedEntry \/ EmptyEntry \/ ReadFails
  BY <1>3, RollBackStep DEF NestedEntry, EmptyEntry, ReadFails
<1>4. CASE EndElement
  BY <1>4, KeptStep, RollBackStep DEF EndElement
<1>5. CASE FinishEntry
  BY <1>5, FinishStep
<1>6. CASE EndOfSource
  BY <1>6, EndOfSourceStep
<1>7. CASE UNCHANGED vars
  BY <1>7 DEF vars, KeysInv, KeysWritten, NotRefused, IdsUnique, IdsOfKeys, NothingBetween
<1>. QED BY <1>1, <1>2, <1>3, <1>4, <1>5, <1>6, <1>7 DEF Next

\* The inductive invariant of the importer.
THEOREM EntryImportInvariant == Spec => []KeysInv
<1>. QED BY KeysInvInit, KeysInvStep, PTL DEF Spec

\* However often files fail and are tried again, no two entities of a corpus have
\* one canonical id.
THEOREM EntryImportIds == Spec => [](\A a, b \in db.entities : a.id = b.id => a = b)
<1>1. KeysInv => \A a, b \in db.entities : a.id = b.id => a = b
  BY DEF KeysInv, IdsUnique
<1>. QED BY <1>1, EntryImportInvariant, PTL

\* A step that refuses a file for a duplicate key has found the other entry.
LEMMA DuplicateHasCause ==
  ASSUME KeysInv, [Next]_vars, file # <<>>, outcome' = "duplicate"
  PROVE  \E e \in db.entities \cup entities :
           /\ DictionaryOf[e.file] = Dictionary
           /\ e.key = Normalized(entry[1].key)
<1>1. outcome = "none"
  BY DEF KeysInv, NotRefused
<1>2. FinishEntry /\ Fault(entry[1]) = "duplicate"
  <2>1. ~UNCHANGED outcome
    BY <1>1
  <2>2. \A reason : RollBack(reason) => reason = "duplicate"
    BY DEF RollBack
  <2>3. ASSUME NEW f \in Files, NEW s \in Sources[DictionaryOf[f]] PROVE ~BeginFile(f, s)
    BY DEF BeginFile
  <2>4. ~(StartEntry \/ StartElement \/ EmptyElement \/ ElementText \/ TailText)
    BY <2>1 DEF StartEntry, StartElement, EmptyElement, ElementText, TailText, Kept
  <2>5. ~(NestedEntry \/ EmptyEntry \/ ReadFails)
    BY <2>2 DEF NestedEntry, EmptyEntry, ReadFails
  <2>6. ~EndElement
    BY <2>1, <2>2 DEF EndElement, Kept
  <2>7. ~EndOfSource
    <3>1. SUFFICES ASSUME EndOfSource PROVE FALSE
      OBVIOUS
    <3>2. outcome' \in {"inside", "invalid", "committed"}
      BY <3>1 DEF EndOfSource, RollBack
    <3>. QED BY <3>2
  <2>8. FinishEntry
    BY <2>1, <2>3, <2>4, <2>5, <2>6, <2>7 DEF Next, vars
  <2>. QED BY <2>1, <2>2, <2>8 DEF FinishEntry
<1>3. Normalized(entry[1].key) \in keys \/ Taken(Normalized(entry[1].key))
  BY <1>2 DEF Fault
<1>4. CASE Taken(Normalized(entry[1].key))
  BY <1>4 DEF Taken
<1>5. CASE Normalized(entry[1].key) \in keys
  BY <1>5 DEF KeysInv, KeysWritten, Dictionary
<1>. QED BY <1>3, <1>4, <1>5

\* A file is refused for a duplicate key only because another entry has it.
THEOREM EntryImportRefuses == Spec => RefusedForCause
<1>1. KeysInv /\ [Next]_vars =>
        [file # <<>> /\ outcome' = "duplicate" =>
           \E e \in db.entities \cup entities :
             /\ DictionaryOf[e.file] = Dictionary
             /\ e.key = Normalized(entry[1].key)]_vars
  BY DuplicateHasCause
<1>. QED BY <1>1, EntryImportInvariant, PTL DEF Spec, RefusedForCause

(***************************************************************************)
(* The rows of the open transaction are those of the records read.         *)
(***************************************************************************)

\* A transaction is of a file that has no row, and reads a whole source.
FileInv ==
  file # <<>> => file[1] \in Files \ DOMAIN db.files /\ source \in Documents

RecordsInv ==
  /\ Count \in 0..Len(source)
  /\ Numbered(records, Count)
  /\ \A r \in records : r = [Row(source[r.ordinal + 1], r.ordinal) EXCEPT !.entry = r.entry]

AttributesInv ==
  /\ IsFiniteSet(attributes)
  /\ \A a \in attributes : a.record \in 0..(Count - 1)
  /\ \A k \in 0..(Count - 1) :
       LET list == source[k + 1].attributes IN
       /\ Numbered(AttributesOf(attributes, k), Len(list))
       /\ \A a \in AttributesOf(attributes, k) :
            a = [record |-> k, ordinal |-> a.ordinal, name |-> list[a.ordinal + 1].name,
                 value |-> list[a.ordinal + 1].value]

\* What is known of the record read next.
LEMMA CurrentRecord ==
  ASSUME FileInv, RecordsInv, NEW kind, Reading(kind)
  PROVE  /\ file # <<>> /\ source \in Documents /\ source \in Seq(SourceRecords)
         /\ Len(source) \in Nat /\ Count \in Nat /\ Count + 1 \in 1..Len(source)
         /\ Count + 1 \in DOMAIN source
         /\ Current \in SourceRecords /\ Current = source[Count + 1] /\ Current.kind = kind
<1>1. file # <<>> /\ source \in Documents /\ source \in Seq(SourceRecords)
  BY DEF FileInv, Reading, Documents
<1>2. Count \in Nat /\ Count < Len(source) /\ Current.kind = kind
  BY DEF RecordsInv, Reading
<1> HIDE DEF Count
<1>3. Len(source) \in Nat /\ Count + 1 \in 1..Len(source) /\ Count + 1 \in DOMAIN source
  BY <1>1, <1>2
<1>. QED BY <1>1, <1>2, <1>3 DEF Current

\* The rows grow by that of the record read, and no row changes but in its entry.
LEMMA RecordsGrow ==
  ASSUME FileInv, RecordsInv, NEW kind, Reading(kind), source' = source,
         \A t \in records' : \E r \in records \cup {Row(Current, Count)} :
           t = [r EXCEPT !.entry = t.entry],
         \A r \in records \cup {Row(Current, Count)} : \E t \in records' :
           t.ordinal = r.ordinal,
         \A t, u \in records' : t.ordinal = u.ordinal => t = u
  PROVE  Count' = Count + 1 /\ RecordsInv'
<1> DEFINE n == Count
           x == Row(Current, Count)
           R == records \cup {x}
           Faithful(r) == r = [Row(source[r.ordinal + 1], r.ordinal) EXCEPT !.entry = r.entry]
<1>1. n \in Nat /\ n + 1 \in 1..Len(source) /\ Len(source) \in Nat
  BY CurrentRecord
<1>2. Numbered(records, n)
  BY DEF RecordsInv
<1>3. \A r \in R : Faithful(r)
  <2>1. x.ordinal = n /\ Faithful(x)
    BY DEF Row, Current
  <2>. QED BY <2>1 DEF RecordsInv
<1>4. x.ordinal = n
  BY DEF Row
<1>5. Numbered(R, n + 1)
  <2> HIDE DEF x, n
  <2>. QED BY <1>1, <1>2, <1>4, NumberedNext
<1>6. \A t \in records' : \E r \in R : t.ordinal = r.ordinal /\ Faithful(t)
  <2> TAKE t \in records'
  <2>1. PICK r \in R : t = [r EXCEPT !.entry = t.entry]
    OBVIOUS
  <2>2. Faithful(r)
    BY <1>3
  <2>. QED BY <2>1, <2>2 DEF Row
<1>7. Numbered(records', n + 1)
  <2>1. \A t \in records' : \E r \in R : t.ordinal = r.ordinal
    BY <1>6
  <2>2. \A r \in R : \E t \in records' : t.ordinal = r.ordinal
    OBVIOUS
  <2> HIDE DEF R
  <2>. QED BY <1>1, <1>5, <2>1, <2>2, NumberedRewritten
<1>8. Count' = n + 1
  <2>1. Cardinality(records') = n + 1
    BY <1>1, <1>7, NumberedCount
  <2>. QED BY <2>1 DEF Count
<1>9. RecordsInv'
  <2>1. \A t \in records' : Faithful(t)
    BY <1>6
  <2>2. (Count \in 0..Len(source))'
    BY <1>1, <1>8
  <2>3. Numbered(records, Count)'
    BY <1>7, <1>8
  <2>. QED BY <2>1, <2>2, <2>3 DEF RecordsInv
<1>. QED BY <1>8, <1>9

LEMMA RecordsInserted ==
  ASSUME FileInv, RecordsInv, NEW kind, Reading(kind), source' = source, Insert
  PROVE  Count' = Count + 1 /\ RecordsInv'
<1> DEFINE x == Row(Current, Count)
           R == records \cup {x}
<1>1. records' = R
  BY DEF Insert
<1>2. \A r \in R : r = [r EXCEPT !.entry = r.entry]
  BY DEF RecordsInv, Row
<1>3. Count \in Nat /\ Numbered(records, Count) /\ x.ordinal = Count
  BY CurrentRecord DEF RecordsInv, Row
<1>4. \A t, u \in R : t.ordinal = u.ordinal => t = u
  <2> HIDE DEF x
  <2>1. Numbered(R, Count + 1)
    BY <1>3, NumberedNext
  <2>. QED BY <2>1 DEF Numbered
<1>5. /\ \A t \in records' : \E r \in R : t = [r EXCEPT !.entry = t.entry]
      /\ \A r \in R : \E t \in records' : t.ordinal = r.ordinal
      /\ \A t, u \in records' : t.ordinal = u.ordinal => t = u
  <2> HIDE DEF R
  <2>. QED BY <1>1, <1>2, <1>4
<1>. QED BY <1>5, RecordsGrow

LEMMA AttributesInserted ==
  ASSUME FileInv, RecordsInv, AttributesInv, NEW kind, Reading(kind), source' = source,
         Count' = Count + 1,
         attributes' = attributes \cup
           {[record |-> Count, ordinal |-> i - 1, name |-> Current.attributes[i].name,
             value |-> Current.attributes[i].value] : i \in DOMAIN Current.attributes}
  PROVE  AttributesInv'
<1> DEFINE n == Count
           list == source[n + 1].attributes
           A(i) == [record |-> n, ordinal |-> i - 1, name |-> list[i].name,
                    value |-> list[i].value]
           L == {A(i) : i \in 1..Len(list)}
<1>1. n \in Nat /\ list \in Seq(Attributes) /\ Len(list) \in Nat
  BY CurrentRecord DEF SourceRecords
<1>2. attributes' = attributes \cup L
  BY <1>1, CurrentRecord
<1>3. \A a \in L : /\ a.record = n /\ a.ordinal \in 0..(Len(list) - 1)
                   /\ a = [record |-> n, ordinal |-> a.ordinal,
                           name |-> list[a.ordinal + 1].name,
                           value |-> list[a.ordinal + 1].value]
  BY <1>1
<1>4. Numbered(L, Len(list))
  <2>1. \A k \in 0..(Len(list) - 1) : \E a \in L : a.ordinal = k
    <3> TAKE k \in 0..(Len(list) - 1)
    <3>1. k + 1 \in 1..Len(list)
      BY <1>1
    <3>2. A(k + 1) \in L
      BY <3>1
    <3>3. A(k + 1).ordinal = k
      OBVIOUS
    <3> HIDE DEF L, A
    <3> QED BY <3>2, <3>3
  <2>2. \A a, b \in L : a.ordinal = b.ordinal => a = b
    <3> HIDE DEF L
    <3>. QED BY <1>3
  <2> HIDE DEF L
  <2>. QED BY <1>3, <2>1, <2>2 DEF Numbered
<1>5. IsFiniteSet(attributes')
  <2>1. IsFiniteSet(L) /\ IsFiniteSet(attributes)
    BY <1>1, <1>4, NumberedCount DEF AttributesInv
  <2> HIDE DEF L
  <2>2. IsFiniteSet(attributes \cup L)
    BY <2>1, FS_Union
  <2>. QED BY <1>2, <2>2
<1>6. AttributesOf(attributes', n) = L
  BY <1>1, <1>2, <1>3 DEF AttributesInv, AttributesOf
<1>7. \A k \in 0..(n - 1) : AttributesOf(attributes', k) = AttributesOf(attributes, k)
  BY <1>1, <1>2, <1>3 DEF AttributesOf
<1>8. \A a \in attributes' : a.record \in 0..n
  BY <1>1, <1>2, <1>3 DEF AttributesInv
<1>9. ASSUME NEW k \in 0..n
      PROVE  LET l == source[k + 1].attributes IN
             /\ Numbered(AttributesOf(attributes', k), Len(l))
             /\ \A a \in AttributesOf(attributes', k) :
                  a = [record |-> k, ordinal |-> a.ordinal, name |-> l[a.ordinal + 1].name,
                       value |-> l[a.ordinal + 1].value]
  <2>1. CASE k = n
    <3> HIDE DEF L, n
    <3>. QED BY <1>3, <1>4, <1>6, <2>1
  <2>2. CASE k # n
    <3>1. k \in 0..(n - 1)
      BY <1>1, <2>2
    <3>. QED BY <1>7, <3>1 DEF AttributesInv
  <2>. QED BY <2>1, <2>2
<1>10. Count' - 1 = n
  BY <1>1
<1> HIDE DEF n, L
<1>. QED BY <1>5, <1>8, <1>9, <1>10 DEF AttributesInv

(***************************************************************************)
(* The open entry.                                                         *)
(***************************************************************************)

\* The fields of an EntryImportState.
IsState(e) ==
  /\ e = [depth |-> e.depth, name |-> e.name, start |-> e.start, ordinal |-> e.ordinal,
          path |-> e.path, key |-> e.key, headword |-> e.headword,
          homonym |-> e.homonym, at |-> e.at]
  /\ e.start \in Nat /\ e.at \in Int

\* The record that starts an entry, or an entity.
First(e) == e.start + 1

\* An entry stays open until the record that closes its element.
OpenInv ==
  entry # <<>> =>
    LET e == entry[1] IN
    /\ entry = <<e>> /\ IsState(e)
    /\ OpenElement(source, First(e), Count)
    /\ IsEntry(source[First(e)])
    /\ e.name = source[First(e)].name /\ e.depth = source[First(e)].depth
    /\ PathOf(source, First(e), Count, e.path)

\* The value record k gives as headword.
Given(s, d, k) ==
  IF d # "krdict" THEN s[k].value
  ELSE IF Attribute(s[k].attributes, "val") = Absent THEN Plain("")
  ELSE Attribute(s[k].attributes, "val")

\* at is the first record up to n that gives the entry started by record i its
\* headword.
HeadAt(s, d, i, n, at) ==
  /\ at + 1 \in (i + 1)..n /\ GivesHeadword(s, d, i, at + 1)
  /\ \A k \in (i + 1)..n : GivesHeadword(s, d, i, k) => at + 1 <= k

\* What the state of that entry says of its headword after n records.
HeadOf(s, d, i, n, at, headword) ==
  /\ at = -1 => headword = Absent /\ \A k \in (i + 1)..n : ~GivesHeadword(s, d, i, k)
  /\ at # -1 => HeadAt(s, d, i, n, at) /\ headword = Given(s, d, at + 1)

HeadInv ==
  entry # <<>> =>
    HeadOf(source, Dictionary, First(entry[1]), Count, entry[1].at, entry[1].headword)

(***************************************************************************)
(* The entities.                                                           *)
(***************************************************************************)

\* The records up to n that start entries.
EntryStarts(s, d, n) == {i \in 1..n : s[i].kind = "start" /\ s[i].name = EntryElement(d)}

\* Entity x says what the records say about the entry it stands for, which is
\* complete after n records.
EntityOf(x, s, d, n) ==
  /\ x.start \in Nat /\ First(x) \in EntryStarts(s, d, n)
  /\ x.end = Closing(s, First(x)) - 1 /\ x.end \in x.start..(n - 1)
  /\ x.ordinal = Cardinality(EntryStarts(s, d, First(x)))
  /\ HeadAt(s, d, First(x), x.end, x.at)
  /\ x.headword = Normalized(Given(s, d, x.at + 1))

\* One entity for every entry complete after n records.
EntitiesOf(X, s, d, n) ==
  /\ IsFiniteSet(X)
  /\ \A x \in X : EntityOf(x, s, d, n)
  /\ \A x, y \in X : x.start = y.start => x = y

EntitiesInv ==
  file # <<>> =>
    /\ EntitiesOf(entities, source, Dictionary, Count)
    /\ \A x \in entities : x.file = file[1]
    /\ \A x, y \in entities : x # y => x.end < y.start \/ y.end < x.start

\* The entries are those that have an entity, and the open one.
AccountInv ==
  file # <<>> =>
    IF entry = <<>>
      THEN /\ \A i \in EntryStarts(source, Dictionary, Count) :
                \E x \in entities : First(x) = i
           /\ Cardinality(entities) = Cardinality(EntryStarts(source, Dictionary, Count))
      ELSE /\ \A i \in EntryStarts(source, Dictionary, Count) :
                i = First(entry[1]) \/ \E x \in entities : First(x) = i
           /\ \A x \in entities : x.end < entry[1].start
           /\ Cardinality(entities) + 1 = Cardinality(EntryStarts(source, Dictionary, Count))
           /\ entry[1].ordinal = Cardinality(EntryStarts(source, Dictionary, First(entry[1])))

\* A record belongs to the entity it lies in.
OwnerInv ==
  \A r \in records :
    \/ \E x \in entities : r.ordinal \in x.start..x.end /\ r.entry = x.id
    \/ /\ r.entry = <<>>
       /\ \A x \in entities : r.ordinal \notin x.start..x.end

\* The committed files, with the entities of all of their entries.
CommittedInv ==
  /\ DOMAIN db.files \subseteq Files
  /\ \A x \in db.entities : x.file \in DOMAIN db.files
  /\ \A f \in DOMAIN db.files :
       LET s == db.files[f]
           d == DictionaryOf[f]
           X == {x \in db.entities : x.file = f}
       IN /\ s \in Documents
          /\ EntitiesOf(X, s, d, Len(s))
          /\ \A i \in EntryStarts(s, d, Len(s)) : \E x \in X : First(x) = i

\* Nothing is left of an attempt that is over.
IdleInv ==
  file = <<>> => /\ source = <<>> /\ records = {} /\ attributes = {} /\ entities = {}
                 /\ entry = <<>>

RowsInv ==
  /\ FileInv /\ RecordsInv /\ AttributesInv /\ OpenInv /\ HeadInv /\ EntitiesInv
  /\ AccountInv /\ OwnerInv /\ CommittedInv /\ IdleInv

\* The records of a document have the fields of their kinds.
LEMMA RecordFields ==
  ASSUME NEW s \in Documents, NEW i \in 1..Len(s)
  PROVE  /\ s[i].kind \in {"text", "tail"} => s[i].value # Absent
         /\ s[i].kind \notin {"start", "empty"} => s[i].attributes = <<>>
<1>1. i \in DOMAIN s
  BY DocumentRecords
<1>. QED BY <1>1 DEF Documents

\* A record that gives a headword gives a value.
LEMMA GivenValue ==
  ASSUME NEW s \in Documents, NEW d, NEW i, NEW k \in 1..Len(s), GivesHeadword(s, d, i, k)
  PROVE  /\ Given(s, d, k) # Absent
         /\ s[k].kind = IF d = "krdict" THEN "empty" ELSE "text"
<1>1. s[k].kind = IF d = "krdict" THEN "empty" ELSE "text"
  BY DEF GivesHeadword
<1>2. Plain("") # Absent
  <2>1. Plain("").text # Absent.text
    BY DEF Plain, Absent
  <2>. QED BY <2>1
<1>. QED BY <1>1, <1>2, RecordFields DEF Given

\* One record more: it gives the entry its headword if none did before.
LEMMA HeadNext ==
  ASSUME NEW s \in Documents, NEW d, NEW i \in Nat \ {0}, NEW n \in Nat, i <= n, n < Len(s),
         NEW at \in Int, NEW headword, HeadOf(s, d, i, n, at, headword)
  PROVE  /\ ~GivesHeadword(s, d, i, n + 1) => HeadOf(s, d, i, n + 1, at, headword)
         /\ GivesHeadword(s, d, i, n + 1) =>
              HeadOf(s, d, i, n + 1, IF at = -1 THEN n ELSE at,
                     SetOnce(headword, Given(s, d, n + 1)))
<1>1. \A k \in (i + 1)..(n + 1) : k \in (i + 1)..n \/ k = n + 1
  OBVIOUS
<1>2. \A k \in (i + 1)..n : k \in (i + 1)..(n + 1) /\ k \in 1..Len(s) /\ k <= n + 1
  BY DocumentRecords
<1>3. CASE at = -1
  <2>1. headword = Absent /\ \A k \in (i + 1)..n : ~GivesHeadword(s, d, i, k)
    BY <1>3 DEF HeadOf
  <2>2. CASE ~GivesHeadword(s, d, i, n + 1)
    BY <1>1, <1>3, <2>1, <2>2 DEF HeadOf
  <2>3. CASE GivesHeadword(s, d, i, n + 1)
    <3>1. HeadAt(s, d, i, n + 1, n)
      BY <1>1, <2>1, <2>3 DEF HeadAt
    <3>2. n # -1 /\ SetOnce(headword, Given(s, d, n + 1)) = Given(s, d, n + 1)
      BY <2>1 DEF SetOnce
    <3>. QED BY <1>3, <2>3, <3>1, <3>2 DEF HeadOf
  <2>. QED BY <2>2, <2>3
<1>4. CASE at # -1
  <2>1. HeadAt(s, d, i, n, at) /\ headword = Given(s, d, at + 1)
    BY <1>4 DEF HeadOf
  <2>2. at + 1 \in (i + 1)..n /\ GivesHeadword(s, d, i, at + 1)
    BY <2>1 DEF HeadAt
  <2>3. HeadAt(s, d, i, n + 1, at)
    <3>1. at + 1 \in (i + 1)..(n + 1) /\ at + 1 <= n + 1
      BY <1>2, <2>2
    <3>2. \A k \in (i + 1)..(n + 1) : GivesHeadword(s, d, i, k) => at + 1 <= k
      BY <1>1, <2>1, <3>1 DEF HeadAt
    <3>. QED BY <2>2, <3>1, <3>2 DEF HeadAt
  <2>4. SetOnce(headword, Given(s, d, n + 1)) = headword
    <3>1. headword # Absent
      BY <1>2, <2>1, <2>2, GivenValue
    <3>. QED BY <3>1 DEF SetOnce
  <2>. QED BY <1>4, <2>1, <2>3, <2>4 DEF HeadOf
<1>. QED BY <1>3, <1>4

\* What reading a record may change of the state of an entry.
SamePlace(e, f) ==
  /\ IsState(f)
  /\ f.depth = e.depth /\ f.name = e.name /\ f.start = e.start /\ f.ordinal = e.ordinal
  /\ f.path = e.path

LEMMA HeadwordFields ==
  ASSUME NEW e, IsState(e), NEW x, NEW n \in Nat
  PROVE  /\ SamePlace(e, WithHeadword(e, x, n))
         /\ WithHeadword(e, x, n).headword = SetOnce(e.headword, x)
         /\ e.at = -1 => WithHeadword(e, x, n).at = n
         /\ e.at # -1 => WithHeadword(e, x, n).at = e.at
<1> DEFINE h == SetOnce(e.headword, x)
           g == [e EXCEPT !.headword = h]
<1>1. e = [depth |-> e.depth, name |-> e.name, start |-> e.start,
           ordinal |-> e.ordinal, path |-> e.path, key |-> e.key,
           headword |-> e.headword, homonym |-> e.homonym, at |-> e.at]
      /\ e.start \in Nat /\ e.at \in Int /\ n \in Int
  BY DEF IsState
<1>2. g = [depth |-> e.depth, name |-> e.name, start |-> e.start,
           ordinal |-> e.ordinal, path |-> e.path, key |-> e.key,
           headword |-> h, homonym |-> e.homonym, at |-> e.at]
  BY <1>1
<1>3. ASSUME NEW y \in Int, NEW f, f = [g EXCEPT !.at = y]
      PROVE  SamePlace(e, f) /\ f.headword = h /\ f.at = y
  <2> HIDE DEF g, h
  <2>1. f = [depth |-> e.depth, name |-> e.name, start |-> e.start,
             ordinal |-> e.ordinal, path |-> e.path, key |-> e.key,
             headword |-> h, homonym |-> e.homonym, at |-> y]
    BY <1>2, <1>3
  <2>. QED BY <1>1, <2>1 DEF SamePlace, IsState
<1>4. CASE e.at = -1
  <2>1. WithHeadword(e, x, n) = [g EXCEPT !.at = n]
    BY <1>4 DEF WithHeadword
  <2> HIDE DEF g
  <2>. QED BY <1>1, <1>3, <1>4, <2>1
<1>5. CASE e.at # -1
  <2>1. WithHeadword(e, x, n) = [g EXCEPT !.at = e.at]
    BY <1>5 DEF WithHeadword
  <2> HIDE DEF g
  <2>. QED BY <1>1, <1>3, <1>5, <2>1
<1>. QED BY <1>4, <1>5

LEMMA OtherFields ==
  ASSUME NEW e, IsState(e), NEW x, NEW f,
         f \in {e, [e EXCEPT !.homonym = x], [e EXCEPT !.key = x]}
  PROVE  SamePlace(e, f) /\ f.headword = e.headword /\ f.at = e.at
<1>1. e = [depth |-> e.depth, name |-> e.name, start |-> e.start,
           ordinal |-> e.ordinal, path |-> e.path, key |-> e.key,
           headword |-> e.headword, homonym |-> e.homonym, at |-> e.at]
      /\ e.start \in Nat /\ e.at \in Int
  BY DEF IsState
<1>2. CASE f = e
  BY <1>2 DEF SamePlace
<1>3. CASE f = [e EXCEPT !.homonym = x]
  BY <1>1, <1>3 DEF SamePlace, IsState
<1>4. CASE f = [e EXCEPT !.key = x]
  BY <1>1, <1>4 DEF SamePlace, IsState
<1>. QED BY <1>2, <1>3, <1>4

LEMMA PathFields ==
  ASSUME NEW e, IsState(e), NEW x, NEW f, f = [e EXCEPT !.path = x]
  PROVE  /\ IsState(f) /\ f.path = x
         /\ f.depth = e.depth /\ f.name = e.name /\ f.start = e.start
         /\ f.ordinal = e.ordinal /\ f.headword = e.headword /\ f.at = e.at
<1>1. e = [depth |-> e.depth, name |-> e.name, start |-> e.start,
           ordinal |-> e.ordinal, path |-> e.path, key |-> e.key,
           headword |-> e.headword, homonym |-> e.homonym, at |-> e.at]
      /\ e.start \in Nat /\ e.at \in Int
  BY DEF IsState
<1>. QED BY <1>1 DEF IsState

\* What the state of an entry makes of a record: f follows e.
Heads(e, f, s, d, n) ==
  /\ GivesHeadword(s, d, First(e), n + 1) =>
       /\ e.at = -1 => f.at = n
       /\ e.at # -1 => f.at = e.at
       /\ f.headword = SetOnce(e.headword, Given(s, d, n + 1))
  /\ ~GivesHeadword(s, d, First(e), n + 1) => f.at = e.at /\ f.headword = e.headword

\* It takes the value of the records that give a headword, and of no others.
LEMMA HeadsOf ==
  ASSUME NEW e, IsState(e), NEW f, NEW x, NEW y, NEW s, NEW d, NEW n \in Nat,
         GivesHeadword(s, d, First(e), n + 1) =>
           f = WithHeadword(e, x, n) /\ x = Given(s, d, n + 1),
         ~GivesHeadword(s, d, First(e), n + 1) =>
           f \in {e, [e EXCEPT !.homonym = y], [e EXCEPT !.key = y]}
  PROVE  SamePlace(e, f) /\ Heads(e, f, s, d, n)
<1>1. CASE GivesHeadword(s, d, First(e), n + 1)
  <2>1. f = WithHeadword(e, x, n) /\ x = Given(s, d, n + 1)
    BY <1>1
  <2>. QED BY <1>1, <2>1, HeadwordFields DEF Heads
<1>2. CASE ~GivesHeadword(s, d, First(e), n + 1)
  <2>1. f \in {e, [e EXCEPT !.homonym = y], [e EXCEPT !.key = y]}
    BY <1>2
  <2>2. SamePlace(e, f) /\ f.headword = e.headword /\ f.at = e.at
    BY <2>1, OtherFields
  <2>. QED BY <1>2, <2>2 DEF Heads
<1>. QED BY <1>1, <1>2

\* An empty element gives the headword exactly if it is the feat of a written form
\* inside of a lemma.
LEMMA EmptyHeads ==
  ASSUME OpenInv, entry # <<>>, source[Count + 1].kind = "empty", NEW n \in Nat, n = Count
  PROVE  /\ SamePlace(entry[1], AfterEmpty(entry[1], source[n + 1], n))
         /\ Heads(entry[1], AfterEmpty(entry[1], source[n + 1], n), source, Dictionary, n)
<1> DEFINE e == entry[1]
           r == source[n + 1]
           f == AfterEmpty(e, r, n)
           field == Attribute(r.attributes, "att")
           value == IF Attribute(r.attributes, "val") = Absent THEN Plain("")
                    ELSE Attribute(r.attributes, "val")
           gives == GivesHeadword(source, Dictionary, First(e), n + 1)
           y == SetOnce(e.homonym, value)
<1>1. /\ IsState(e) /\ OpenElement(source, First(e), n)
      /\ source[First(e)].name = EntryElement(Dictionary)
      /\ PathOf(source, First(e), n, e.path)
  BY DEF OpenInv, IsEntry
<1>2. CASE Dictionary # "krdict"
  <2>1. f = e
    BY <1>2 DEF AfterEmpty
  <2>2. ~gives
    BY <1>2 DEF GivesHeadword
  <2>3. f \in {e, [e EXCEPT !.homonym = y], [e EXCEPT !.key = y]}
    BY <2>1
  <2> HIDE DEF e, f, value, y
  <2>4. SamePlace(e, f) /\ Heads(e, f, source, Dictionary, n)
    BY <1>1, <2>2, <2>3, HeadsOf DEF gives
  <2>. QED BY <2>4 DEF e, f, r
<1>3. CASE Dictionary = "krdict"
  <2>1. source[First(e)].name # "Lemma"
    BY <1>1, <1>3 DEF EntryElement
  <2>2. Inside(e, "Lemma") <=> Under(source, "Lemma", First(e), n + 1)
    <3>1. (\E p \in DOMAIN e.path : e.path[p] = "Lemma")
            <=> Under(source, "Lemma", First(e), n + 1)
      BY <1>1, <2>1, PathInside
    <3>. QED BY <3>1 DEF Inside
  <2>3. gives <=> r.name = "feat" /\ Inside(e, "Lemma") /\ field = Plain("writtenForm")
    BY <1>3, <2>2 DEF GivesHeadword
  <2>4. gives => f = WithHeadword(e, value, n) /\ value = Given(source, Dictionary, n + 1)
    BY <1>3, <2>3 DEF AfterEmpty, Given
  <2>5. ~gives => f \in {e, [e EXCEPT !.homonym = y], [e EXCEPT !.key = y]}
    BY <1>3, <2>3 DEF AfterEmpty
  <2> HIDE DEF e, f, value, y
  <2>6. SamePlace(e, f) /\ Heads(e, f, source, Dictionary, n)
    BY <1>1, <2>4, <2>5, HeadsOf DEF gives
  <2>. QED BY <2>6 DEF e, f, r
<1>. QED BY <1>2, <1>3

\* A text gives the headword exactly if it is that of a word inside of the element
\* for it.
LEMMA TextHeads ==
  ASSUME OpenInv, entry # <<>>, source[Count + 1].kind = "text", NEW n \in Nat, n = Count,
         Dictionary \in {"krdict", "stdict", "opendict"}
  PROVE  /\ SamePlace(entry[1], AfterText(entry[1], source[n + 1], n))
         /\ Heads(entry[1], AfterText(entry[1], source[n + 1], n), source, Dictionary, n)
<1> DEFINE e == entry[1]
           r == source[n + 1]
           f == AfterText(e, r, n)
           name == e.path[Len(e.path)]
           info == IF Dictionary = "stdict" THEN "word_info" ELSE "wordInfo"
           gives == GivesHeadword(source, Dictionary, First(e), n + 1)
           y == IF name = "target_code" THEN SetOnce(e.key, r.value)
                ELSE SetOnce(e.homonym, r.value)
<1>1. /\ IsState(e) /\ OpenElement(source, First(e), n)
      /\ source[First(e)].name = EntryElement(Dictionary)
      /\ PathOf(source, First(e), n, e.path)
  BY DEF OpenInv, IsEntry
<1>2. CASE Dictionary = "krdict"
  <2>1. f = e
    BY <1>2 DEF AfterText
  <2>2. ~gives
    BY <1>2 DEF GivesHeadword
  <2>3. f \in {e, [e EXCEPT !.homonym = y], [e EXCEPT !.key = y]}
    BY <2>1
  <2> HIDE DEF e, f, y
  <2>4. SamePlace(e, f) /\ Heads(e, f, source, Dictionary, n)
    BY <1>1, <2>2, <2>3, HeadsOf DEF gives
  <2>. QED BY <2>4 DEF e, f, r
<1>3. CASE Dictionary # "krdict"
  <2>1. source[First(e)].name # info
    BY <1>1, <1>3 DEF EntryElement
  <2>2. Inside(e, info) <=> Under(source, info, First(e), n + 1)
    <3>1. (\E p \in DOMAIN e.path : e.path[p] = info)
            <=> Under(source, info, First(e), n + 1)
      BY <1>1, <2>1, PathInside
    <3>. QED BY <3>1 DEF Inside
  <2>3. name = source[n].name /\ (n + 1) - 1 = n
    BY <1>1, PathOfText
  <2>4. gives <=> name = "word" /\ Inside(e, info)
    BY <1>3, <2>2, <2>3 DEF GivesHeadword
  <2>5. gives => f = WithHeadword(e, r.value, n) /\ r.value = Given(source, Dictionary, n + 1)
    BY <1>3, <2>4 DEF AfterText, Given
  <2>6. ~gives => f \in {e, [e EXCEPT !.homonym = y], [e EXCEPT !.key = y]}
    BY <1>3, <2>4 DEF AfterText
  <2> HIDE DEF e, f, r, y
  <2>7. SamePlace(e, f) /\ Heads(e, f, source, Dictionary, n)
    BY <1>1, <2>5, <2>6, HeadsOf DEF gives
  <2>. QED BY <2>7 DEF e, f, r
<1>. QED BY <1>2, <1>3

\* The open entry follows a record inside of it.
LEMMA OpenFollows ==
  ASSUME OpenInv, HeadInv, entry # <<>>, source' = source, file' = file,
         NEW n \in Nat, n = Count, Count' = n + 1,
         NEW f, entry' = <<f>>, IsState(f),
         f.depth = entry[1].depth, f.name = entry[1].name, f.start = entry[1].start,
         PathOf(source, First(entry[1]), n + 1, f.path),
         Closing(source, First(entry[1])) > n + 1,
         Heads(entry[1], f, source, Dictionary, n)
  PROVE  OpenInv' /\ HeadInv'
<1> DEFINE e == entry[1]
           i == First(e)
<1>1. /\ IsState(e) /\ OpenElement(source, i, n)
      /\ source[i].name = EntryElement(Dictionary)
      /\ e.name = source[i].name /\ e.depth = source[i].depth
  BY DEF OpenInv, IsEntry
<1>2. /\ source \in Documents /\ i \in Nat \ {0} /\ n \in Nat /\ i <= n
      /\ Len(source) \in Nat /\ n < Len(source) /\ n + 1 \in 1..Len(source)
  BY <1>1, ElementFacts
<1>3. entry' # <<>> /\ entry'[1] = f /\ First(f) = i /\ Dictionary' = Dictionary
  BY DEF First, Dictionary
<1>4. OpenElement(source, i, n + 1)
  <2>1. source[i].kind = "start" /\ i \in 1..Len(source)
    BY <1>1, <1>2 DEF OpenElement, OpenAt
  <2>2. Closing(source, i) \in (i + 1)..Len(source)
    BY <1>2, <2>1, ClosingOf, DocumentRecords
  <2>3. n + 1 \in 1..(Len(source) - 1) /\ i \in 1..(n + 1)
    BY <1>2, <2>2
  <2>. QED BY <1>2, <2>1, <2>3 DEF OpenElement, OpenAt
<1>5. OpenInv'
  <2>1. (source[First(entry[1])].name = EntryElement(Dictionary))'
    BY <1>1, <1>3
  <2>2. (OpenElement(source, First(entry[1]), Count))'
    BY <1>3, <1>4
  <2>3. (PathOf(source, First(entry[1]), Count, entry[1].path))'
    BY <1>3
  <2>4. /\ (entry[1].name = source[First(entry[1])].name)'
        /\ (entry[1].depth = source[First(entry[1])].depth)'
        /\ (entry = <<entry[1]>>)' /\ IsState(entry[1])'
    BY <1>1, <1>3
  <2>. QED BY <2>1, <2>2, <2>3, <2>4 DEF OpenInv, IsEntry
<1>6. HeadInv'
  <2>1. HeadOf(source, Dictionary, i, n, e.at, e.headword) /\ e.at \in Int /\ n # -1
    BY <1>1 DEF HeadInv, IsState
  <2>2. HeadOf(source, Dictionary, i, n + 1, f.at, f.headword)
    <3>1. CASE GivesHeadword(source, Dictionary, i, n + 1)
      <4>1. f.headword = SetOnce(e.headword, Given(source, Dictionary, n + 1))
        BY <3>1 DEF Heads
      <4>2. f.at = IF e.at = -1 THEN n ELSE e.at
        BY <3>1 DEF Heads
      <4>3. HeadOf(source, Dictionary, i, n + 1, IF e.at = -1 THEN n ELSE e.at,
                   SetOnce(e.headword, Given(source, Dictionary, n + 1)))
        <5> HIDE DEF e, i
        <5>. QED BY <1>2, <2>1, <3>1, HeadNext
      <4>. QED BY <4>1, <4>2, <4>3
    <3>2. CASE ~GivesHeadword(source, Dictionary, i, n + 1)
      <4>1. f.headword = e.headword /\ f.at = e.at
        BY <3>2 DEF Heads
      <4>2. HeadOf(source, Dictionary, i, n + 1, e.at, e.headword)
        <5> HIDE DEF e, i
        <5>. QED BY <1>2, <2>1, <3>2, HeadNext
      <4>. QED BY <4>1, <4>2
    <3>. QED BY <3>1, <3>2
  <2>. QED BY <1>3, <2>2 DEF HeadInv
<1>. QED BY <1>5, <1>6

\* A record that is neither an empty element nor a text leaves the headword alone.
LEMMA NoHead ==
  ASSUME NEW e, NEW f, NEW s, NEW d, NEW n, s[n + 1].kind \notin {"empty", "text"},
         f.at = e.at, f.headword = e.headword
  PROVE  Heads(e, f, s, d, n)
BY DEF Heads, GivesHeadword

\* The records inside of an entry.
LEMMA OpenEmpty ==
  ASSUME FileInv, RecordsInv, OpenInv, HeadInv, entry # <<>>, EmptyElement
  PROVE  OpenInv' /\ HeadInv'
<1> DEFINE n == Count
<1>1. /\ n \in Nat /\ source[n + 1].kind = "empty" /\ Current = source[n + 1]
  BY CurrentRecord DEF EmptyElement
<1>2. Count' = n + 1 /\ source' = source /\ file' = file
  BY RecordsInserted DEF EmptyElement, Kept
<1>3. entry' = <<AfterEmpty(entry[1], source[n + 1], n)>>
  BY <1>1 DEF EmptyElement
<1> DEFINE f == AfterEmpty(entry[1], source[n + 1], n)
<1>4. SamePlace(entry[1], f) /\ Heads(entry[1], f, source, Dictionary, n)
  BY <1>1, EmptyHeads
<1>5. OpenElement(source, First(entry[1]), n) /\ PathOf(source, First(entry[1]), n, entry[1].path)
  BY DEF OpenInv
<1>6. /\ PathOf(source, First(entry[1]), n + 1, entry[1].path)
      /\ Closing(source, First(entry[1])) > n + 1
  BY <1>1, <1>5, PathKept
<1> HIDE DEF f, n
<1>. QED BY <1>1, <1>2, <1>3, <1>4, <1>6, OpenFollows DEF SamePlace, f, n

LEMMA OpenText ==
  ASSUME FileInv, RecordsInv, OpenInv, HeadInv, entry # <<>>, ElementText,
         Dictionary \in {"krdict", "stdict", "opendict"}
  PROVE  OpenInv' /\ HeadInv'
<1> DEFINE n == Count
<1>1. /\ n \in Nat /\ source[n + 1].kind = "text" /\ Current = source[n + 1]
  BY CurrentRecord DEF ElementText
<1>2. Count' = n + 1 /\ source' = source /\ file' = file
  BY RecordsInserted DEF ElementText, Kept
<1>3. entry' = <<AfterText(entry[1], source[n + 1], n)>>
  BY <1>1 DEF ElementText
<1> DEFINE f == AfterText(entry[1], source[n + 1], n)
<1>4. SamePlace(entry[1], f) /\ Heads(entry[1], f, source, Dictionary, n)
  BY <1>1, TextHeads
<1>5. OpenElement(source, First(entry[1]), n) /\ PathOf(source, First(entry[1]), n, entry[1].path)
  BY DEF OpenInv
<1>6. /\ PathOf(source, First(entry[1]), n + 1, entry[1].path)
      /\ Closing(source, First(entry[1])) > n + 1
  BY <1>1, <1>5, PathKept
<1> HIDE DEF f, n
<1>. QED BY <1>1, <1>2, <1>3, <1>4, <1>6, OpenFollows DEF SamePlace, f, n

LEMMA OpenTail ==
  ASSUME FileInv, RecordsInv, OpenInv, HeadInv, entry # <<>>, TailText
  PROVE  OpenInv' /\ HeadInv'
<1> DEFINE n == Count
           e == entry[1]
<1>1. /\ n \in Nat /\ source[n + 1].kind = "tail"
  BY CurrentRecord DEF TailText
<1>2. Count' = n + 1 /\ source' = source /\ file' = file
  BY RecordsInserted DEF TailText, Kept
<1>3. entry' = <<e>> /\ IsState(e)
  BY DEF TailText, OpenInv
<1>5. OpenElement(source, First(e), n) /\ PathOf(source, First(e), n, e.path)
  BY DEF OpenInv
<1>6. PathOf(source, First(e), n + 1, e.path) /\ Closing(source, First(e)) > n + 1
  BY <1>1, <1>5, PathKept
<1>7. Heads(e, e, source, Dictionary, n)
  BY <1>1, NoHead
<1> HIDE DEF n
<1>. QED BY <1>1, <1>2, <1>3, <1>6, <1>7, OpenFollows DEF n

LEMMA OpenStart ==
  ASSUME FileInv, RecordsInv, OpenInv, HeadInv, entry # <<>>, StartElement
  PROVE  /\ OpenInv' /\ HeadInv' /\ entry' # <<>>
         /\ entry'[1].start = entry[1].start /\ entry'[1].ordinal = entry[1].ordinal
<1> DEFINE n == Count
           e == entry[1]
           x == Append(e.path, source[n + 1].name)
           f == [e EXCEPT !.path = x]
<1>1. /\ n \in Nat /\ source[n + 1].kind = "start" /\ Current = source[n + 1]
  BY CurrentRecord DEF StartElement
<1>2. Count' = n + 1 /\ source' = source /\ file' = file
  BY RecordsInserted DEF StartElement, Kept
<1>3. entry = <<e>> /\ IsState(e)
  BY DEF OpenInv
<1>4. entry' = <<f>>
  BY <1>1, <1>3 DEF StartElement
<1>5. OpenElement(source, First(e), n) /\ PathOf(source, First(e), n, e.path)
  BY DEF OpenInv
<1>6. PathOf(source, First(e), n + 1, x) /\ Closing(source, First(e)) > n + 1
  BY <1>1, <1>5, PathPushed
<1>7. /\ IsState(f) /\ f.path = x
      /\ f.depth = e.depth /\ f.name = e.name /\ f.start = e.start
      /\ f.ordinal = e.ordinal /\ f.headword = e.headword /\ f.at = e.at
  <2>1. f = [e EXCEPT !.path = x] /\ IsState(e)
    BY <1>3
  <2> HIDE DEF x, f, e
  <2>. QED BY <2>1, PathFields
<1> HIDE DEF f, x
<1>8. Heads(e, f, source, Dictionary, n)
  BY <1>1, <1>7, NoHead
<1>9. OpenInv' /\ HeadInv'
  <2> HIDE DEF n
  <2>. QED BY <1>1, <1>2, <1>4, <1>6, <1>7, <1>8, OpenFollows DEF n
<1>. QED BY <1>4, <1>7, <1>9

\* The end of an element inside of an entry. An end that would close the entry
\* itself without finishing it has another name than the entry, which is all that
\* is left on the path, and is refused.
LEMMA OpenEnd ==
  ASSUME FileInv, RecordsInv, OpenInv, HeadInv, entry # <<>>,
         Reading("end"), ~FinishesEntry, Current.name = entry[1].path[Len(entry[1].path)],
         Insert, Kept,
         entry' = [entry EXCEPT ![1].path = SubSeq(@, 1, Len(@) - 1)]
  PROVE  /\ OpenInv' /\ HeadInv' /\ entry' # <<>>
         /\ entry'[1].start = entry[1].start /\ entry'[1].ordinal = entry[1].ordinal
<1> DEFINE n == Count
           e == entry[1]
           i == First(e)
           x == SubSeq(e.path, 1, Len(e.path) - 1)
           f == [e EXCEPT !.path = x]
<1>1. /\ n \in Nat /\ source[n + 1].kind = "end" /\ Current = source[n + 1]
      /\ source \in Documents /\ n + 1 \in 1..Len(source)
  BY CurrentRecord
<1>2. Count' = n + 1 /\ source' = source /\ file' = file
  BY RecordsInserted DEF Kept
<1>3. /\ entry = <<e>> /\ IsState(e)
      /\ OpenElement(source, i, n) /\ PathOf(source, i, n, e.path)
      /\ e.name = source[i].name /\ e.depth = source[i].depth
  BY DEF OpenInv
<1>4. entry' = <<f>>
  BY <1>3
<1>5. Closing(source, i) # n + 1
  <2> SUFFICES ASSUME Closing(source, i) = n + 1 PROVE FALSE
    OBVIOUS
  <2>1. /\ i \in i..n /\ i \in 1..Len(source) /\ OpenAt(source, i, n) /\ n \in Nat
        /\ Level(source, i - 1) \in Int /\ Level(source, n) \in Int
    BY <1>3, ElementFacts DEF OpenElement
  <2>2. Level(source, i - 1) + 1 = Level(source, n)
    <3> HIDE DEF i, n
    <3>. QED BY <1>3, <2>1, ClosesAt
  <2>3. source[n + 1].depth = e.depth
    <3>1. source[n + 1].depth = Level(source, (n + 1) - 1) - 1 /\ (n + 1) - 1 = n
      BY <1>1, DocumentRecords
    <3>2. source[i].kind = "start" /\ source[i].depth = Level(source, i - 1)
      BY <1>1, <2>1, DocumentRecords DEF OpenAt
    <3>. QED BY <1>3, <2>1, <2>2, <3>1, <3>2
  <2>4. Len(e.path) = 1
    <3>1. Len(e.path) = Level(source, n) - Level(source, i - 1)
      BY <1>3 DEF PathOf
    <3>. QED BY <2>1, <2>2, <3>1
  <2>5. e.path[1] = e.name
    <3>1. e.path[Level(source, i - 1) - Level(source, i - 1) + 1] = source[i].name
      BY <1>3, <2>1 DEF PathOf
    <3>. QED BY <1>3, <2>1, <3>1
  <2>. QED BY <1>1, <2>3, <2>4, <2>5 DEF FinishesEntry
<1>6. PathOf(source, i, n + 1, x) /\ Closing(source, i) > n + 1
  BY <1>1, <1>3, <1>5, PathPopped
<1>7. /\ IsState(f) /\ f.path = x
      /\ f.depth = e.depth /\ f.name = e.name /\ f.start = e.start
      /\ f.ordinal = e.ordinal /\ f.headword = e.headword /\ f.at = e.at
  <2>1. f = [e EXCEPT !.path = x] /\ IsState(e)
    BY <1>3
  <2> HIDE DEF x, f, e
  <2>. QED BY <2>1, PathFields
<1> HIDE DEF f, x
<1>8. Heads(e, f, source, Dictionary, n)
  BY <1>1, <1>7, NoHead
<1>9. OpenInv' /\ HeadInv'
  <2> HIDE DEF n
  <2>. QED BY <1>1, <1>2, <1>4, <1>6, <1>7, <1>8, OpenFollows DEF n
<1>. QED BY <1>4, <1>7, <1>9

\* The end that finishes an entry closes its element.
LEMMA FinishCloses ==
  ASSUME FileInv, RecordsInv, OpenInv, entry # <<>>, Reading("end"), FinishesEntry
  PROVE  Closing(source, First(entry[1])) = Count + 1
<1> DEFINE n == Count
           e == entry[1]
           i == First(e)
<1>1. /\ n \in Nat /\ source[n + 1].kind = "end" /\ Current = source[n + 1]
      /\ source \in Documents /\ n + 1 \in 1..Len(source)
  BY CurrentRecord
<1>2. OpenElement(source, i, n) /\ e.depth = source[i].depth
  BY DEF OpenInv
<1>3. /\ i \in i..n /\ i \in 1..Len(source) /\ OpenAt(source, i, n) /\ n \in Nat
      /\ Level(source, i - 1) \in Int /\ Level(source, n) \in Int
  BY <1>2, ElementFacts DEF OpenElement
<1>4. source[n + 1].depth = Level(source, (n + 1) - 1) - 1 /\ (n + 1) - 1 = n
  <2> HIDE DEF n
  <2>. QED BY <1>1, DocumentRecords
<1>5. source[i].depth = Level(source, i - 1)
  BY <1>1, <1>3, DocumentRecords DEF OpenAt
<1>6. Level(source, i - 1) + 1 = Level(source, n)
  BY <1>1, <1>2, <1>3, <1>4, <1>5 DEF FinishesEntry
<1> HIDE DEF i, n
<1>7. Closing(source, i) = n + 1
  BY <1>1, <1>2, <1>3, <1>6, ClosesAt
<1>. QED BY <1>7 DEF i, e, n

\* A start element of an entry, outside of entries.
LEMMA OpenEntry ==
  ASSUME FileInv, RecordsInv, StartEntry
  PROVE  /\ OpenInv' /\ HeadInv' /\ entry' # <<>>
         /\ First(entry[1])' = Count + 1 /\ entry'[1].ordinal = Cardinality(entities) + 1
<1> DEFINE n == Count
           r == source[n + 1]
           f == NewEntry(r, n)
<1>1. /\ n \in Nat /\ r.kind = "start" /\ Current = r /\ source \in Documents
      /\ n + 1 \in 1..Len(source) /\ r.name = EntryElement(Dictionary)
  BY CurrentRecord DEF StartEntry, IsEntry
<1>2. Count' = n + 1 /\ source' = source /\ Dictionary' = Dictionary
  BY RecordsInserted DEF StartEntry, Kept, Dictionary
<1>3. entry' = <<f>>
  BY <1>1 DEF StartEntry
<1>4. /\ f.start = n /\ First(f) = n + 1 /\ f.name = r.name /\ f.depth = r.depth
      /\ f.path = <<r.name>> /\ f.headword = Absent /\ f.at = -1
      /\ f.ordinal = Cardinality(entities) + 1
  BY DEF NewEntry, First
<1>5. IsState(f)
  BY <1>1 DEF NewEntry, IsState
<1>6. PathOf(source, n + 1, n + 1, <<r.name>>) /\ Closing(source, n + 1) > n + 1
  BY <1>1, PathStarts
<1>7. OpenElement(source, n + 1, n + 1)
  <2>1. Closing(source, n + 1) \in ((n + 1) + 1)..Len(source)
    BY <1>1, ClosingOf, DocumentRecords
  <2>2. n + 1 \in 1..(n + 1) /\ n + 1 \in 1..(Len(source) - 1)
    BY <1>1, <2>1, DocumentRecords
  <2>. QED BY <1>1, <1>6, <2>2 DEF OpenElement, OpenAt
<1> HIDE DEF f
<1>8. entry' # <<>> /\ entry'[1] = f
  BY <1>3
<1>9. OpenInv'
  <2>1. (source[First(entry[1])].name = EntryElement(Dictionary))'
    BY <1>1, <1>2, <1>4, <1>8
  <2>2. (OpenElement(source, First(entry[1]), Count))'
    BY <1>2, <1>4, <1>7, <1>8
  <2>3. (PathOf(source, First(entry[1]), Count, entry[1].path))'
    BY <1>2, <1>4, <1>6, <1>8
  <2>4. /\ (entry[1].name = source[First(entry[1])].name)'
        /\ (entry[1].depth = source[First(entry[1])].depth)'
        /\ (entry = <<entry[1]>>)' /\ IsState(entry[1])'
    BY <1>2, <1>3, <1>4, <1>5, <1>8
  <2>. QED BY <2>1, <2>2, <2>3, <2>4 DEF OpenInv, IsEntry
<1>10. HeadInv'
  <2>1. HeadOf(source, Dictionary, n + 1, n + 1, -1, Absent)
    <3>1. \A k \in ((n + 1) + 1)..(n + 1) : FALSE
      BY <1>1
    <3>. QED BY <3>1 DEF HeadOf
  <2>. QED BY <1>2, <1>4, <1>8, <2>1 DEF HeadInv
<1>. QED BY <1>4, <1>8, <1>9, <1>10

\* One record more may be the start of one entry more.
LEMMA EntryStartsNext ==
  ASSUME NEW s, NEW d, NEW n \in Nat
  PROVE  /\ IsFiniteSet(EntryStarts(s, d, n)) /\ Cardinality(EntryStarts(s, d, n)) \in Nat
         /\ EntryStarts(s, d, n) \subseteq EntryStarts(s, d, n + 1)
         /\ s[n + 1].kind = "start" /\ s[n + 1].name = EntryElement(d) =>
              /\ EntryStarts(s, d, n + 1) = EntryStarts(s, d, n) \cup {n + 1}
              /\ Cardinality(EntryStarts(s, d, n + 1)) = Cardinality(EntryStarts(s, d, n)) + 1
         /\ ~(s[n + 1].kind = "start" /\ s[n + 1].name = EntryElement(d)) =>
              EntryStarts(s, d, n + 1) = EntryStarts(s, d, n)
<1>1. IsFiniteSet(EntryStarts(s, d, n)) /\ Cardinality(EntryStarts(s, d, n)) \in Nat
  <2>1. IsFiniteSet(1..n)
    BY FS_Interval
  <2>2. EntryStarts(s, d, n) \in SUBSET (1..n)
    BY DEF EntryStarts
  <2>. QED BY <2>1, <2>2, FS_Subset, FS_CardinalityType
<1>2. EntryStarts(s, d, n) \subseteq EntryStarts(s, d, n + 1) /\ n + 1 \notin EntryStarts(s, d, n)
  BY DEF EntryStarts
<1>3. s[n + 1].kind = "start" /\ s[n + 1].name = EntryElement(d) =>
        EntryStarts(s, d, n + 1) = EntryStarts(s, d, n) \cup {n + 1}
  BY DEF EntryStarts
<1>4. ~(s[n + 1].kind = "start" /\ s[n + 1].name = EntryElement(d)) =>
        EntryStarts(s, d, n + 1) = EntryStarts(s, d, n)
  BY DEF EntryStarts
<1>. QED BY <1>1, <1>2, <1>3, <1>4, FS_AddElement

\* What holds of the entities still holds a record later.
LEMMA EntitiesNext ==
  ASSUME NEW X, NEW s, NEW d, NEW n \in Nat, EntitiesOf(X, s, d, n)
  PROVE  EntitiesOf(X, s, d, n + 1)
<1>1. ASSUME NEW x \in X PROVE EntityOf(x, s, d, n + 1)
  <2>1. EntityOf(x, s, d, n)
    BY DEF EntitiesOf
  <2>2. First(x) \in EntryStarts(s, d, n + 1)
    BY <2>1, EntryStartsNext DEF EntityOf
  <2>3. x.start \in Nat /\ x.end \in x.start..((n + 1) - 1)
    BY <2>1 DEF EntityOf
  <2>. QED BY <2>1, <2>2, <2>3 DEF EntityOf
<1>. QED BY <1>1 DEF EntitiesOf

\* What a record that is only inserted leaves as it is.
LEMMA LoopStep ==
  ASSUME RowsInv, NEW kind, Reading(kind), Insert, Kept
  PROVE  /\ FileInv' /\ RecordsInv' /\ AttributesInv' /\ EntitiesInv' /\ OwnerInv'
         /\ CommittedInv' /\ IdleInv'
         /\ Count' = Count + 1 /\ file # <<>>
<1> USE DEF RowsInv
<1>1. UNCHANGED <<db, file, source, entities, keys, outcome>>
  BY DEF Kept
<1>2. Count' = Count + 1 /\ RecordsInv'
  BY <1>1, RecordsInserted
<1>3. /\ file # <<>> /\ Count \in Nat
  BY CurrentRecord
<1>4. AttributesInv'
  BY <1>1, <1>2, AttributesInserted DEF Insert
<1>5. FileInv'
  BY <1>1 DEF FileInv
<1>6. EntitiesInv'
  <2>1. EntitiesOf(entities, source, Dictionary, Count + 1)
    <3>1. EntitiesOf(entities, source, Dictionary, Count)
      BY <1>3 DEF EntitiesInv
    <3> HIDE DEF Count
    <3>. QED BY <1>3, <3>1, EntitiesNext
  <2>2. Dictionary' = Dictionary
    BY <1>1 DEF Dictionary
  <2>. QED BY <1>1, <1>2, <1>3, <2>1, <2>2 DEF EntitiesInv
<1>7. OwnerInv'
  <2> DEFINE x == Row(Current, Count)
  <2>1. records' = records \cup {x}
    BY DEF Insert
  <2>2. x.entry = <<>> /\ x.ordinal = Count
    BY DEF Row
  <2>3. \A y \in entities : Count \notin y.start..y.end
    <3> TAKE y \in entities
    <3>1. y.end \in y.start..(Count - 1) /\ y.start \in Nat
      BY <1>3 DEF EntitiesInv, EntitiesOf, EntityOf
    <3> HIDE DEF Count
    <3>. QED BY <1>3, <3>1
  <2> HIDE DEF x
  <2>. QED BY <1>1, <2>1, <2>2, <2>3 DEF OwnerInv
<1>8. CommittedInv'
  BY <1>1 DEF CommittedInv
<1>9. IdleInv'
  BY <1>1, <1>3 DEF IdleInv
<1>. QED BY <1>2, <1>3, <1>4, <1>5, <1>6, <1>7, <1>8, <1>9

\* A record that starts no entry leaves the account as it is.
LEMMA AccountKept ==
  ASSUME RowsInv, file # <<>>, Kept, Count' = Count + 1,
         ~(source[Count + 1].kind = "start" /\ IsEntry(source[Count + 1])),
         entry = <<>> => entry' = <<>>,
         entry # <<>> => /\ entry' # <<>> /\ entry'[1].start = entry[1].start
                         /\ entry'[1].ordinal = entry[1].ordinal
  PROVE  AccountInv'
<1>1. UNCHANGED <<file, source, entities>> /\ Dictionary' = Dictionary
  BY DEF Kept, Dictionary
<1>2. Count \in Nat
  BY DEF RowsInv, RecordsInv
<1>3. EntryStarts(source, Dictionary, Count + 1) = EntryStarts(source, Dictionary, Count)
  BY <1>2, EntryStartsNext DEF IsEntry
<1> DEFINE E == EntryStarts(source, Dictionary, Count)
<1>4. EntryStarts(source, Dictionary, Count)' = E
  BY <1>1, <1>3
<1>5. AccountInv
  BY DEF RowsInv
<1> HIDE DEF E
<1>6. CASE entry = <<>>
  <2>1. /\ \A i \in E : \E x \in entities : First(x) = i
        /\ Cardinality(entities) = Cardinality(E)
    BY <1>5, <1>6 DEF AccountInv, E
  <2>. QED BY <1>1, <1>4, <1>6, <2>1 DEF AccountInv
<1>7. CASE entry # <<>>
  <2>1. /\ \A i \in E : i = First(entry[1]) \/ \E x \in entities : First(x) = i
        /\ \A x \in entities : x.end < entry[1].start
        /\ Cardinality(entities) + 1 = Cardinality(E)
        /\ entry[1].ordinal = Cardinality(EntryStarts(source, Dictionary, First(entry[1])))
    BY <1>5, <1>7 DEF AccountInv, E
  <2>2. First(entry[1])' = First(entry[1])
    BY <1>7 DEF First
  <2>3. (/\ \A i \in EntryStarts(source, Dictionary, Count) :
               i = First(entry[1]) \/ \E x \in entities : First(x) = i
         /\ \A x \in entities : x.end < entry[1].start
         /\ Cardinality(entities) + 1 = Cardinality(EntryStarts(source, Dictionary, Count))
         /\ entry[1].ordinal = Cardinality(EntryStarts(source, Dictionary, First(entry[1]))))'
    BY <1>1, <1>4, <1>7, <2>1, <2>2
  <2>. QED BY <1>7, <2>3 DEF AccountInv
<1>. QED BY <1>6, <1>7

\* The start of an entry adds one to it.
LEMMA AccountEntry ==
  ASSUME RowsInv, StartEntry, Count' = Count + 1,
         entry' # <<>>, First(entry[1])' = Count + 1,
         entry'[1].ordinal = Cardinality(entities) + 1
  PROVE  AccountInv'
<1>1. /\ UNCHANGED <<file, source, entities>> /\ Dictionary' = Dictionary
      /\ entry = <<>> /\ file # <<>>
      /\ source[Count + 1].kind = "start" /\ source[Count + 1].name = EntryElement(Dictionary)
  BY DEF StartEntry, Kept, Dictionary, Reading, Current, IsEntry
<1>2. Count \in Nat
  BY DEF RowsInv, RecordsInv
<1> DEFINE E == EntryStarts(source, Dictionary, Count)
           F == EntryStarts(source, Dictionary, Count + 1)
<1>3. F = E \cup {Count + 1} /\ Cardinality(F) = Cardinality(E) + 1
  <2>1. ASSUME NEW n \in Nat, source[n + 1].kind = "start",
               source[n + 1].name = EntryElement(Dictionary)
        PROVE  /\ EntryStarts(source, Dictionary, n + 1)
                    = EntryStarts(source, Dictionary, n) \cup {n + 1}
               /\ Cardinality(EntryStarts(source, Dictionary, n + 1))
                    = Cardinality(EntryStarts(source, Dictionary, n)) + 1
    BY <2>1, EntryStartsNext
  <2>. QED BY <1>1, <1>2, <2>1
<1>4. (\A i \in E : \E x \in entities : First(x) = i) /\ Cardinality(entities) = Cardinality(E)
  BY <1>1 DEF RowsInv, AccountInv
<1>5. EntryStarts(source, Dictionary, Count)' = F
  BY <1>1
<1>6. EntryStarts(source, Dictionary, First(entry[1]))' = F
  BY <1>1
<1>7. \A x \in entities : x.end < Count
  <2> TAKE x \in entities
  <2>1. x.end \in x.start..(Count - 1) /\ x.start \in Nat
    BY <1>1 DEF RowsInv, EntitiesInv, EntitiesOf, EntityOf
  <2> HIDE DEF Count
  <2>. QED BY <1>2, <2>1
<1>8. entry'[1].start = Count
  <2>1. entry'[1] = NewEntry(Current, Count)
    BY DEF StartEntry
  <2>. QED BY <2>1 DEF NewEntry
<1> HIDE DEF E, F
<1>9. (/\ \A i \in EntryStarts(source, Dictionary, Count) :
             i = First(entry[1]) \/ \E x \in entities : First(x) = i
       /\ \A x \in entities : x.end < entry[1].start
       /\ Cardinality(entities) + 1 = Cardinality(EntryStarts(source, Dictionary, Count))
       /\ entry[1].ordinal = Cardinality(EntryStarts(source, Dictionary, First(entry[1]))))'
  BY <1>1, <1>3, <1>4, <1>5, <1>6, <1>7, <1>8
<1>10. entry' # <<>>
  OBVIOUS
<1>. QED BY <1>9, <1>10 DEF AccountInv

\* Nothing is wrong with the entry.
Sound(e) == Fault(e) = ""

\* It has a headword then.
LEMMA SoundHeadword ==
  ASSUME NEW e, Sound(e), NEW s, NEW d, NEW i, NEW n, HeadOf(s, d, i, n, e.at, e.headword)
  PROVE  e.at # -1
<1>1. Normalized(e.headword) # ""
  BY DEF Fault, Sound
<1>2. e.headword # Absent
  BY <1>1 DEF Normalized
<1>. QED BY <1>2 DEF HeadOf

\* The entity row of an entry that is complete.
LEMMA FinishedEntity ==
  ASSUME RowsInv, Reading("end"), entry # <<>>, FinishesEntry, Sound(entry[1]),
         NEW x, x = EntityRow(entry[1], Count)
  PROVE  /\ EntityOf(x, source, Dictionary, Count + 1)
         /\ x.start = entry[1].start /\ x.end = Count /\ x.file = file[1]
         /\ \A y \in entities : y.start \in Nat /\ y.end \in Nat /\ y.end < x.start
                                /\ y.start <= y.end
         /\ First(x) = First(entry[1]) /\ x.start <= Count
<1> DEFINE e == entry[1]
           n == Count
           i == First(e)
<1>1. /\ n \in Nat /\ source \in Documents /\ file # <<>> /\ source[n + 1].kind = "end"
  BY CurrentRecord DEF RowsInv
<1>2. /\ IsState(e) /\ OpenElement(source, i, n) /\ source[i].name = EntryElement(Dictionary)
      /\ HeadOf(source, Dictionary, i, n, e.at, e.headword)
  BY DEF RowsInv, OpenInv, HeadInv, IsEntry
<1>3. Closing(source, i) = n + 1
  BY FinishCloses DEF RowsInv
<1>4. /\ x.start = e.start /\ x.end = n /\ x.file = file[1] /\ First(x) = i
      /\ x.ordinal = e.ordinal /\ x.at = e.at /\ x.headword = Normalized(e.headword)
  BY DEF EntityRow, First
<1>6. e.at # -1
  BY <1>2, SoundHeadword
<1>7. HeadAt(source, Dictionary, i, n, e.at) /\ e.headword = Given(source, Dictionary, e.at + 1)
  BY <1>2, <1>6 DEF HeadOf
<1>8. e.ordinal = Cardinality(EntryStarts(source, Dictionary, i))
      /\ \A y \in entities : y.end < e.start
  BY <1>1 DEF RowsInv, AccountInv
<1>9. e.start \in Nat /\ e.start + 1 = i /\ i \in 1..n /\ source[i].kind = "start"
  BY <1>2 DEF IsState, First, OpenElement, OpenAt
<1>10. \A y \in entities : y.start \in Nat /\ y.end \in Nat /\ y.start <= y.end
  <2> TAKE y \in entities
  <2>1. y.end \in y.start..(n - 1) /\ y.start \in Nat
    BY <1>1 DEF RowsInv, EntitiesInv, EntitiesOf, EntityOf
  <2>2. n \in Nat
    BY <1>1
  <2> HIDE DEF n
  <2>. QED BY <2>1, <2>2
<1>13. n \in Nat /\ i \in 1..n /\ e.start \in Nat /\ e.start + 1 = i
  BY <1>1, <1>9
<1> HIDE DEF e, n, i
<1>11. EntityOf(x, source, Dictionary, n + 1)
  <2>1. i \in EntryStarts(source, Dictionary, n + 1)
    BY <1>1, <1>2, <1>9 DEF EntryStarts
  <2>2. x.end = Closing(source, i) - 1 /\ x.end \in x.start..((n + 1) - 1)
    BY <1>1, <1>3, <1>4, <1>9
  <2>. QED BY <1>4, <1>7, <1>8, <1>9, <2>1, <2>2 DEF EntityOf
<1>12. x.start <= n
  BY <1>1, <1>4, <1>9
<1>. QED BY <1>4, <1>8, <1>10, <1>11, <1>12 DEF e, n, i

\* finish_entry: the entity joins the others, and its records become its own.
LEMMA FinishInv ==
  ASSUME RowsInv, FinishEntry, Sound(entry[1])
  PROVE  RowsInv'
<1> DEFINE x == EntityRow(entry[1], Count)
           n == Count
           R == records \cup {Row(Current, n)}
           Claimed(r) == [r EXCEPT !.entry = IF r.ordinal \in entry[1].start..n
                                               THEN x.id ELSE @]
<1>1. /\ Reading("end") /\ FinishesEntry /\ entry # <<>>
      /\ entities' = entities \cup {x} /\ entry' = <<>>
      /\ UNCHANGED <<db, file, source, attributes>>
      /\ records' = {Claimed(r) : r \in R}
  BY DEF FinishEntry, FinishesEntry, Owned, Sound
<1>2. /\ n \in Nat /\ source \in Documents /\ file # <<>> /\ Current = source[n + 1]
      /\ source[n + 1].kind = "end" /\ n + 1 \in 1..Len(source) /\ Dictionary' = Dictionary
  BY <1>1, CurrentRecord DEF RowsInv, Dictionary
<1>3. /\ EntityOf(x, source, Dictionary, n + 1)
      /\ x.start = entry[1].start /\ x.end = n /\ x.file = file[1]
      /\ \A y \in entities : y.start \in Nat /\ y.end \in Nat /\ y.end < x.start
                             /\ y.start <= y.end
      /\ First(x) = First(entry[1]) /\ x.start <= n
  BY <1>1, FinishedEntity
<1>4. x.start \in Nat
  BY <1>3 DEF EntityOf
<1>5. \A r \in R : /\ Claimed(r).ordinal = r.ordinal
                   /\ Claimed(r) = [r EXCEPT !.entry = Claimed(r).entry]
                   /\ Claimed(r).entry = IF r.ordinal \in x.start..n THEN x.id ELSE r.entry
  <2> TAKE r \in R
  <2>1. r = [Row(source[r.ordinal + 1], r.ordinal) EXCEPT !.entry = r.entry]
    BY <1>2 DEF RowsInv, RecordsInv, Row
  <2>2. r = [ordinal |-> r.ordinal, entry |-> r.entry, kind |-> r.kind, depth |-> r.depth,
             name |-> r.name, value |-> r.value]
    BY <2>1 DEF Row
  <2> DEFINE y == IF r.ordinal \in entry[1].start..n THEN x.id ELSE r.entry
  <2>3. Claimed(r) = [r EXCEPT !.entry = y]
    OBVIOUS
  <2>4. y = IF r.ordinal \in x.start..n THEN x.id ELSE r.entry
    BY <1>3
  <2> HIDE DEF y, Claimed
  <2>5. Claimed(r).ordinal = r.ordinal /\ Claimed(r).entry = y
    BY <2>2, <2>3
  <2>. QED BY <2>3, <2>4, <2>5
<1>6. Count' = n + 1 /\ RecordsInv'
  <2>1. \A t \in records' : \E r \in R : t = [r EXCEPT !.entry = t.entry]
    BY <1>1, <1>5
  <2>2. \A r \in R : \E t \in records' : t.ordinal = r.ordinal
    BY <1>1, <1>5
  <2>3. \A t, u \in records' : t.ordinal = u.ordinal => t = u
    <3>1. Numbered(records, n) /\ Row(Current, n).ordinal = n
      BY DEF RowsInv, RecordsInv, Row
    <3>2. Numbered(R, n + 1)
      BY <1>2, <3>1, NumberedNext
    <3>3. \A q, r \in R : q.ordinal = r.ordinal => q = r
      BY <3>2 DEF Numbered
    <3> HIDE DEF R, Claimed
    <3>. QED BY <1>1, <1>5, <3>3
  <2>. QED BY <1>1, <2>1, <2>2, <2>3, RecordsGrow DEF RowsInv
<1>7. AttributesInv'
  <2>1. Current.attributes = <<>>
    BY <1>2, RecordFields
  <2>3. \A i \in DOMAIN Current.attributes : FALSE
    BY <2>1
  <2>2. attributes' = attributes \cup
           {[record |-> Count, ordinal |-> i - 1, name |-> Current.attributes[i].name,
             value |-> Current.attributes[i].value] : i \in DOMAIN Current.attributes}
    BY <1>1, <2>3
  <2>. QED BY <1>1, <1>6, <2>2, AttributesInserted DEF RowsInv
<1>8. FileInv'
  BY <1>1 DEF RowsInv, FileInv
<1>9. OpenInv' /\ HeadInv'
  BY <1>1 DEF OpenInv, HeadInv
<1>10. EntitiesInv'
  <2>1. EntitiesOf(entities, source, Dictionary, n + 1)
    BY <1>2, EntitiesNext DEF RowsInv, EntitiesInv
  <2>2. /\ \A y \in entities : y.file = file[1]
        /\ \A y, z \in entities : y # z => y.end < z.start \/ z.end < y.start
    BY <1>2 DEF RowsInv, EntitiesInv
  <2> HIDE DEF x
  <2>3. IsFiniteSet(entities \cup {x})
    BY <2>1, FS_AddElement DEF EntitiesOf
  <2>4. \A y, z \in entities \cup {x} : y.start = z.start => y = z
    <3>1. \A y \in entities : y.start # x.start
      BY <1>3, <1>4
    <3>. QED BY <2>1, <3>1 DEF EntitiesOf
  <2>5. EntitiesOf(entities \cup {x}, source, Dictionary, n + 1)
    BY <1>3, <2>1, <2>3, <2>4 DEF EntitiesOf
  <2>6. /\ \A y \in entities \cup {x} : y.file = file[1]
        /\ \A y, z \in entities \cup {x} : y # z => y.end < z.start \/ z.end < y.start
    BY <1>3, <2>2
  <2> HIDE DEF n
  <2>. QED BY <1>1, <1>2, <1>6, <2>5, <2>6 DEF EntitiesInv
<1>11. AccountInv'
  <2> DEFINE E == EntryStarts(source, Dictionary, n)
  <2>1. /\ \A i \in E : i = First(entry[1]) \/ \E y \in entities : First(y) = i
        /\ Cardinality(entities) + 1 = Cardinality(E)
    BY <1>1, <1>2 DEF RowsInv, AccountInv
  <2>2. EntryStarts(source, Dictionary, n + 1) = E
    BY <1>2, EntryStartsNext
  <2>3. Cardinality(entities \cup {x}) = Cardinality(entities) + 1
    <3>1. IsFiniteSet(entities)
      BY <1>2 DEF RowsInv, EntitiesInv, EntitiesOf
    <3>2. x \notin entities
      BY <1>3, <1>4
    <3>. QED BY <3>1, <3>2, FS_AddElement
  <2>4. EntryStarts(source, Dictionary, Count)' = E
    BY <1>1, <1>2, <1>6, <2>2
  <2> HIDE DEF E, x
  <2>. QED BY <1>1, <1>3, <2>1, <2>3, <2>4 DEF AccountInv
<1>12. OwnerInv'
  <2> SUFFICES ASSUME NEW r \in R
               PROVE  LET t == Claimed(r) IN
                      \/ \E y \in entities' : t.ordinal \in y.start..y.end /\ t.entry = y.id
                      \/ /\ t.entry = <<>>
                         /\ \A y \in entities' : t.ordinal \notin y.start..y.end
    <3> HIDE DEF R, Claimed
    <3>. QED BY <1>1 DEF OwnerInv
  <2> DEFINE t == Claimed(r)
  <2>1. t.ordinal = r.ordinal /\ t.entry = IF r.ordinal \in x.start..n THEN x.id ELSE r.entry
    BY <1>5
  <2>2. CASE r.ordinal \in x.start..n
    <3> HIDE DEF x, t, Claimed
    <3>. QED BY <1>1, <1>3, <2>1, <2>2 DEF t
  <2>3. CASE r.ordinal \notin x.start..n
    <3>1. r \in records
      <4>1. Row(Current, n).ordinal = n
        BY DEF Row
      <4>. QED BY <1>2, <1>3, <1>4, <2>3, <4>1
    <3>2. \/ \E y \in entities : r.ordinal \in y.start..y.end /\ r.entry = y.id
          \/ /\ r.entry = <<>>
             /\ \A y \in entities : r.ordinal \notin y.start..y.end
      BY <3>1 DEF RowsInv, OwnerInv
    <3>3. t.ordinal = r.ordinal /\ t.entry = r.entry
      BY <2>1, <2>3
    <3> HIDE DEF x, t, Claimed, n
    <3>. QED BY <1>1, <1>3, <2>3, <3>2, <3>3 DEF t
  <2>. QED BY <2>2, <2>3
<1>13. CommittedInv'
  BY <1>1 DEF RowsInv, CommittedInv
<1>14. IdleInv'
  BY <1>1, <1>2 DEF IdleInv
<1>. QED BY <1>6, <1>7, <1>8, <1>9, <1>10, <1>11, <1>12, <1>13, <1>14 DEF RowsInv

\* What is rolled back leaves nothing but the committed files.
LEMMA IdleFacts == CommittedInv /\ IdleInv /\ file = <<>> => RowsInv
<1> SUFFICES ASSUME CommittedInv, IdleInv, file = <<>> PROVE RowsInv
  OBVIOUS
<1>1. /\ source = <<>> /\ records = {} /\ attributes = {} /\ entities = {} /\ entry = <<>>
  BY DEF IdleInv
<1>2. Cardinality({}) = 0 /\ IsFiniteSet({})
  BY FS_EmptySet
<1>3. Count = 0 /\ Len(source) = 0
  BY <1>1, <1>2 DEF Count
<1>4. RecordsInv
  BY <1>1, <1>3 DEF RecordsInv, Numbered
<1>5. AttributesInv
  <2>1. \A k \in 0..(Count - 1) : FALSE
    BY <1>3
  <2>. QED BY <1>1, <1>2, <2>1 DEF AttributesInv
<1>6. OwnerInv
  BY <1>1 DEF OwnerInv
<1>. QED BY <1>1, <1>4, <1>5, <1>6 DEF RowsInv, FileInv, OpenInv, HeadInv, EntitiesInv, AccountInv

LEMMA IdleNext == (CommittedInv /\ IdleInv /\ file = <<>> => RowsInv)'
BY IdleFacts, PTL

LEMMA RolledBack ==
  ASSUME RowsInv, NEW reason, RollBack(reason)
  PROVE  RowsInv'
<1>1. CommittedInv' /\ IdleInv' /\ file' = <<>>
  BY DEF RollBack, RowsInv, CommittedInv, IdleInv
<1>. QED BY <1>1, IdleNext

LEMMA Begins ==
  ASSUME RowsInv, NEW f \in Files, NEW s \in Sources[DictionaryOf[f]], BeginFile(f, s)
  PROVE  RowsInv'
<1>1. /\ file = <<>> /\ file' = <<f>> /\ f \notin DOMAIN db.files /\ source' = s
      /\ UNCHANGED <<db, records, attributes, entities, entry>>
  BY DEF BeginFile
<1>2. records = {} /\ attributes = {} /\ entities = {} /\ entry = <<>>
  BY <1>1 DEF RowsInv, IdleInv
<1>3. s \in Documents /\ Len(s) \in Nat
  BY SourcesAssumption, DocumentRecords
<1>4. Cardinality({}) = 0 /\ IsFiniteSet({})
  BY FS_EmptySet
<1>5. Count' = 0
  BY <1>1, <1>2, <1>4 DEF Count
<1>6. file' # <<>> /\ file'[1] = f
  BY <1>1
<1>7. FileInv'
  BY <1>1, <1>3, <1>6 DEF FileInv
<1>8. RecordsInv'
  BY <1>1, <1>2, <1>3, <1>5 DEF RecordsInv, Numbered
<1>9. AttributesInv'
  <2>1. \A k \in 0..(0 - 1) : FALSE
    OBVIOUS
  <2>. QED BY <1>1, <1>2, <1>4, <1>5, <2>1 DEF AttributesInv
<1>10. EntryStarts(source, Dictionary, Count)' = {}
  BY <1>5 DEF EntryStarts
<1>11. EntitiesInv'
  BY <1>1, <1>2, <1>4 DEF EntitiesInv, EntitiesOf
<1>12. AccountInv'
  BY <1>1, <1>2, <1>4, <1>10 DEF AccountInv
<1>13. OpenInv' /\ HeadInv' /\ OwnerInv' /\ IdleInv'
  BY <1>1, <1>2, <1>6 DEF OpenInv, HeadInv, OwnerInv, IdleInv
<1>14. CommittedInv'
  BY <1>1 DEF RowsInv, CommittedInv
<1>. QED BY <1>7, <1>8, <1>9, <1>11, <1>12, <1>13, <1>14 DEF RowsInv

\* The end of a file: its entities join those of the files committed before.
LEMMA Commits ==
  ASSUME RowsInv, EndOfSource
  PROVE  RowsInv'
<1>1. CASE entry # <<>> \/ ~Validates(records, attributes)
  BY <1>1, RolledBack DEF EndOfSource
<1>2. CASE ~(entry # <<>> \/ ~Validates(records, attributes))
  <2>1. /\ entry = <<>> /\ file # <<>> /\ Count = Len(source)
        /\ db' = [files |-> [g \in DOMAIN db.files \cup {file[1]} |->
                               IF g = file[1] THEN source ELSE db.files[g]],
                  entities |-> db.entities \cup entities]
        /\ file' = <<>> /\ source' = <<>> /\ records' = {} /\ attributes' = {}
        /\ entities' = {} /\ UNCHANGED entry
    BY <1>2 DEF EndOfSource, Exhausted
  <2> DEFINE h == file[1]
             Of(X, f) == {x \in X : x.file = f}
             Good(s, d, X) == /\ s \in Documents
                              /\ EntitiesOf(X, s, d, Len(s))
                              /\ \A i \in EntryStarts(s, d, Len(s)) : \E x \in X : First(x) = i
  <2>2. /\ DOMAIN db'.files = DOMAIN db.files \cup {h}
        /\ db'.files[h] = source
        /\ \A g \in DOMAIN db.files : g # h => db'.files[g] = db.files[g]
        /\ db'.entities = db.entities \cup entities
    BY <2>1
  <2>3. /\ h \in Files /\ h \notin DOMAIN db.files /\ source \in Documents
    BY <2>1 DEF RowsInv, FileInv
  <2>4. /\ DOMAIN db.files \subseteq Files
        /\ \A x \in db.entities : x.file \in DOMAIN db.files
        /\ \A f \in DOMAIN db.files : Good(db.files[f], DictionaryOf[f], Of(db.entities, f))
    BY DEF RowsInv, CommittedInv
  <2>5. /\ \A x \in entities : x.file = h
        /\ Good(source, DictionaryOf[h], entities)
    BY <2>1, <2>3 DEF RowsInv, EntitiesInv, AccountInv, Dictionary
  <2>6. \A f \in DOMAIN db.files : Of(db'.entities, f) = Of(db.entities, f)
    BY <2>2, <2>3, <2>5
  <2>7. Of(db'.entities, h) = entities
    BY <2>2, <2>3, <2>4, <2>5
  <2> HIDE DEF Good, Of, h
  <2>8. \A f \in DOMAIN db'.files : Good(db'.files[f], DictionaryOf[f], Of(db'.entities, f))
    BY <2>2, <2>3, <2>4, <2>5, <2>6, <2>7
  <2>9. CommittedInv'
    <3>1. DOMAIN db'.files \subseteq Files
      BY <2>2, <2>3, <2>4
    <3>2. \A x \in db'.entities : x.file \in DOMAIN db'.files
      BY <2>2, <2>4, <2>5
    <3>. QED BY <2>8, <3>1, <3>2 DEF CommittedInv, Good, Of
  <2>10. IdleInv'
    BY <2>1 DEF IdleInv
  <2>. QED BY <2>1, <2>9, <2>10, IdleNext
<1>. QED BY <1>1, <1>2

LEMMA RowsInvInit == Init => RowsInv
<1> SUFFICES ASSUME Init PROVE RowsInv
  OBVIOUS
<1>1. IdleInv /\ file = <<>>
  BY DEF Init, IdleInv
<1>2. CommittedInv
  <2>1. db.files = <<>> /\ db.entities = {}
    BY DEF Init
  <2>2. \A f \in DOMAIN db.files : FALSE
    BY <2>1
  <2>. QED BY <2>1, <2>2 DEF CommittedInv
<1>. QED BY <1>1, <1>2, IdleFacts

\* An open entry keeps its place through them.
LEMMA OpenSame ==
  ASSUME RowsInv, entry # <<>>, EmptyElement \/ ElementText \/ TailText,
         Dictionary \in {"krdict", "stdict", "opendict"}
  PROVE  /\ entry' # <<>>
         /\ entry'[1].start = entry[1].start /\ entry'[1].ordinal = entry[1].ordinal
<1>1. OpenInv /\ FileInv /\ RecordsInv
  BY DEF RowsInv
<1>2. CASE EmptyElement
  <2>1. Count \in Nat /\ source[Count + 1].kind = "empty" /\ Current = source[Count + 1]
    BY <1>1, <1>2, CurrentRecord DEF EmptyElement
  <2>2. entry' = <<AfterEmpty(entry[1], source[Count + 1], Count)>>
    BY <1>2, <2>1 DEF EmptyElement
  <2>3. SamePlace(entry[1], AfterEmpty(entry[1], source[Count + 1], Count))
    BY <1>1, <2>1, EmptyHeads
  <2>. QED BY <2>2, <2>3 DEF SamePlace
<1>3. CASE ElementText
  <2>1. Count \in Nat /\ source[Count + 1].kind = "text" /\ Current = source[Count + 1]
    BY <1>1, <1>3, CurrentRecord DEF ElementText
  <2>2. entry' = <<AfterText(entry[1], source[Count + 1], Count)>>
    BY <1>3, <2>1 DEF ElementText
  <2>3. SamePlace(entry[1], AfterText(entry[1], source[Count + 1], Count))
    BY <1>1, <2>1, TextHeads
  <2>. QED BY <2>2, <2>3 DEF SamePlace
<1>4. CASE TailText
  BY <1>4 DEF TailText
<1>. QED BY <1>2, <1>3, <1>4

\* The records that are only inserted.
LEMMA InsertedInv ==
  ASSUME RowsInv, StartElement \/ EmptyElement \/ ElementText \/ TailText
  PROVE  RowsInv'
<1>1. PICK kind \in {"start", "empty", "text", "tail"} : Reading(kind)
  BY DEF StartElement, EmptyElement, ElementText, TailText
<1>2. Insert /\ Kept
  BY DEF StartElement, EmptyElement, ElementText, TailText
<1>3. /\ FileInv' /\ RecordsInv' /\ AttributesInv' /\ EntitiesInv' /\ OwnerInv'
      /\ CommittedInv' /\ IdleInv' /\ Count' = Count + 1 /\ file # <<>>
  BY <1>1, <1>2, LoopStep
<1>4. ~(source[Count + 1].kind = "start" /\ IsEntry(source[Count + 1]))
  BY DEF StartElement, EmptyElement, ElementText, TailText, Reading, Current
<1>5. Dictionary \in {"krdict", "stdict", "opendict"}
  BY <1>3, DictionariesAssumption DEF RowsInv, FileInv, Dictionary
<1>6. CASE entry = <<>>
  <2>1. entry' = <<>>
    BY <1>6 DEF StartElement, EmptyElement, ElementText, TailText
  <2>2. OpenInv' /\ HeadInv'
    BY <2>1 DEF OpenInv, HeadInv
  <2>3. AccountInv'
    BY <1>2, <1>3, <1>4, <1>6, <2>1, AccountKept
  <2>. QED BY <1>3, <2>2, <2>3 DEF RowsInv
<1>7. CASE entry # <<>>
  <2>1. /\ OpenInv' /\ HeadInv' /\ entry' # <<>>
        /\ entry'[1].start = entry[1].start /\ entry'[1].ordinal = entry[1].ordinal
    BY <1>5, <1>7, OpenStart, OpenEmpty, OpenText, OpenTail, OpenSame DEF RowsInv
  <2>2. AccountInv'
    BY <1>2, <1>3, <1>4, <1>7, <2>1, AccountKept
  <2>. QED BY <1>3, <2>1, <2>2 DEF RowsInv
<1>. QED BY <1>6, <1>7

LEMMA RowsInvStep == RowsInv /\ [Next]_vars => RowsInv'
<1> SUFFICES ASSUME RowsInv, [Next]_vars PROVE RowsInv'
  OBVIOUS
<1>1. ASSUME NEW f \in Files, NEW s \in Sources[DictionaryOf[f]], BeginFile(f, s)
      PROVE  RowsInv'
  BY <1>1, Begins
<1>2. CASE StartEntry
  <2>1. Reading("start") /\ Insert /\ Kept
    BY <1>2 DEF StartEntry
  <2>2. /\ FileInv' /\ RecordsInv' /\ AttributesInv' /\ EntitiesInv' /\ OwnerInv'
        /\ CommittedInv' /\ IdleInv' /\ Count' = Count + 1
    BY <2>1, LoopStep
  <2>3. /\ OpenInv' /\ HeadInv' /\ entry' # <<>>
        /\ First(entry[1])' = Count + 1 /\ entry'[1].ordinal = Cardinality(entities) + 1
    BY <1>2, OpenEntry DEF RowsInv
  <2>4. AccountInv'
    BY <1>2, <2>2, <2>3, AccountEntry
  <2>. QED BY <2>2, <2>3, <2>4 DEF RowsInv
<1>3. CASE StartElement \/ EmptyElement \/ ElementText \/ TailText
  BY <1>3, InsertedInv
<1>4. CASE NestedEntry \/ EmptyEntry \/ ReadFails
  BY <1>4, RolledBack DEF NestedEntry, EmptyEntry, ReadFails
<1>5. CASE EndElement
  <2>1. CASE entry # <<>> /\ Current.name # entry[1].path[Len(entry[1].path)]
    BY <1>5, <2>1, RolledBack DEF EndElement
  <2>2. CASE ~(entry # <<>> /\ Current.name # entry[1].path[Len(entry[1].path)])
    <3>1. Reading("end") /\ ~FinishesEntry /\ Insert /\ Kept
          /\ entry' = IF entry = <<>> THEN entry
                      ELSE [entry EXCEPT ![1].path = SubSeq(@, 1, Len(@) - 1)]
      BY <1>5, <2>2 DEF EndElement
    <3>2. /\ FileInv' /\ RecordsInv' /\ AttributesInv' /\ EntitiesInv' /\ OwnerInv'
          /\ CommittedInv' /\ IdleInv' /\ Count' = Count + 1 /\ file # <<>>
      BY <3>1, LoopStep
    <3>3. ~(source[Count + 1].kind = "start" /\ IsEntry(source[Count + 1]))
      BY <3>1 DEF Reading, Current
    <3>4. CASE entry = <<>>
      <4>1. entry' = <<>>
        BY <3>1, <3>4
      <4>2. OpenInv' /\ HeadInv'
        BY <4>1 DEF OpenInv, HeadInv
      <4>3. AccountInv'
        BY <3>1, <3>2, <3>3, <3>4, <4>1, AccountKept
      <4>. QED BY <3>2, <4>2, <4>3 DEF RowsInv
    <3>5. CASE entry # <<>>
      <4>1. entry' = [entry EXCEPT ![1].path = SubSeq(@, 1, Len(@) - 1)]
        BY <3>1, <3>5
      <4>2. /\ OpenInv' /\ HeadInv' /\ entry' # <<>>
            /\ entry'[1].start = entry[1].start /\ entry'[1].ordinal = entry[1].ordinal
        BY <2>2, <3>1, <3>5, <4>1, OpenEnd DEF RowsInv
      <4>3. AccountInv'
        BY <3>1, <3>2, <3>3, <3>5, <4>2, AccountKept
      <4>. QED BY <3>2, <4>2, <4>3 DEF RowsInv
    <3>. QED BY <3>4, <3>5
  <2>. QED BY <2>1, <2>2
<1>6. CASE FinishEntry
  <2>1. CASE Sound(entry[1])
    BY <1>6, <2>1, FinishInv
  <2>2. CASE ~Sound(entry[1])
    <3>1. RollBack(Fault(entry[1]))
      BY <1>6, <2>2, Zenon DEF FinishEntry, Sound
    <3>. QED BY <3>1, RolledBack
  <2>. QED BY <2>1, <2>2
<1>7. CASE EndOfSource
  BY <1>7, Commits
<1>8. CASE UNCHANGED vars
  <2>1. /\ Count' = Count /\ Dictionary' = Dictionary
        /\ UNCHANGED <<db, file, source, records, attributes, entities, entry>>
    BY <1>8 DEF vars, Count, Dictionary
  <2>2. FileInv' /\ RecordsInv' /\ AttributesInv'
    BY <2>1 DEF RowsInv, FileInv, RecordsInv, AttributesInv
  <2>3. OpenInv' /\ HeadInv'
    BY <2>1 DEF RowsInv, OpenInv, HeadInv, IsEntry
  <2>4. EntitiesInv' /\ AccountInv'
    BY <2>1 DEF RowsInv, EntitiesInv, AccountInv
  <2>5. OwnerInv' /\ CommittedInv' /\ IdleInv'
    BY <2>1 DEF RowsInv, OwnerInv, CommittedInv, IdleInv
  <2>. QED BY <2>2, <2>3, <2>4, <2>5 DEF RowsInv
<1>. QED BY <1>1, <1>2, <1>3, <1>4, <1>5, <1>6, <1>7, <1>8 DEF Next

\* The entries complete after Count records are the entities.
LEMMA CompleteEntries ==
  ASSUME RowsInv, file # <<>>, NEW i \in DOMAIN source, source[i].kind = "start",
         source[i].name = EntryElement(Dictionary), Closing(source, i) - 1 < Count
  PROVE  \E x \in entities : x.start = i - 1 /\ x.end = Closing(source, i) - 1
<1>1. source \in Documents /\ Count \in Nat /\ i \in Nat
      /\ Closing(source, i) \in (i + 1)..Len(source) /\ Len(source) \in Nat
  BY ClosingOf, DocumentRecords DEF RowsInv, FileInv, RecordsInv
<1> DEFINE c == Closing(source, i)
           n == Count
<1>2. i \in 1..n /\ c <= n
  <2>1. i \in 1..Len(source) /\ c \in Int /\ i < c /\ c - 1 < n /\ n \in Nat
    BY <1>1, DocumentRecords
  <2> HIDE DEF c, n
  <2>. QED BY <1>1, <2>1
<1>3. i \in EntryStarts(source, Dictionary, Count)
  BY <1>2 DEF EntryStarts
<1>4. PICK x \in entities : First(x) = i
  <2>1. entry # <<>> => First(entry[1]) # i
    <3>1. entry # <<>> => Closing(source, First(entry[1])) > n
      BY DEF RowsInv, OpenInv, OpenElement, OpenAt
    <3>. QED BY <1>1, <1>2, <3>1
  <2>. QED BY <1>3, <2>1 DEF RowsInv, AccountInv
<1>5. x.start \in Nat /\ x.end = Closing(source, First(x)) - 1
  BY DEF RowsInv, EntitiesInv, EntitiesOf, EntityOf
<1>. QED BY <1>1, <1>4, <1>5 DEF First

LEMMA OwnsItsRecords ==
  ASSUME RowsInv
  PROVE  EntryOwnsItsRecords
<1> SUFFICES ASSUME NEW r \in records
             PROVE  LET enclosing == {e \in EntriesIn(source, Dictionary) :
                                        r.ordinal \in e[1]..e[2] /\ e[2] < Count}
                    IN r.entry = IF enclosing = {} THEN <<>>
                                 ELSE (CHOOSE e \in entities :
                                         <<e.start, e.end>> = CHOOSE s \in enclosing : TRUE).id
  BY DEF EntryOwnsItsRecords
<1> DEFINE enclosing == {e \in EntriesIn(source, Dictionary) :
                           r.ordinal \in e[1]..e[2] /\ e[2] < Count}
           Span(x) == <<x.start, x.end>>
<1>1. file # <<>> /\ source \in Documents /\ Count \in Nat /\ r.ordinal \in 0..(Count - 1)
  BY DEF RowsInv, IdleInv, FileInv, RecordsInv, Numbered
<1>2. \A x \in entities : x.start \in Nat /\ x.end \in Nat /\ x.start <= x.end /\ x.end < Count
  <2> TAKE x \in entities
  <2>1. x.end \in x.start..(Count - 1) /\ x.start \in Nat
    BY <1>1 DEF RowsInv, EntitiesInv, EntitiesOf, EntityOf
  <2> DEFINE n == Count
  <2>2. n \in Nat /\ x.end \in x.start..(n - 1)
    BY <1>1, <2>1
  <2> HIDE DEF n
  <2>3. x.end \in Nat /\ x.start <= x.end /\ x.end < n
    BY <2>1, <2>2
  <2>. QED BY <2>1, <2>3 DEF n
<1>3. \A e \in enclosing : \E x \in entities : Span(x) = e
  <2> TAKE e \in enclosing
  <2>1. PICK i \in {n \in DOMAIN source : source[n].kind = "start"
                       /\ source[n].name = EntryElement(Dictionary)} :
          e = <<i - 1, Closing(source, i) - 1>>
    BY DEF EntriesIn
  <2>2. Closing(source, i) - 1 < Count
    BY <2>1
  <2>3. PICK x \in entities : x.start = i - 1 /\ x.end = Closing(source, i) - 1
    BY <1>1, <2>2, CompleteEntries
  <2>. QED BY <2>1, <2>3
<1>4. \A x \in entities : r.ordinal \in x.start..x.end => Span(x) \in enclosing
  <2> SUFFICES ASSUME NEW x \in entities, r.ordinal \in x.start..x.end
               PROVE  Span(x) \in enclosing
    OBVIOUS
  <2>1. /\ First(x) \in EntryStarts(source, Dictionary, Count)
        /\ x.end = Closing(source, First(x)) - 1 /\ x.start = First(x) - 1
    BY <1>1, <1>2 DEF RowsInv, EntitiesInv, EntitiesOf, EntityOf, First
  <2>2. First(x) \in DOMAIN source
    <3>1. Count <= Len(source) /\ Len(source) \in Nat /\ DOMAIN source = 1..Len(source)
      BY <1>1, DocumentRecords DEF RowsInv, RecordsInv
    <3>2. First(x) \in 1..Count
      BY <2>1 DEF EntryStarts
    <3>. QED BY <1>1, <3>1, <3>2
  <2>3. Span(x) \in EntriesIn(source, Dictionary)
    BY <2>1, <2>2 DEF EntriesIn, EntryStarts
  <2>4. Span(x)[1] = x.start /\ Span(x)[2] = x.end
    OBVIOUS
  <2>. QED BY <1>2, <2>3, <2>4
<1>5. \/ \E x \in entities : r.ordinal \in x.start..x.end /\ r.entry = x.id
      \/ /\ r.entry = <<>>
         /\ \A x \in entities : r.ordinal \notin x.start..x.end
  BY DEF RowsInv, OwnerInv
<1>6. \A x, y \in entities : x # y => x.end < y.start \/ y.end < x.start
  BY <1>1 DEF RowsInv, EntitiesInv
<1>7. \A e \in enclosing : r.ordinal \in e[1]..e[2]
  OBVIOUS
<1> HIDE DEF enclosing
<1>8. CASE enclosing = {}
  <2>1. r.entry = <<>>
    BY <1>4, <1>5, <1>8
  <2>. QED BY <1>8, <2>1 DEF enclosing
<1>9. CASE enclosing # {}
  <2> DEFINE e == CHOOSE s \in enclosing : TRUE
             z == CHOOSE x \in entities : Span(x) = e
  <2>1. e \in enclosing
    BY <1>9
  <2>2. z \in entities /\ Span(z) = e
    <3> HIDE DEF e
    <3>. QED BY <1>3, <2>1
  <2>3. r.ordinal \in z.start..z.end
    <3> HIDE DEF e, z
    <3>1. Span(z)[1] = z.start /\ Span(z)[2] = z.end
      OBVIOUS
    <3>. QED BY <1>7, <2>1, <2>2, <3>1
  <2>4. PICK y \in entities : r.ordinal \in y.start..y.end /\ r.entry = y.id
    <3> HIDE DEF z
    <3>. QED BY <1>5, <2>2, <2>3
  <2>5. y = z
    <3> HIDE DEF z
    <3>. QED BY <1>1, <1>2, <1>6, <2>2, <2>3, <2>4
  <2>. QED BY <1>9, <2>4, <2>5 DEF enclosing
<1>. QED BY <1>8, <1>9

\* The spans of the entries of a file, and what their entities say.
LEMMA SpansOf ==
  ASSUME NEW s \in Documents, NEW d, NEW X, EntitiesOf(X, s, d, Len(s)),
         \A i \in EntryStarts(s, d, Len(s)) : \E x \in X : First(x) = i
  PROVE  /\ {<<x.start, x.end>> : x \in X} = EntriesIn(s, d)
         /\ Cardinality(X) = Cardinality(EntriesIn(s, d))
         /\ \A x \in X : x.ordinal = Cardinality({e \in EntriesIn(s, d) : e[1] <= x.start})
<1> DEFINE E(i) == <<i - 1, Closing(s, i) - 1>>
           Span(x) == <<x.start, x.end>>
           I == EntryStarts(s, d, Len(s))
<1>1. Len(s) \in Nat /\ DOMAIN s = 1..Len(s)
  BY DocumentRecords
<1>2. EntriesIn(s, d) = {E(i) : i \in I}
  BY <1>1 DEF EntriesIn, EntryStarts
<1>3. \A i \in I : i \in 1..Len(s)
  BY DEF EntryStarts
<1>4. \A x \in X : First(x) \in I /\ Span(x) = E(First(x)) /\ x.start = First(x) - 1
                   /\ x.start \in Nat
  BY DEF EntitiesOf, EntityOf, First
<1>5. \A i, j \in Int : E(i) = E(j) => i = j
  <2> TAKE i, j \in Int
  <2>1. E(i)[1] = i - 1 /\ E(j)[1] = j - 1
    OBVIOUS
  <2>2. E(i) = E(j) => i - 1 = j - 1
    BY <2>1
  <2>. QED BY <2>2
<1>6. \A i \in Int : E(i)[1] = i - 1
  OBVIOUS
<1> HIDE DEF E, I
<1>7. {Span(x) : x \in X} = EntriesIn(s, d)
  BY <1>2, <1>4 DEF I
<1>8. Cardinality(X) = Cardinality(EntriesIn(s, d))
  <2> DEFINE f == [x \in X |-> Span(x)]
  <2>1. f \in [X -> EntriesIn(s, d)]
    BY <1>7
  <2>2. \A x, y \in X : f[x] = f[y] => x = y
    <3> SUFFICES ASSUME NEW x \in X, NEW y \in X, f[x] = f[y] PROVE x = y
      OBVIOUS
    <3>1. Span(x)[1] = x.start /\ Span(y)[1] = y.start
      OBVIOUS
    <3>2. x.start = y.start
      BY <3>1
    <3>. QED BY <3>2 DEF EntitiesOf
  <2>3. \A e \in EntriesIn(s, d) : \E x \in X : f[x] = e
    BY <1>7
  <2>4. f \in Bijection(X, EntriesIn(s, d))
    <3> HIDE DEF f
    <3>. QED BY <2>1, <2>2, <2>3, Fun_IsInj, Fun_IsSurj DEF Bijection
  <2>5. ExistsBijection(X, EntriesIn(s, d))
    BY <2>4 DEF ExistsBijection
  <2>. QED BY <2>5, FS_Bijection DEF EntitiesOf
<1>9. ASSUME NEW x \in X
      PROVE  x.ordinal = Cardinality({e \in EntriesIn(s, d) : e[1] <= x.start})
  <2> DEFINE J == EntryStarts(s, d, First(x))
             Before == {e \in EntriesIn(s, d) : e[1] <= x.start}
             f == [i \in J |-> E(i)]
  <2>1. First(x) \in Nat /\ First(x) \in 1..Len(s)
    BY <1>1, <1>3, <1>4
  <2>2. J = {i \in I : i <= First(x)}
    BY <1>1, <2>1 DEF EntryStarts, I
  <2>3. IsFiniteSet(J)
    BY <2>1, EntryStartsNext
  <2> HIDE DEF J
  <2>4. f \in [J -> Before]
    <3> SUFFICES ASSUME NEW i \in J PROVE E(i) \in Before
      OBVIOUS
    <3>1. i \in I /\ i <= First(x) /\ i \in Int
      BY <1>1, <1>3, <2>2
    <3>2. E(i)[1] = i - 1
      BY <1>6, <3>1
    <3>3. i - 1 <= x.start
      BY <1>4, <2>1, <3>1
    <3>. QED BY <1>2, <3>1, <3>2, <3>3
  <2>5. \A i, j \in J : f[i] = f[j] => i = j
    BY <1>1, <1>3, <1>5, <2>2
  <2>6. \A e \in Before : \E i \in J : f[i] = e
    <3> TAKE e \in Before
    <3>1. PICK i \in I : e = E(i)
      BY <1>2
    <3>4. i \in Int
      BY <1>1, <1>3
    <3>2. i \in Int /\ i - 1 <= x.start
      <4>1. e[1] <= x.start
        OBVIOUS
      <4>2. e[1] = i - 1
        BY <1>6, <3>1, <3>4
      <4>. QED BY <3>4, <4>1, <4>2
    <3>3. i \in J
      BY <1>4, <2>1, <2>2, <3>2
    <3>. QED BY <3>1, <3>3
  <2>7. f \in Bijection(J, Before)
    <3> HIDE DEF f, Before
    <3>. QED BY <2>4, <2>5, <2>6, Fun_IsInj, Fun_IsSurj DEF Bijection
  <2>8. Cardinality(J) = Cardinality(Before)
    <3>1. ExistsBijection(J, Before)
      BY <2>7 DEF ExistsBijection
    <3>. QED BY <2>3, <3>1, FS_Bijection
  <2>9. x.ordinal = Cardinality(J)
    BY DEF EntitiesOf, EntityOf, J
  <2>. QED BY <2>8, <2>9
<1>. QED BY <1>7, <1>8, <1>9

LEMMA CorpusAccounts ==
  ASSUME RowsInv, \A a, b \in db.entities : a.id = b.id => a = b
  PROVE  CorpusAccountsForEntries
<1>1. ASSUME NEW f \in DOMAIN db.files
      PROVE  LET rows == {e \in db.entities : e.file = f}
                 spans == EntriesIn(db.files[f], DictionaryOf[f])
             IN /\ {<<e.start, e.end>> : e \in rows} = spans
                /\ Cardinality(rows) = Cardinality(spans)
                /\ \A e \in rows : e.ordinal = Cardinality({s \in spans : s[1] <= e.start})
  <2> DEFINE s == db.files[f]
             d == DictionaryOf[f]
             X == {x \in db.entities : x.file = f}
  <2>1. /\ s \in Documents
        /\ EntitiesOf(X, s, d, Len(s))
        /\ \A i \in EntryStarts(s, d, Len(s)) : \E x \in X : First(x) = i
    BY DEF RowsInv, CommittedInv
  <2> HIDE DEF s, d, X
  <2>2. /\ {<<x.start, x.end>> : x \in X} = EntriesIn(s, d)
        /\ Cardinality(X) = Cardinality(EntriesIn(s, d))
        /\ \A x \in X : x.ordinal = Cardinality({e \in EntriesIn(s, d) : e[1] <= x.start})
    BY <2>1, SpansOf
  <2>. QED BY <2>2 DEF s, d, X
<1>2. \A e \in db.entities : e.file \in DOMAIN db.files
  BY DEF RowsInv, CommittedInv
<1>. QED BY <1>1, <1>2 DEF CorpusAccountsForEntries

\* A value that is absent reads as the empty text.
LEMMA NormalizedGiven ==
  ASSUME NEW v PROVE Normalized(IF v = Absent THEN Plain("") ELSE v) = Normalized(v)
<1>1. CASE v = Absent
  <2>1. Plain("").text = ""
    BY Zenon DEF Plain
  <2>2. Normalized(Plain("")) = ""
    BY <2>1, Zenon DEF Normalized
  <2>3. Normalized(v) = ""
    BY <1>1, Zenon DEF Normalized
  <2>. QED BY <1>1, <2>2, <2>3, Zenon
<1>2. CASE v # Absent
  BY <1>2, Zenon
<1>. QED BY <1>1, <1>2

LEMMA HeadwordFirst ==
  ASSUME RowsInv
  PROVE  HeadwordFromFirst
<1> SUFFICES ASSUME NEW e \in db.entities
             PROVE  LET s == db.files[e.file]
                        d == DictionaryOf[e.file]
                        giving == {n \in (e.start + 1)..(e.end + 1) :
                                     GivesHeadword(s, d, e.start + 1, n)}
                    IN /\ e.at + 1 \in giving
                       /\ \A n \in giving : e.at + 1 <= n
                       /\ e.headword = Normalized(IF d = "krdict"
                                                  THEN Attribute(s[e.at + 1].attributes, "val")
                                                  ELSE s[e.at + 1].value)
  BY DEF HeadwordFromFirst
<1> DEFINE s == db.files[e.file]
           d == DictionaryOf[e.file]
           i == e.start + 1
           giving == {n \in i..(e.end + 1) : GivesHeadword(s, d, i, n)}
<1>1. s \in Documents /\ EntityOf(e, s, d, Len(s))
  BY DEF RowsInv, CommittedInv, EntitiesOf
<1>2. /\ e.start \in Nat /\ i \in 1..Len(s) /\ s[i].kind = "start" /\ First(e) = i
      /\ e.end = Closing(s, i) - 1 /\ Len(s) \in Nat
      /\ HeadAt(s, d, i, e.end, e.at) /\ e.headword = Normalized(Given(s, d, e.at + 1))
  BY <1>1, DocumentRecords DEF EntityOf, EntryStarts, First
<1>3. /\ Closing(s, i) \in (i + 1)..Len(s) /\ s[Closing(s, i)].kind = "end"
      /\ e.end + 1 = Closing(s, i) /\ e.end \in Nat /\ i \in Nat
  <2>1. i \in DOMAIN s
    BY <1>1, <1>2, DocumentRecords
  <2>2. Closing(s, i) \in (i + 1)..Len(s) /\ s[Closing(s, i)].kind = "end"
    BY <1>1, <1>2, <2>1, ClosingOf
  <2> HIDE DEF s, i
  <2>3. i \in Nat
    BY <1>2
  <2>4. e.end + 1 = Closing(s, i) /\ e.end \in Nat
    BY <1>2, <2>2, <2>3
  <2>. QED BY <2>2, <2>3, <2>4
<1> HIDE DEF s, d, i
<1>4. \A n \in i..(e.end + 1) : GivesHeadword(s, d, i, n) => n \in (i + 1)..e.end
  <2> SUFFICES ASSUME NEW n \in i..(e.end + 1), GivesHeadword(s, d, i, n), n \notin (i + 1)..e.end
               PROVE  FALSE
    OBVIOUS
  <2>1. n = i \/ n = e.end + 1
    BY <1>3
  <2>2. s[n].kind \in {"start", "end"}
    BY <1>2, <1>3, <2>1
  <2>. QED BY <2>2 DEF GivesHeadword
<1>5. e.at + 1 \in (i + 1)..e.end /\ GivesHeadword(s, d, i, e.at + 1)
      /\ \A k \in (i + 1)..e.end : GivesHeadword(s, d, i, k) => e.at + 1 <= k
  BY <1>2 DEF HeadAt
<1>6. e.at + 1 \in giving
  <2>1. e.at + 1 \in i..(e.end + 1)
    BY <1>3, <1>5
  <2>. QED BY <1>5, <2>1
<1>7. \A n \in giving : e.at + 1 <= n
  BY <1>4, <1>5
<1>8. e.headword = Normalized(IF d = "krdict" THEN Attribute(s[e.at + 1].attributes, "val")
                              ELSE s[e.at + 1].value)
  <2>1. CASE d = "krdict"
    <3> DEFINE v == Attribute(s[e.at + 1].attributes, "val")
    <3>1. Given(s, d, e.at + 1) = IF v = Absent THEN Plain("") ELSE v
      BY <2>1, Zenon DEF Given
    <3>2. Normalized(Given(s, d, e.at + 1)) = Normalized(v)
      BY <3>1, NormalizedGiven, Zenon
    <3> HIDE DEF v
    <3>3. e.headword = Normalized(v)
      BY <1>2, <3>2
    <3>. QED BY <2>1, <3>3 DEF v
  <2>2. CASE d # "krdict"
    <3>1. Given(s, d, e.at + 1) = s[e.at + 1].value
      BY <2>2, Zenon DEF Given
    <3>. QED BY <1>2, <2>2, <3>1
  <2>. QED BY <2>1, <2>2
<1>. QED BY <1>6, <1>7, <1>8 DEF s, d, i

\* The attributes of record k as they are read back.
Listed(list, k) ==
  LET L == Ordered(AttributesOf(list, k))
  IN [j \in DOMAIN L |-> [name |-> L[j].name, value |-> L[j].value]]

\* The rows of a table are read back one by one.
LEMMA ReadBackAt ==
  ASSUME NEW rows, NEW n \in Nat, Numbered(rows, n), NEW list
  PROVE  /\ DOMAIN ReadBack(rows, list) = 1..n
         /\ \A r \in rows :
              /\ r.ordinal + 1 \in 1..n
              /\ ReadBack(rows, list)[r.ordinal + 1] =
                   [kind |-> r.kind, depth |-> r.depth, name |-> r.name, value |-> r.value,
                    attributes |-> Listed(list, r.ordinal)]
<1> DEFINE ordered == Ordered(rows)
           Back(r) == [kind |-> r.kind, depth |-> r.depth, name |-> r.name,
                       value |-> r.value, attributes |-> Listed(list, r.ordinal)]
<1>1. DOMAIN ordered = 1..n /\ \A i \in 1..n : ordered[i] \in rows /\ ordered[i].ordinal = i - 1
  BY NumberedOrdered
<1>2. ReadBack(rows, list) = [i \in DOMAIN ordered |-> Back(ordered[i])]
  BY DEF ReadBack, Listed
<1> HIDE DEF ordered, Back
<1>3. ASSUME NEW r \in rows
      PROVE  r.ordinal + 1 \in 1..n /\ ReadBack(rows, list)[r.ordinal + 1] = Back(r)
  <2>1. r.ordinal \in 0..(n - 1) /\ r.ordinal + 1 \in 1..n /\ (r.ordinal + 1) - 1 = r.ordinal
    BY DEF Numbered
  <2>2. ordered[r.ordinal + 1] = r
    <3> DEFINE q == ordered[r.ordinal + 1]
    <3>1. q \in rows /\ q.ordinal = r.ordinal
      BY <1>1, <2>1
    <3> HIDE DEF q
    <3>2. q = r
      BY <3>1 DEF Numbered
    <3>. QED BY <3>2 DEF q
  <2>. QED BY <1>1, <1>2, <2>1, <2>2
<1>. QED BY <1>1, <1>2, <1>3 DEF Back

\* Record k is read back with the attributes it had.
LEMMA ListedTrue ==
  ASSUME AttributesInv, source \in Documents, Count \in 0..Len(source),
         NEW k \in 0..(Count - 1)
  PROVE  Listed(attributes, k) = source[k + 1].attributes
<1> DEFINE a == source[k + 1].attributes
           A == AttributesOf(attributes, k)
           L == Ordered(A)
<1>1. k + 1 \in 1..Len(source) /\ source \in Seq(SourceRecords)
  BY DocumentRecords
<1>2. a \in Seq(Attributes) /\ Len(a) \in Nat
  <2>1. source[k + 1] \in SourceRecords
    BY <1>1
  <2>. QED BY <2>1 DEF SourceRecords
<1>3. Numbered(A, Len(a))
      /\ \A b \in A : b = [record |-> k, ordinal |-> b.ordinal,
                           name |-> a[b.ordinal + 1].name, value |-> a[b.ordinal + 1].value]
  BY DEF AttributesInv
<1> HIDE DEF A, a
<1>4. DOMAIN L = 1..Len(a) /\ \A j \in 1..Len(a) : L[j] \in A /\ L[j].ordinal = j - 1
  BY <1>2, <1>3, NumberedOrdered
<1>5. \A j \in 1..Len(a) : L[j].name = a[j].name /\ L[j].value = a[j].value
  <2> TAKE j \in 1..Len(a)
  <2>1. L[j] \in A /\ L[j].ordinal = j - 1 /\ (j - 1) + 1 = j
    BY <1>2, <1>4
  <2> DEFINE b == L[j]
  <2> HIDE DEF b
  <2>2. b = [record |-> k, ordinal |-> b.ordinal,
             name |-> a[b.ordinal + 1].name, value |-> a[b.ordinal + 1].value]
    BY <1>3, <2>1 DEF b
  <2>3. b.ordinal + 1 = j
    BY <2>1 DEF b
  <2>4. b.name = a[j].name /\ b.value = a[j].value
    BY <2>2, <2>3
  <2>. QED BY <2>4 DEF b
<1>6. \A j \in 1..Len(a) : a[j] = [name |-> a[j].name, value |-> a[j].value]
  <2> TAKE j \in 1..Len(a)
  <2>1. a[j] \in Attributes
    BY <1>2
  <2>. QED BY <2>1 DEF Attributes
<1>7. Listed(attributes, k) = [j \in DOMAIN L |-> [name |-> L[j].name, value |-> L[j].value]]
  BY DEF Listed, A
<1> HIDE DEF L
<1>8. Listed(attributes, k) = [j \in 1..Len(a) |-> a[j]]
  BY <1>4, <1>5, <1>6, <1>7
<1>9. a = [j \in 1..Len(a) |-> a[j]]
  BY <1>2
<1>. QED BY <1>8, <1>9 DEF a

\* What an exhausted file has in its tables is what it read.
LEMMA TablesTrue ==
  ASSUME RowsInv, Exhausted
  PROVE  /\ source \in Documents /\ Count = Len(source) /\ Count \in Nat
         /\ Numbered(records, Count) /\ IsFiniteSet(records)
         /\ \A r \in records :
              /\ r.ordinal \in 0..(Count - 1)
              /\ source[r.ordinal + 1] =
                   [kind |-> r.kind, depth |-> r.depth, name |-> r.name, value |-> r.value,
                    attributes |-> source[r.ordinal + 1].attributes]
              /\ r = [ordinal |-> r.ordinal, entry |-> r.entry, kind |-> r.kind,
                      depth |-> r.depth, name |-> r.name, value |-> r.value]
<1>1. /\ source \in Documents /\ Count = Len(source) /\ Count \in Nat
      /\ Numbered(records, Count)
  BY DEF RowsInv, Exhausted, FileInv, RecordsInv
<1>2. IsFiniteSet(records)
  BY <1>1, NumberedCount
<1>3. ASSUME NEW r \in records
      PROVE  /\ r.ordinal \in 0..(Count - 1)
             /\ source[r.ordinal + 1] =
                   [kind |-> r.kind, depth |-> r.depth, name |-> r.name, value |-> r.value,
                    attributes |-> source[r.ordinal + 1].attributes]
             /\ r = [ordinal |-> r.ordinal, entry |-> r.entry, kind |-> r.kind,
                     depth |-> r.depth, name |-> r.name, value |-> r.value]
  <2> DEFINE q == source[r.ordinal + 1]
  <2>1. r.ordinal \in 0..(Count - 1)
    BY <1>1 DEF Numbered
  <2>2. q \in SourceRecords
    <3>1. r.ordinal + 1 \in 1..Len(source) /\ source \in Seq(SourceRecords)
      BY <1>1, <2>1, DocumentRecords
    <3>. QED BY <3>1
  <2>3. r = [Row(q, r.ordinal) EXCEPT !.entry = r.entry]
    BY DEF RowsInv, RecordsInv
  <2> HIDE DEF q
  <2>4. r = [ordinal |-> r.ordinal, entry |-> r.entry, kind |-> q.kind, depth |-> q.depth,
             name |-> q.name, value |-> q.value]
    BY <2>3 DEF Row
  <2>5. r.kind = q.kind /\ r.depth = q.depth /\ r.name = q.name /\ r.value = q.value
    BY <2>4
  <2>6. q = [kind |-> q.kind, depth |-> q.depth, name |-> q.name, value |-> q.value,
             attributes |-> q.attributes]
    BY <2>2 DEF SourceRecords
  <2>. QED BY <2>1, <2>4, <2>5, <2>6 DEF q
<1>. QED BY <1>1, <1>2, <1>3

\* The tables of an exhausted file validate.
LEMMA TrueRowsValidate ==
  ASSUME RowsInv, Exhausted, entry = <<>>
  PROVE  Validates(records, attributes)
<1>1. /\ source \in Documents /\ Count = Len(source) /\ Count \in Nat
      /\ Numbered(records, Count)
  BY TablesTrue
<1>2. Cardinality(records) = Len(source)
  BY <1>1 DEF Count
<1>3. Cardinality(entities) = EntriesStarted
  <2>1. Cardinality(entities) = Cardinality(EntryStarts(source, Dictionary, Count))
    BY DEF RowsInv, AccountInv, Exhausted
  <2>2. EntryStarts(source, Dictionary, Count)
          = {n \in DOMAIN source : source[n].kind = "start" /\ IsEntry(source[n])}
    <3>1. DOMAIN source = 1..Len(source)
      BY <1>1, DocumentRecords
    <3>2. EntryStarts(source, Dictionary, Len(source))
            = {n \in 1..Len(source) : source[n].kind = "start" /\ IsEntry(source[n])}
      BY DEF EntryStarts, IsEntry
    <3>. QED BY <1>1, <3>1, <3>2
  <2>. QED BY <2>1, <2>2 DEF EntriesStarted
<1>4. \A r \in records : r.ordinal \in 0..(Count - 1)
  BY <1>1 DEF Numbered
<1>5. \A k \in 0..(Count - 1) :
        /\ Numbered(AttributesOf(attributes, k), Len(source[k + 1].attributes))
        /\ Len(source[k + 1].attributes) \in Nat
        /\ source[k + 1].kind \in {"text", "tail", "end"} => AttributesOf(attributes, k) = {}
  <2> TAKE k \in 0..(Count - 1)
  <2>1. k + 1 \in 1..Len(source) /\ source \in Seq(SourceRecords)
    BY <1>1, DocumentRecords
  <2>2. source[k + 1].attributes \in Seq(Attributes)
    <3>1. source[k + 1] \in SourceRecords
      BY <2>1
    <3>. QED BY <3>1 DEF SourceRecords
  <2>3. Numbered(AttributesOf(attributes, k), Len(source[k + 1].attributes))
    BY DEF RowsInv, AttributesInv
  <2>4. source[k + 1].kind \in {"text", "tail", "end"} => source[k + 1].attributes = <<>>
    BY <1>1, <2>1, RecordFields
  <2>5. Numbered(AttributesOf(attributes, k), 0) => AttributesOf(attributes, k) = {}
    BY DEF Numbered
  <2>. QED BY <2>2, <2>3, <2>4, <2>5
<1>6. Readable(records, attributes)
  <2>1. Contiguous(Ordinals(records))
    BY <1>1, NumberedContiguous
  <2>2. ASSUME NEW r \in records
        PROVE  /\ Contiguous(Ordinals(AttributesOf(attributes, r.ordinal)))
               /\ r.kind \in {"text", "tail", "end"} => AttributesOf(attributes, r.ordinal) = {}
    <3>1. r.kind = source[r.ordinal + 1].kind
      <4>1. source[r.ordinal + 1] =
              [kind |-> r.kind, depth |-> r.depth, name |-> r.name, value |-> r.value,
               attributes |-> source[r.ordinal + 1].attributes]
        BY TablesTrue
      <4>. QED BY <4>1
    <3>2. r.ordinal \in 0..(Count - 1)
      BY <1>4
    <3>. QED BY <1>5, <3>1, <3>2, NumberedContiguous
  <2>. QED BY <2>1, <2>2 DEF Readable
<1>7. ReadBack(records, attributes) = source
  <2> DEFINE back == ReadBack(records, attributes)
  <2>1. DOMAIN back = 1..Count
    BY <1>1, ReadBackAt
  <2>2. DOMAIN source = 1..Count /\ source = [i \in DOMAIN source |-> source[i]]
    BY <1>1, DocumentRecords
  <2>3. back = [i \in DOMAIN back |-> back[i]]
    BY DEF ReadBack
  <2>4. ASSUME NEW i \in 1..Count PROVE back[i] = source[i]
    <3>1. PICK r \in records : r.ordinal = i - 1
      <4>1. i - 1 \in 0..(Count - 1)
        BY <1>1
      <4>. QED BY <1>1, <4>1 DEF Numbered
    <3>2. r.ordinal + 1 = i /\ r.ordinal \in 0..(Count - 1)
      BY <1>1, <1>4, <3>1
    <3>3. back[i] = [kind |-> r.kind, depth |-> r.depth, name |-> r.name, value |-> r.value,
                     attributes |-> Listed(attributes, r.ordinal)]
      BY <1>1, <3>2, ReadBackAt
    <3>4. Listed(attributes, r.ordinal) = source[i].attributes
      <4>1. Listed(attributes, r.ordinal) = source[r.ordinal + 1].attributes
        BY <1>1, <3>2, ListedTrue DEF RowsInv, RecordsInv
      <4>. QED BY <3>2, <4>1
    <3>5. source[i] = [kind |-> r.kind, depth |-> r.depth, name |-> r.name, value |-> r.value,
                       attributes |-> source[i].attributes]
      <4>1. source[r.ordinal + 1] =
              [kind |-> r.kind, depth |-> r.depth, name |-> r.name, value |-> r.value,
               attributes |-> source[r.ordinal + 1].attributes]
        BY TablesTrue
      <4>. QED BY <3>2, <4>1
    <3>. QED BY <3>3, <3>4, <3>5
  <2> HIDE DEF back
  <2>. QED BY <2>1, <2>2, <2>3, <2>4 DEF back
<1>. QED BY <1>2, <1>3, <1>6, <1>7 DEF Validates

\* A row moved past the end of its table leaves a gap.
LEMMA MovedRow ==
  ASSUME NEW R, NEW n \in Nat, Numbered(R, n), NEW a \in R, NEW b, NEW m \in Nat, n <= m,
         b.ordinal = m
  PROVE  ~Contiguous(Ordinals((R \ {a}) \cup {b}))
<1> DEFINE T == (R \ {a}) \cup {b}
           O == Ordinals(T)
<1>1. a.ordinal \in 0..(n - 1) /\ \A r \in R : r.ordinal \in 0..(n - 1)
  BY DEF Numbered
<1>2. m \in O
  BY DEF Ordinals
<1>3. a.ordinal \notin O
  <2> SUFFICES ASSUME NEW r \in T, r.ordinal = a.ordinal PROVE FALSE
    BY DEF Ordinals
  <2>1. r # b
    BY <1>1
  <2>2. r \in R /\ r # a
    BY <2>1
  <2>. QED BY <2>2 DEF Numbered
<1>4. Cardinality(O) \in Nat
  <2>1. IsFiniteSet(0..m)
    BY FS_Interval
  <2>2. O \in SUBSET (0..m)
    BY <1>1 DEF Ordinals
  <2>. QED BY <2>1, <2>2, FS_Subset, FS_CardinalityType
<1> HIDE DEF O
<1>5. SUFFICES ASSUME O = 0..(Cardinality(O) - 1) PROVE FALSE
  BY DEF Contiguous, O
<1>6. m <= Cardinality(O) - 1
  BY <1>2, <1>4, <1>5
<1>7. a.ordinal \in 0..(Cardinality(O) - 1)
  BY <1>1, <1>4, <1>6
<1>. QED BY <1>3, <1>5, <1>7

\* A row whose value alone is changed stays at its place.
LEMMA ChangedRow ==
  ASSUME NEW R, NEW n \in Nat, Numbered(R, n), NEW a \in R, NEW b, b.ordinal = a.ordinal
  PROVE  Numbered((R \ {a}) \cup {b}, n)
<1> DEFINE T == (R \ {a}) \cup {b}
<1>1. \A t \in T : \E r \in R : t.ordinal = r.ordinal
  OBVIOUS
<1>2. \A r \in R : \E t \in T : t.ordinal = r.ordinal
  OBVIOUS
<1>3. \A t, u \in T : t.ordinal = u.ordinal => t = u
  BY DEF Numbered
<1> HIDE DEF T
<1>4. Numbered(T, n)
  BY <1>1, <1>2, <1>3, NumberedRewritten
<1>. QED BY <1>4 DEF T

LEMMA OnlyTrueRecords ==
  ASSUME RowsInv, Exhausted, NEW rows \in Disturbed(records), Validates(rows, attributes)
  PROVE  rows = records
<1>1. /\ Count = Len(source) /\ Count \in Nat
      /\ Numbered(records, Count) /\ IsFiniteSet(records)
  BY TablesTrue
<1>2. /\ Cardinality(rows) = Len(source) /\ Contiguous(Ordinals(rows))
      /\ ReadBack(rows, attributes) = source
  BY DEF Validates, Readable
<1>3. PICK r \in records :
        \/ rows = records \ {r}
        \/ rows = (records \ {r}) \cup {[r EXCEPT !.ordinal = Cardinality(records)]}
        \/ rows = (records \ {r}) \cup {[r EXCEPT !.value = Plain("changed")]}
  BY DEF Disturbed
<1>4. /\ source[r.ordinal + 1] =
           [kind |-> r.kind, depth |-> r.depth, name |-> r.name, value |-> r.value,
            attributes |-> source[r.ordinal + 1].attributes]
      /\ r = [ordinal |-> r.ordinal, entry |-> r.entry, kind |-> r.kind,
              depth |-> r.depth, name |-> r.name, value |-> r.value]
  BY TablesTrue
<1>5. CASE rows = records \ {r}
  <2>1. Cardinality(records \ {r}) = Count - 1
    <3>1. Cardinality(records) = Count
      BY DEF Count
    <3>. QED BY <1>1, <3>1, FS_RemoveElement
  <2>. QED BY <1>1, <1>2, <1>5, <2>1
<1>6. CASE rows = (records \ {r}) \cup {[r EXCEPT !.ordinal = Cardinality(records)]}
  <2> DEFINE b == [r EXCEPT !.ordinal = Cardinality(records)]
  <2>1. b.ordinal = Count
    BY <1>4 DEF Count
  <2> HIDE DEF b
  <2>2. ~Contiguous(Ordinals((records \ {r}) \cup {b}))
    BY <1>1, <2>1, MovedRow
  <2>. QED BY <1>2, <1>6, <2>2 DEF b
<1>7. CASE rows = (records \ {r}) \cup {[r EXCEPT !.value = Plain("changed")]}
  <2> DEFINE b == [r EXCEPT !.value = Plain("changed")]
  <2>1. b = [ordinal |-> r.ordinal, entry |-> r.entry, kind |-> r.kind,
             depth |-> r.depth, name |-> r.name, value |-> Plain("changed")]
    BY <1>4
  <2> HIDE DEF b
  <2>2. Numbered(rows, Count)
    <3>1. b.ordinal = r.ordinal
      BY <2>1
    <3>2. Numbered((records \ {r}) \cup {b}, Count)
      BY <1>1, <3>1, ChangedRow
    <3>. QED BY <1>7, <3>2 DEF b
  <2>3. b \in rows
    BY <1>7 DEF b
  <2>4. ReadBack(rows, attributes)[b.ordinal + 1] =
          [kind |-> b.kind, depth |-> b.depth, name |-> b.name, value |-> b.value,
           attributes |-> Listed(attributes, b.ordinal)]
    BY <1>1, <2>2, <2>3, ReadBackAt
  <2>5. source[r.ordinal + 1].value = b.value
    <3>1. b.ordinal = r.ordinal
      BY <2>1
    <3>. QED BY <1>2, <2>4, <3>1
  <2>6. source[r.ordinal + 1].value = r.value
    BY <1>4
  <2>7. b = r
    <3>1. r.value = Plain("changed")
      BY <2>1, <2>5, <2>6
    <3>. QED BY <1>4, <2>1, <3>1
  <2>. QED BY <1>7, <2>7 DEF b
<1>. QED BY <1>3, <1>5, <1>6, <1>7

LEMMA OnlyTrueAttributes ==
  ASSUME RowsInv, Exhausted, NEW list \in Disturbed(attributes), Validates(records, list)
  PROVE  list = attributes
<1>1. /\ source \in Documents /\ Count = Len(source) /\ Count \in Nat
      /\ Numbered(records, Count)
  BY TablesTrue
<1>2. /\ \A r \in records : Contiguous(Ordinals(AttributesOf(list, r.ordinal)))
      /\ ReadBack(records, list) = source
  BY DEF Validates, Readable
<1>3. PICK a \in attributes :
        \/ list = attributes \ {a}
        \/ list = (attributes \ {a}) \cup {[a EXCEPT !.ordinal = Cardinality(attributes)]}
        \/ list = (attributes \ {a}) \cup {[a EXCEPT !.value = Plain("changed")]}
  BY DEF Disturbed
<1> DEFINE k == a.record
           A == AttributesOf(attributes, k)
           s == source[k + 1].attributes
           n == Len(s)
<1>4. k \in 0..(Count - 1) /\ a \in A
  BY DEF RowsInv, AttributesInv, AttributesOf
<1>5. s \in Seq(Attributes) /\ n \in Nat /\ DOMAIN s = 1..n
  <2>1. k + 1 \in 1..Len(source) /\ source \in Seq(SourceRecords)
    BY <1>1, <1>4, DocumentRecords
  <2>2. source[k + 1] \in SourceRecords
    BY <2>1
  <2>. QED BY <2>2 DEF SourceRecords
<1>6. /\ Numbered(A, n)
      /\ a = [record |-> k, ordinal |-> a.ordinal, name |-> s[a.ordinal + 1].name,
              value |-> s[a.ordinal + 1].value]
  BY <1>4 DEF RowsInv, AttributesInv
<1>7. a.ordinal \in 0..(n - 1) /\ a.ordinal + 1 \in 1..n
  BY <1>4, <1>5, <1>6 DEF Numbered
<1>8. PICK r \in records : r.ordinal = k
  BY <1>1, <1>4 DEF Numbered
<1>9. Contiguous(Ordinals(AttributesOf(list, k)))
  BY <1>2, <1>8
<1>10. Listed(list, k) = s
  <2>1. ReadBack(records, list)[r.ordinal + 1] =
          [kind |-> r.kind, depth |-> r.depth, name |-> r.name, value |-> r.value,
           attributes |-> Listed(list, r.ordinal)]
    BY <1>1, ReadBackAt
  <2>2. source[k + 1] =
          [kind |-> r.kind, depth |-> r.depth, name |-> r.name, value |-> r.value,
           attributes |-> Listed(list, k)]
    BY <1>2, <1>8, <2>1
  <2>. QED BY <2>2
<1>11. IsFiniteSet(A) /\ Cardinality(A) = n
  BY <1>5, <1>6, NumberedCount
<1>12. Cardinality(attributes) \in Nat /\ n <= Cardinality(attributes)
  <2>1. IsFiniteSet(attributes) /\ A \in SUBSET attributes
    BY DEF RowsInv, AttributesInv, AttributesOf
  <2> HIDE DEF A, n
  <2>2. Cardinality(attributes) \in Nat /\ Cardinality(A) <= Cardinality(attributes)
    BY <2>1, FS_Subset, FS_CardinalityType
  <2>. QED BY <1>11, <2>2
<1>13. CASE list = attributes \ {a}
  <2>1. AttributesOf(list, k) = A \ {a}
    BY <1>13 DEF AttributesOf
  <2>2. Cardinality(A \ {a}) = n - 1
    BY <1>4, <1>11, FS_RemoveElement
  <2>3. DOMAIN Listed(list, k) = 1..(n - 1)
    <3>1. DOMAIN Listed(list, k) = DOMAIN Ordered(A \ {a})
      BY <2>1 DEF Listed
    <3>2. DOMAIN Ordered(A \ {a}) = 1..Cardinality(A \ {a})
      BY DEF Ordered
    <3>. QED BY <2>2, <3>1, <3>2
  <2>4. n \in Nat /\ a.ordinal \in 0..(n - 1)
    BY <1>5, <1>7
  <2>5. DOMAIN s = 1..(n - 1) /\ DOMAIN s = 1..n
    BY <1>5, <1>10, <2>3
  <2> HIDE DEF n, s
  <2>6. n \in 1..n /\ n \notin 1..(n - 1)
    BY <2>4
  <2>. QED BY <2>5, <2>6
<1>14. CASE list = (attributes \ {a}) \cup {[a EXCEPT !.ordinal = Cardinality(attributes)]}
  <2> DEFINE b == [a EXCEPT !.ordinal = Cardinality(attributes)]
  <2>1. b.ordinal = Cardinality(attributes) /\ b.record = k
    BY <1>6
  <2> HIDE DEF b
  <2>2. AttributesOf(list, k) = (A \ {a}) \cup {b}
    BY <1>14, <2>1 DEF AttributesOf, b
  <2>3. ~Contiguous(Ordinals((A \ {a}) \cup {b}))
    <3> HIDE DEF A, n, k
    <3>. QED BY <1>4, <1>5, <1>6, <1>12, <2>1, MovedRow
  <2>. QED BY <1>9, <2>2, <2>3
<1>15. CASE list = (attributes \ {a}) \cup {[a EXCEPT !.value = Plain("changed")]}
  <2> DEFINE b == [a EXCEPT !.value = Plain("changed")]
             j == a.ordinal + 1
             T == (A \ {a}) \cup {b}
  <2>1. b = [record |-> k, ordinal |-> a.ordinal, name |-> s[j].name,
             value |-> Plain("changed")]
    BY <1>6
  <2> HIDE DEF b
  <2>2. b.record = k /\ b.ordinal = a.ordinal /\ b.value = Plain("changed")
    BY <2>1
  <2>3. AttributesOf(list, k) = T
    BY <1>15, <2>2 DEF AttributesOf, b
  <2>4. Numbered(T, n)
    <3> HIDE DEF A, n, k
    <3>. QED BY <1>4, <1>5, <1>6, <2>2, ChangedRow
  <2>5. Ordered(T)[j] = b /\ j \in DOMAIN Ordered(T)
    <3>1. b \in T
      OBVIOUS
    <3> HIDE DEF T, n
    <3>2. DOMAIN Ordered(T) = 1..n
          /\ \A i \in 1..n : Ordered(T)[i] \in T /\ Ordered(T)[i].ordinal = i - 1
      BY <1>5, <2>4, NumberedOrdered
    <3>3. j \in 1..n /\ j - 1 = a.ordinal
      BY <1>5, <1>7
    <3> DEFINE q == Ordered(T)[j]
    <3>4. q \in T /\ q.ordinal = b.ordinal
      BY <2>2, <3>2, <3>3
    <3> HIDE DEF q
    <3>5. q = b
      BY <2>4, <3>1, <3>4 DEF Numbered
    <3>. QED BY <3>2, <3>3, <3>5 DEF q
  <2>6. s[j].value = Plain("changed")
    <3>1. Listed(list, k) = [i \in DOMAIN Ordered(T) |->
                               [name |-> Ordered(T)[i].name, value |-> Ordered(T)[i].value]]
      BY <2>3 DEF Listed
    <3> HIDE DEF T, s, j
    <3>2. Listed(list, k)[j].value = b.value
      BY <2>5, <3>1
    <3>. QED BY <1>10, <2>2, <3>2
  <2>7. b = a
    BY <1>6, <2>1, <2>6
  <2>. QED BY <1>15, <2>7 DEF b
<1>. QED BY <1>3, <1>13, <1>14, <1>15

LEMMA OnlyTrueRows == RowsInv => OnlyTrueRowsValidate
BY TrueRowsValidate, OnlyTrueRecords, OnlyTrueAttributes DEF OnlyTrueRowsValidate

(***************************************************************************)
(* Theorems.                                                               *)
(***************************************************************************)

\* At every step of every import the rows are those of the records read.
THEOREM EntryImportRows == Spec => []RowsInv
<1>. QED BY RowsInvInit, RowsInvStep, PTL DEF Spec

\* A record row belongs to the entity of the entry it stands in, and to none outside
\* of complete entries.
THEOREM EntryImportOwners == Spec => []EntryOwnsItsRecords
<1>1. RowsInv => EntryOwnsItsRecords
  BY OwnsItsRecords
<1>. QED BY <1>1, EntryImportRows, PTL

\* The committed corpus has exactly one entity for every entry of its files, numbered
\* in their order, and no two of them share a canonical id.
THEOREM EntryImportAccounts == Spec => []CorpusAccountsForEntries
<1>1. RowsInv /\ (\A a, b \in db.entities : a.id = b.id => a = b) => CorpusAccountsForEntries
  BY CorpusAccounts
<1>. QED BY <1>1, EntryImportRows, EntryImportIds, PTL

\* The headword of an entity is that of the first record that gives its entry one.
THEOREM EntryImportHeadwords == Spec => []HeadwordFromFirst
<1>1. RowsInv => HeadwordFromFirst
  BY HeadwordFirst
<1>. QED BY <1>1, EntryImportRows, PTL

\* The rows of a complete file validate, and no table that differs in one row does.
THEOREM EntryImportTables == Spec => []OnlyTrueRowsValidate
<1>. QED BY OnlyTrueRows, EntryImportRows, PTL
=============================================================================
