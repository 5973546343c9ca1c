-------------------------- MODULE CharactersProofs --------------------------
(***************************************************************************)
(* What Characters.tla promises of an ordinary source, whatever its pieces *)
(* are and however its bytes fall into reads. The proof follows a          *)
(* character: through the filter (Sifts), the decoder (Decodes) and the    *)
(* reader behind them (ReadsOn), which undoes what the filter did, so that *)
(* a piece is read as XML means it (OrdinaryParsed); then onto the page    *)
(* and through audit_xhtml, which is a fold of its events (Run), so that   *)
(* an entry is read as it was written (SummaryTurns). Inv puts the two     *)
(* together.                                                               *)
(***************************************************************************)
EXTENDS Characters, FiniteSetTheorems, FunctionTheorems, SequenceTheorems, TLAPS

(***************************************************************************)
(* Induction over the natural numbers. The induction theorems of the       *)
(* library take a predicate as an operator, which the provers cannot       *)
(* instantiate; for a set they follow from the least element.              *)
(***************************************************************************)

\* A set of natural numbers that is not empty has a least element.
LEMMA LeastNatural ==
  ASSUME NEW T \in SUBSET Nat, T # {}
  PROVE  \E x \in T : \A y \in T : x <= y
<1> DEFINE less == {p \in Nat \X Nat : p[1] < p[2]}
<1>1. IsWellFoundedOn(less, Nat)
  BY NatLessThanWellFounded DEF OpToRel
<1>2. PICK x \in T : \A y \in T : ~(<<y, x>> \in less)
  <2> HIDE DEF less
  <2>. QED BY <1>1, WFMin
<1>3. \A y \in T : <<y, x>> \in less <=> y < x
  OBVIOUS
<1>4. \A y \in T : x \in Nat /\ y \in Nat /\ ~(y < x)
  BY <1>2, <1>3
<1>. QED BY <1>4

\* A set that holds 0, and with a number the next one, holds every number.
LEMMA SetInduction ==
  ASSUME NEW S, 0 \in S, \A n \in Nat : n \in S => n + 1 \in S
  PROVE  Nat \subseteq S
<1> SUFFICES ASSUME Nat \ S # {} PROVE FALSE
  OBVIOUS
<1>1. PICK x \in Nat \ S : \A y \in Nat \ S : x <= y
  BY LeastNatural
<1>. QED BY <1>1

\* The same from a first number on, and up to a last one.
LEMMA IntervalInduction ==
  ASSUME NEW a \in Int, NEW b \in Int, NEW S, a \in S,
         \A n \in a..(b - 1) : n \in S => n + 1 \in S
  PROVE  a..b \subseteq S
<1> DEFINE T == {n \in Nat : a + n <= b => a + n \in S}
<1>1. 0 \in T
  OBVIOUS
<1>2. \A n \in Nat : n \in T => n + 1 \in T
  OBVIOUS
<1>3. Nat \subseteq T
  <2> HIDE DEF T
  <2>. QED BY <1>1, <1>2, SetInduction
<1>4. ASSUME NEW k \in a..b PROVE k \in S
  <2>1. k - a \in T
    BY <1>3
  <2>. QED BY <2>1
<1>. QED BY <1>4

\* A function on an interval from one is a sequence.
LEMMA IsSequence ==
  ASSUME NEW A, NEW n \in Nat, NEW f \in [1..n -> A] PROVE f \in Seq(A)
BY SeqDef

\* The sequences over a set are sequences over a larger one.
Includes(B, A) == Seq(A) \subseteq Seq(B)

LEMMA SeqIncludes ==
  ASSUME NEW A, NEW B, A \subseteq B PROVE Includes(B, A)
<1>1. ASSUME NEW s \in Seq(A) PROVE s \in Seq(B)
  <2>1. PICK n \in Nat : n = Len(s)
    BY LenProperties
  <2>2. s \in [1..n -> A]
    BY <2>1, LenProperties
  <2>3. s \in [1..n -> B]
    BY <2>2
  <2>. QED BY <2>1, <2>3, IsSequence, Zenon
<1>. QED BY <1>1, Zenon DEF Includes

\* A set that holds the empty sequence, and with a sequence every one that has an
\* element more, holds every sequence.
LEMMA SequenceInduction ==
  ASSUME NEW A, NEW T, <<>> \in T,
         \A s \in Seq(A) : \A x \in A : s \in T => Append(s, x) \in T
  PROVE  Seq(A) \subseteq T
<1> DEFINE N == {n \in Nat : \A s \in Seq(A) : Len(s) = n => s \in T}
<1>1. 0 \in N
  <2>1. \A s \in Seq(A) : Len(s) = 0 => s = <<>>
    BY EmptySeq
  <2>. QED BY <2>1
<1>2. ASSUME NEW n \in Nat, n \in N PROVE n + 1 \in N
  <2> SUFFICES ASSUME NEW s \in Seq(A), Len(s) = n + 1 PROVE s \in T
    OBVIOUS
  <2>1. s # <<>>
    BY EmptySeq
  <2>2. PICK t \in Seq(A), x \in A : s = Append(t, x)
    BY <2>1, SequenceEmptyOrAppend
  <2>3. Len(t) = n
    BY <2>2, AppendProperties
  <2>. QED BY <1>2, <2>2, <2>3
<1>3. Nat \subseteq N
  <2> HIDE DEF N
  <2>. QED BY <1>1, <1>2, SetInduction
<1>. QED BY <1>3, LenProperties

(***************************************************************************)
(* The loops along bytes, characters and events, one turn more.            *)
(***************************************************************************)

\* str::from_utf8, one byte more.
LEMMA DecodedFold ==
  ASSUME NEW A, NEW s \in Seq(A), NEW a \in A
  PROVE  /\ Decoded(<<>>) = [chars |-> <<>>, open |-> <<>>, valid |-> TRUE]
         /\ Decoded(Append(s, a)) = DecodedByte(Decoded(s), a)
<1> DEFINE E(f, t, n) == IF n = 0 THEN [chars |-> <<>>, open |-> <<>>, valid |-> TRUE] ELSE DecodedByte(f[n - 1], t[n])
           Solves(f, t, m) == f = [n \in 0..m |-> E(f, t, n)]
           F(t) == CHOOSE f : Solves(f, t, Len(t))
<1>1. ASSUME NEW t, NEW m \in Nat PROVE \E f : Solves(f, t, m)
  <2> DEFINE N == {n \in Nat : \E f : Solves(f, t, n)}
  <2>1. 0 \in N
    <3>1. Solves([n \in 0..0 |-> [chars |-> <<>>, open |-> <<>>, valid |-> TRUE]], t, 0)
      OBVIOUS
    <3>. QED BY <3>1, Zenon
  <2>2. ASSUME NEW n \in Nat, n \in N PROVE n + 1 \in N
    <3>1. PICK f : Solves(f, t, n)
      BY <2>2
    <3>2. \A k \in 0..n : f[k] = E(f, t, k)
      <4> HIDE DEF E
      <4>. QED BY <3>1
    <3> DEFINE g == [k \in 0..(n + 1) |-> IF k = n + 1 THEN DecodedByte(f[n], t[n + 1]) ELSE f[k]]
    <3>3. \A k \in 0..(n + 1) : g[k] = E(g, t, k)
      <4> TAKE k \in 0..(n + 1)
      <4>1. CASE k = 0
        <5>1. k # n + 1 /\ k \in 0..n
          BY <4>1
        <5>. QED BY <3>2, <4>1, <5>1
      <4>2. CASE k \in 1..n
        <5>1. k - 1 \in 0..(n + 1) /\ k - 1 # n + 1 /\ k # n + 1 /\ k # 0 /\ k \in 0..n
          BY <4>2
        <5>2. g[k - 1] = f[k - 1] /\ g[k] = f[k]
          BY <5>1
        <5>3. f[k] = DecodedByte(f[k - 1], t[k])
          BY <3>2, <5>1
        <5> HIDE DEF g
        <5>. QED BY <5>1, <5>2, <5>3
      <4>3. CASE k = n + 1
        <5>1. k - 1 = n /\ n \in 0..(n + 1) /\ n # n + 1 /\ k # 0
          BY <4>3
        <5>2. g[n] = f[n] /\ g[k] = DecodedByte(f[n], t[n + 1])
          BY <4>3, <5>1
        <5> HIDE DEF g
        <5>. QED BY <4>3, <5>1, <5>2
      <4>. QED BY <4>1, <4>2, <4>3
    <3>4. Solves(g, t, n + 1)
      <4>1. g = [k \in 0..(n + 1) |-> g[k]]
        OBVIOUS
      <4> HIDE DEF g, E
      <4>. QED BY <3>3, <4>1
    <3>5. n + 1 \in Nat
      OBVIOUS
    <3> HIDE DEF Solves, g
    <3>. QED BY <3>4, <3>5, Zenon
  <2>3. Nat \subseteq N
    <3> HIDE DEF N
    <3>. QED BY <2>1, <2>2, SetInduction
  <2>. QED BY <2>3
<1>2. ASSUME NEW t, Len(t) \in Nat
      PROVE  /\ F(t)[0] = [chars |-> <<>>, open |-> <<>>, valid |-> TRUE]
             /\ \A n \in 1..Len(t) : F(t)[n] = DecodedByte(F(t)[n - 1], t[n])
  <2>1. PICK f : f = F(t)
    OBVIOUS
  <2>2. Solves(f, t, Len(t))
    <3> HIDE DEF Solves
    <3>. QED BY <1>1, <1>2, <2>1
  <2>3. \A n \in 0..Len(t) : f[n] = E(f, t, n)
    <3> HIDE DEF E
    <3>. QED BY <2>2
  <2> HIDE DEF F
  <2>. QED BY <1>2, <2>1, <2>3
<1>3. ASSUME NEW t PROVE Decoded(t) = F(t)[Len(t)]
  BY Zenon DEF Decoded
<1>4. /\ Len(<<>>) = 0 /\ Len(s) \in Nat /\ Len(Append(s, a)) = Len(s) + 1
      /\ \A n \in 1..Len(s) : Append(s, a)[n] = s[n]
      /\ Append(s, a)[Len(s) + 1] = a
  BY AppendProperties, EmptySeq, LenProperties
<1> HIDE DEF F, E
<1>5. Decoded(<<>>) = [chars |-> <<>>, open |-> <<>>, valid |-> TRUE]
  BY <1>2, <1>3, <1>4
<1>6. PICK f : f = F(s)
  OBVIOUS
<1>7. PICK g : g = F(Append(s, a))
  OBVIOUS
<1>8. /\ f[0] = [chars |-> <<>>, open |-> <<>>, valid |-> TRUE]
      /\ \A n \in 1..Len(s) : f[n] = DecodedByte(f[n - 1], s[n])
  <2>1. Len(s) \in Nat
    BY <1>4
  <2>2. /\ F(s)[0] = [chars |-> <<>>, open |-> <<>>, valid |-> TRUE]
        /\ \A n \in 1..Len(s) : F(s)[n] = DecodedByte(F(s)[n - 1], s[n])
    BY <1>2, <2>1, Zenon
  <2>. QED BY <1>4, <1>6, <2>2
<1>9. /\ g[0] = [chars |-> <<>>, open |-> <<>>, valid |-> TRUE]
      /\ \A n \in 1..(Len(s) + 1) : g[n] = DecodedByte(g[n - 1], Append(s, a)[n])
  <2>1. Len(Append(s, a)) \in Nat
    BY <1>4
  <2>2. /\ F(Append(s, a))[0] = [chars |-> <<>>, open |-> <<>>, valid |-> TRUE]
        /\ \A n \in 1..Len(Append(s, a)) : F(Append(s, a))[n] = DecodedByte(F(Append(s, a))[n - 1], Append(s, a)[n])
    BY <1>2, <2>1, Zenon
  <2>. QED BY <1>4, <1>7, <2>2
<1> DEFINE N == {n \in 0..Len(s) : g[n] = f[n]}
<1>10. 0 \in N
  BY <1>4, <1>8, <1>9
<1>11. \A n \in 0..(Len(s) - 1) : n \in N => n + 1 \in N
  <2> TAKE n \in 0..(Len(s) - 1)
  <2> HAVE n \in N
  <2>1. /\ n + 1 \in 1..Len(s) /\ n + 1 \in 1..(Len(s) + 1) /\ (n + 1) - 1 = n
        /\ n + 1 \in 0..Len(s)
    BY <1>4
  <2>2. f[n + 1] = DecodedByte(f[n], s[n + 1])
    BY <1>8, <2>1
  <2>3. g[n + 1] = DecodedByte(g[n], Append(s, a)[n + 1])
    BY <1>9, <2>1
  <2>4. g[n] = f[n] /\ Append(s, a)[n + 1] = s[n + 1]
    BY <1>4, <2>1
  <2>. QED BY <2>1, <2>2, <2>3, <2>4
<1>12. g[Len(s)] = f[Len(s)]
  <2>1. Len(s) \in 0..Len(s) /\ 0 \in Int /\ Len(s) \in Int
    BY <1>4
  <2> HIDE DEF N
  <2>2. 0..Len(s) \subseteq N
    BY <1>10, <1>11, <2>1, IntervalInduction, Zenon
  <2> USE DEF N
  <2>. QED BY <2>1, <2>2
<1>13. g[Len(s) + 1] = DecodedByte(g[Len(s)], a)
  <2>1. Len(s) + 1 \in 1..(Len(s) + 1) /\ (Len(s) + 1) - 1 = Len(s)
    BY <1>4
  <2>2. g[Len(s) + 1] = DecodedByte(g[(Len(s) + 1) - 1], Append(s, a)[Len(s) + 1])
    BY <1>9, <2>1
  <2>. QED BY <1>4, <2>1, <2>2
<1>14. Decoded(s) = f[Len(s)]
  BY <1>3, <1>6
<1>15. Decoded(Append(s, a)) = g[Len(s) + 1]
  BY <1>3, <1>4, <1>7
<1>16. Decoded(Append(s, a)) = DecodedByte(Decoded(s), a)
  BY <1>12, <1>13, <1>14, <1>15
<1>. QED BY <1>5, <1>16

\* The characters of an attribute or a name, one more.
LEMMA AttributeFold ==
  ASSUME NEW e, NEW A, NEW s \in Seq(A), NEW a \in A
  PROVE  /\ AttributeChars(e, <<>>) = Unread
         /\ AttributeChars(e, Append(s, a)) = AttributeChar(e, AttributeChars(e, s), a)
<1> DEFINE E(f, t, n) == IF n = 0 THEN Unread ELSE AttributeChar(e, f[n - 1], t[n])
           Solves(f, t, m) == f = [n \in 0..m |-> E(f, t, n)]
           F(t) == CHOOSE f : Solves(f, t, Len(t))
<1>1. ASSUME NEW t, NEW m \in Nat PROVE \E f : Solves(f, t, m)
  <2> DEFINE N == {n \in Nat : \E f : Solves(f, t, n)}
  <2>1. 0 \in N
    <3>1. Solves([n \in 0..0 |-> Unread], t, 0)
      OBVIOUS
    <3>. QED BY <3>1, Zenon
  <2>2. ASSUME NEW n \in Nat, n \in N PROVE n + 1 \in N
    <3>1. PICK f : Solves(f, t, n)
      BY <2>2
    <3>2. \A k \in 0..n : f[k] = E(f, t, k)
      <4> HIDE DEF E
      <4>. QED BY <3>1
    <3> DEFINE g == [k \in 0..(n + 1) |-> IF k = n + 1 THEN AttributeChar(e, f[n], t[n + 1]) ELSE f[k]]
    <3>3. \A k \in 0..(n + 1) : g[k] = E(g, t, k)
      <4> TAKE k \in 0..(n + 1)
      <4>1. CASE k = 0
        <5>1. k # n + 1 /\ k \in 0..n
          BY <4>1
        <5>. QED BY <3>2, <4>1, <5>1
      <4>2. CASE k \in 1..n
        <5>1. k - 1 \in 0..(n + 1) /\ k - 1 # n + 1 /\ k # n + 1 /\ k # 0 /\ k \in 0..n
          BY <4>2
        <5>2. g[k - 1] = f[k - 1] /\ g[k] = f[k]
          BY <5>1
        <5>3. f[k] = AttributeChar(e, f[k - 1], t[k])
          BY <3>2, <5>1
        <5> HIDE DEF g
        <5>. QED BY <5>1, <5>2, <5>3
      <4>3. CASE k = n + 1
        <5>1. k - 1 = n /\ n \in 0..(n + 1) /\ n # n + 1 /\ k # 0
          BY <4>3
        <5>2. g[n] = f[n] /\ g[k] = AttributeChar(e, f[n], t[n + 1])
          BY <4>3, <5>1
        <5> HIDE DEF g
        <5>. QED BY <4>3, <5>1, <5>2
      <4>. QED BY <4>1, <4>2, <4>3
    <3>4. Solves(g, t, n + 1)
      <4>1. g = [k \in 0..(n + 1) |-> g[k]]
        OBVIOUS
      <4> HIDE DEF g, E
      <4>. QED BY <3>3, <4>1
    <3>5. n + 1 \in Nat
      OBVIOUS
    <3> HIDE DEF Solves, g
    <3>. QED BY <3>4, <3>5, Zenon
  <2>3. Nat \subseteq N
    <3> HIDE DEF N
    <3>. QED BY <2>1, <2>2, SetInduction
  <2>. QED BY <2>3
<1>2. ASSUME NEW t, Len(t) \in Nat
      PROVE  /\ F(t)[0] = Unread
             /\ \A n \in 1..Len(t) : F(t)[n] = AttributeChar(e, F(t)[n - 1], t[n])
  <2>1. PICK f : f = F(t)
    OBVIOUS
  <2>2. Solves(f, t, Len(t))
    <3> HIDE DEF Solves
    <3>. QED BY <1>1, <1>2, <2>1
  <2>3. \A n \in 0..Len(t) : f[n] = E(f, t, n)
    <3> HIDE DEF E
    <3>. QED BY <2>2
  <2> HIDE DEF F
  <2>. QED BY <1>2, <2>1, <2>3
<1>3. ASSUME NEW t PROVE AttributeChars(e, t) = F(t)[Len(t)]
  BY Zenon DEF AttributeChars
<1>4. /\ Len(<<>>) = 0 /\ Len(s) \in Nat /\ Len(Append(s, a)) = Len(s) + 1
      /\ \A n \in 1..Len(s) : Append(s, a)[n] = s[n]
      /\ Append(s, a)[Len(s) + 1] = a
  BY AppendProperties, EmptySeq, LenProperties
<1> HIDE DEF F, E
<1>5. AttributeChars(e, <<>>) = Unread
  BY <1>2, <1>3, <1>4
<1>6. PICK f : f = F(s)
  OBVIOUS
<1>7. PICK g : g = F(Append(s, a))
  OBVIOUS
<1>8. /\ f[0] = Unread
      /\ \A n \in 1..Len(s) : f[n] = AttributeChar(e, f[n - 1], s[n])
  <2>1. Len(s) \in Nat
    BY <1>4
  <2>2. /\ F(s)[0] = Unread
        /\ \A n \in 1..Len(s) : F(s)[n] = AttributeChar(e, F(s)[n - 1], s[n])
    BY <1>2, <2>1, Zenon
  <2>. QED BY <1>4, <1>6, <2>2
<1>9. /\ g[0] = Unread
      /\ \A n \in 1..(Len(s) + 1) : g[n] = AttributeChar(e, g[n - 1], Append(s, a)[n])
  <2>1. Len(Append(s, a)) \in Nat
    BY <1>4
  <2>2. /\ F(Append(s, a))[0] = Unread
        /\ \A n \in 1..Len(Append(s, a)) : F(Append(s, a))[n] = AttributeChar(e, F(Append(s, a))[n - 1], Append(s, a)[n])
    BY <1>2, <2>1, Zenon
  <2>. QED BY <1>4, <1>7, <2>2
<1> DEFINE N == {n \in 0..Len(s) : g[n] = f[n]}
<1>10. 0 \in N
  BY <1>4, <1>8, <1>9
<1>11. \A n \in 0..(Len(s) - 1) : n \in N => n + 1 \in N
  <2> TAKE n \in 0..(Len(s) - 1)
  <2> HAVE n \in N
  <2>1. /\ n + 1 \in 1..Len(s) /\ n + 1 \in 1..(Len(s) + 1) /\ (n + 1) - 1 = n
        /\ n + 1 \in 0..Len(s)
    BY <1>4
  <2>2. f[n + 1] = AttributeChar(e, f[n], s[n + 1])
    BY <1>8, <2>1
  <2>3. g[n + 1] = AttributeChar(e, g[n], Append(s, a)[n + 1])
    BY <1>9, <2>1
  <2>4. g[n] = f[n] /\ Append(s, a)[n + 1] = s[n + 1]
    BY <1>4, <2>1
  <2>. QED BY <2>1, <2>2, <2>3, <2>4
<1>12. g[Len(s)] = f[Len(s)]
  <2>1. Len(s) \in 0..Len(s) /\ 0 \in Int /\ Len(s) \in Int
    BY <1>4
  <2> HIDE DEF N
  <2>2. 0..Len(s) \subseteq N
    BY <1>10, <1>11, <2>1, IntervalInduction, Zenon
  <2> USE DEF N
  <2>. QED BY <2>1, <2>2
<1>13. g[Len(s) + 1] = AttributeChar(e, g[Len(s)], a)
  <2>1. Len(s) + 1 \in 1..(Len(s) + 1) /\ (Len(s) + 1) - 1 = Len(s)
    BY <1>4
  <2>2. g[Len(s) + 1] = AttributeChar(e, g[(Len(s) + 1) - 1], Append(s, a)[Len(s) + 1])
    BY <1>9, <2>1
  <2>. QED BY <1>4, <2>1, <2>2
<1>14. AttributeChars(e, s) = f[Len(s)]
  BY <1>3, <1>6
<1>15. AttributeChars(e, Append(s, a)) = g[Len(s) + 1]
  BY <1>3, <1>4, <1>7
<1>16. AttributeChars(e, Append(s, a)) = AttributeChar(e, AttributeChars(e, s), a)
  BY <1>12, <1>13, <1>14, <1>15
<1>. QED BY <1>5, <1>16

\* The characters of a text, one more.
LEMMA TextFold ==
  ASSUME NEW e, NEW A, NEW s \in Seq(A), NEW a \in A
  PROVE  /\ TextChars(e, <<>>) = Unread
         /\ TextChars(e, Append(s, a)) = TextChar(e, TextChars(e, s), a)
<1> DEFINE E(f, t, n) == IF n = 0 THEN Unread ELSE TextChar(e, f[n - 1], t[n])
           Solves(f, t, m) == f = [n \in 0..m |-> E(f, t, n)]
           F(t) == CHOOSE f : Solves(f, t, Len(t))
<1>1. ASSUME NEW t, NEW m \in Nat PROVE \E f : Solves(f, t, m)
  <2> DEFINE N == {n \in Nat : \E f : Solves(f, t, n)}
  <2>1. 0 \in N
    <3>1. Solves([n \in 0..0 |-> Unread], t, 0)
      OBVIOUS
    <3>. QED BY <3>1, Zenon
  <2>2. ASSUME NEW n \in Nat, n \in N PROVE n + 1 \in N
    <3>1. PICK f : Solves(f, t, n)
      BY <2>2
    <3>2. \A k \in 0..n : f[k] = E(f, t, k)
      <4> HIDE DEF E
      <4>. QED BY <3>1
    <3> DEFINE g == [k \in 0..(n + 1) |-> IF k = n + 1 THEN TextChar(e, f[n], t[n + 1]) ELSE f[k]]
    <3>3. \A k \in 0..(n + 1) : g[k] = E(g, t, k)
      <4> TAKE k \in 0..(n + 1)
      <4>1. CASE k = 0
        <5>1. k # n + 1 /\ k \in 0..n
          BY <4>1
        <5>. QED BY <3>2, <4>1, <5>1
      <4>2. CASE k \in 1..n
        <5>1. k - 1 \in 0..(n + 1) /\ k - 1 # n + 1 /\ k # n + 1 /\ k # 0 /\ k \in 0..n
          BY <4>2
        <5>2. g[k - 1] = f[k - 1] /\ g[k] = f[k]
          BY <5>1
        <5>3. f[k] = TextChar(e, f[k - 1], t[k])
          BY <3>2, <5>1
        <5> HIDE DEF g
        <5>. QED BY <5>1, <5>2, <5>3
      <4>3. CASE k = n + 1
        <5>1. k - 1 = n /\ n \in 0..(n + 1) /\ n # n + 1 /\ k # 0
          BY <4>3
        <5>2. g[n] = f[n] /\ g[k] = TextChar(e, f[n], t[n + 1])
          BY <4>3, <5>1
        <5> HIDE DEF g
        <5>. QED BY <4>3, <5>1, <5>2
      <4>. QED BY <4>1, <4>2, <4>3
    <3>4. Solves(g, t, n + 1)
      <4>1. g = [k \in 0..(n + 1) |-> g[k]]
        OBVIOUS
      <4> HIDE DEF g, E
      <4>. QED BY <3>3, <4>1
    <3>5. n + 1 \in Nat
      OBVIOUS
    <3> HIDE DEF Solves, g
    <3>. QED BY <3>4, <3>5, Zenon
  <2>3. Nat \subseteq N
    <3> HIDE DEF N
    <3>. QED BY <2>1, <2>2, SetInduction
  <2>. QED BY <2>3
<1>2. ASSUME NEW t, Len(t) \in Nat
      PROVE  /\ F(t)[0] = Unread
             /\ \A n \in 1..Len(t) : F(t)[n] = TextChar(e, F(t)[n - 1], t[n])
  <2>1. PICK f : f = F(t)
    OBVIOUS
  <2>2. Solves(f, t, Len(t))
    <3> HIDE DEF Solves
    <3>. QED BY <1>1, <1>2, <2>1
  <2>3. \A n \in 0..Len(t) : f[n] = E(f, t, n)
    <3> HIDE DEF E
    <3>. QED BY <2>2
  <2> HIDE DEF F
  <2>. QED BY <1>2, <2>1, <2>3
<1>3. ASSUME NEW t PROVE TextChars(e, t) = F(t)[Len(t)]
  BY Zenon DEF TextChars
<1>4. /\ Len(<<>>) = 0 /\ Len(s) \in Nat /\ Len(Append(s, a)) = Len(s) + 1
      /\ \A n \in 1..Len(s) : Append(s, a)[n] = s[n]
      /\ Append(s, a)[Len(s) + 1] = a
  BY AppendProperties, EmptySeq, LenProperties
<1> HIDE DEF F, E
<1>5. TextChars(e, <<>>) = Unread
  BY <1>2, <1>3, <1>4
<1>6. PICK f : f = F(s)
  OBVIOUS
<1>7. PICK g : g = F(Append(s, a))
  OBVIOUS
<1>8. /\ f[0] = Unread
      /\ \A n \in 1..Len(s) : f[n] = TextChar(e, f[n - 1], s[n])
  <2>1. Len(s) \in Nat
    BY <1>4
  <2>2. /\ F(s)[0] = Unread
        /\ \A n \in 1..Len(s) : F(s)[n] = TextChar(e, F(s)[n - 1], s[n])
    BY <1>2, <2>1, Zenon
  <2>. QED BY <1>4, <1>6, <2>2
<1>9. /\ g[0] = Unread
      /\ \A n \in 1..(Len(s) + 1) : g[n] = TextChar(e, g[n - 1], Append(s, a)[n])
  <2>1. Len(Append(s, a)) \in Nat
    BY <1>4
  <2>2. /\ F(Append(s, a))[0] = Unread
        /\ \A n \in 1..Len(Append(s, a)) : F(Append(s, a))[n] = TextChar(e, F(Append(s, a))[n - 1], Append(s, a)[n])
    BY <1>2, <2>1, Zenon
  <2>. QED BY <1>4, <1>7, <2>2
<1> DEFINE N == {n \in 0..Len(s) : g[n] = f[n]}
<1>10. 0 \in N
  BY <1>4, <1>8, <1>9
<1>11. \A n \in 0..(Len(s) - 1) : n \in N => n + 1 \in N
  <2> TAKE n \in 0..(Len(s) - 1)
  <2> HAVE n \in N
  <2>1. /\ n + 1 \in 1..Len(s) /\ n + 1 \in 1..(Len(s) + 1) /\ (n + 1) - 1 = n
        /\ n + 1 \in 0..Len(s)
    BY <1>4
  <2>2. f[n + 1] = TextChar(e, f[n], s[n + 1])
    BY <1>8, <2>1
  <2>3. g[n + 1] = TextChar(e, g[n], Append(s, a)[n + 1])
    BY <1>9, <2>1
  <2>4. g[n] = f[n] /\ Append(s, a)[n + 1] = s[n + 1]
    BY <1>4, <2>1
  <2>. QED BY <2>1, <2>2, <2>3, <2>4
<1>12. g[Len(s)] = f[Len(s)]
  <2>1. Len(s) \in 0..Len(s) /\ 0 \in Int /\ Len(s) \in Int
    BY <1>4
  <2> HIDE DEF N
  <2>2. 0..Len(s) \subseteq N
    BY <1>10, <1>11, <2>1, IntervalInduction, Zenon
  <2> USE DEF N
  <2>. QED BY <2>1, <2>2
<1>13. g[Len(s) + 1] = TextChar(e, g[Len(s)], a)
  <2>1. Len(s) + 1 \in 1..(Len(s) + 1) /\ (Len(s) + 1) - 1 = Len(s)
    BY <1>4
  <2>2. g[Len(s) + 1] = TextChar(e, g[(Len(s) + 1) - 1], Append(s, a)[Len(s) + 1])
    BY <1>9, <2>1
  <2>. QED BY <1>4, <2>1, <2>2
<1>14. TextChars(e, s) = f[Len(s)]
  BY <1>3, <1>6
<1>15. TextChars(e, Append(s, a)) = g[Len(s) + 1]
  BY <1>3, <1>4, <1>7
<1>16. TextChars(e, Append(s, a)) = TextChar(e, TextChars(e, s), a)
  BY <1>12, <1>13, <1>14, <1>15
<1>. QED BY <1>5, <1>16

\* The turn of the loop and the loop over a read, for either escape.
Sifted(e, f, byte) ==
  LET matched == Append(f.match, byte)
      flushed == f.output \o f.match
  IN CASE matched = e.escape -> [match |-> <<>>, output |-> f.output \o e.escape \o e.escape]
       [] matched # e.escape /\ IsPrefix(matched, e.escape) -> [f EXCEPT !.match = matched]
       [] ~IsPrefix(matched, e.escape) /\ byte = e.escape[1] ->
            [match |-> <<byte>>, output |-> flushed]
       [] OTHER -> [match |-> <<>>,
                    output |-> flushed \o IF byte \in Controls
                                            THEN e.escape \o [c \in Controls |-> e.replacement][byte]
                                            ELSE <<byte>>]

SiftedAll(e, f, bytes) ==
  LET Upto[n \in 0..Len(bytes)] == IF n = 0 THEN f ELSE Sifted(e, Upto[n - 1], bytes[n])
  IN Upto[Len(bytes)]

LEMMA ConversionSifts ==
  ASSUME NEW f, NEW bytes
  PROVE  Conversion!FilteredAll(f, bytes) = SiftedAll(ConversionEscape, f, bytes)
BY Zenon DEF Conversion!FilteredAll, Conversion!Filtered, Conversion!IsPrefix, IsPrefix, SiftedAll,
          Sifted

\* The same of AuditControlReader.
LEMMA AuditSifts ==
  ASSUME NEW f, NEW bytes
  PROVE  Audit!FilteredAll(f, bytes) = SiftedAll(AuditEscape, f, bytes)
BY Zenon DEF Audit!FilteredAll, Audit!Filtered, Audit!IsPrefix, IsPrefix, SiftedAll, Sifted

\* The bytes of a read, one more.
LEMMA SiftedFold ==
  ASSUME NEW e, NEW start, NEW A, NEW s \in Seq(A), NEW a \in A
  PROVE  /\ SiftedAll(e, start, <<>>) = start
         /\ SiftedAll(e, start, Append(s, a)) = Sifted(e, SiftedAll(e, start, s), a)
<1> DEFINE E(f, t, n) == IF n = 0 THEN start ELSE Sifted(e, f[n - 1], t[n])
           Solves(f, t, m) == f = [n \in 0..m |-> E(f, t, n)]
           F(t) == CHOOSE f : Solves(f, t, Len(t))
<1>1. ASSUME NEW t, NEW m \in Nat PROVE \E f : Solves(f, t, m)
  <2> DEFINE N == {n \in Nat : \E f : Solves(f, t, n)}
  <2>1. 0 \in N
    <3>1. Solves([n \in 0..0 |-> start], t, 0)
      OBVIOUS
    <3>. QED BY <3>1, Zenon
  <2>2. ASSUME NEW n \in Nat, n \in N PROVE n + 1 \in N
    <3>1. PICK f : Solves(f, t, n)
      BY <2>2
    <3>2. \A k \in 0..n : f[k] = E(f, t, k)
      <4> HIDE DEF E
      <4>. QED BY <3>1
    <3> DEFINE g == [k \in 0..(n + 1) |-> IF k = n + 1 THEN Sifted(e, f[n], t[n + 1]) ELSE f[k]]
    <3>3. \A k \in 0..(n + 1) : g[k] = E(g, t, k)
      <4> TAKE k \in 0..(n + 1)
      <4>1. CASE k = 0
        <5>1. k # n + 1 /\ k \in 0..n
          BY <4>1
        <5>. QED BY <3>2, <4>1, <5>1
      <4>2. CASE k \in 1..n
        <5>1. k - 1 \in 0..(n + 1) /\ k - 1 # n + 1 /\ k # n + 1 /\ k # 0 /\ k \in 0..n
          BY <4>2
        <5>2. g[k - 1] = f[k - 1] /\ g[k] = f[k]
          BY <5>1
        <5>3. f[k] = Sifted(e, f[k - 1], t[k])
          BY <3>2, <5>1
        <5> HIDE DEF g
        <5>. QED BY <5>1, <5>2, <5>3
      <4>3. CASE k = n + 1
        <5>1. k - 1 = n /\ n \in 0..(n + 1) /\ n # n + 1 /\ k # 0
          BY <4>3
        <5>2. g[n] = f[n] /\ g[k] = Sifted(e, f[n], t[n + 1])
          BY <4>3, <5>1
        <5> HIDE DEF g
        <5>. QED BY <4>3, <5>1, <5>2
      <4>. QED BY <4>1, <4>2, <4>3
    <3>4. Solves(g, t, n + 1)
      <4>1. g = [k \in 0..(n + 1) |-> g[k]]
        OBVIOUS
      <4> HIDE DEF g, E
      <4>. QED BY <3>3, <4>1
    <3>5. n + 1 \in Nat
      OBVIOUS
    <3> HIDE DEF Solves, g
    <3>. QED BY <3>4, <3>5, Zenon
  <2>3. Nat \subseteq N
    <3> HIDE DEF N
    <3>. QED BY <2>1, <2>2, SetInduction
  <2>. QED BY <2>3
<1>2. ASSUME NEW t, Len(t) \in Nat
      PROVE  /\ F(t)[0] = start
             /\ \A n \in 1..Len(t) : F(t)[n] = Sifted(e, F(t)[n - 1], t[n])
  <2>1. PICK f : f = F(t)
    OBVIOUS
  <2>2. Solves(f, t, Len(t))
    <3> HIDE DEF Solves
    <3>. QED BY <1>1, <1>2, <2>1
  <2>3. \A n \in 0..Len(t) : f[n] = E(f, t, n)
    <3> HIDE DEF E
    <3>. QED BY <2>2
  <2> HIDE DEF F
  <2>. QED BY <1>2, <2>1, <2>3
<1>3. ASSUME NEW t PROVE SiftedAll(e, start, t) = F(t)[Len(t)]
  BY Zenon DEF SiftedAll
<1>4. /\ Len(<<>>) = 0 /\ Len(s) \in Nat /\ Len(Append(s, a)) = Len(s) + 1
      /\ \A n \in 1..Len(s) : Append(s, a)[n] = s[n]
      /\ Append(s, a)[Len(s) + 1] = a
  BY AppendProperties, EmptySeq, LenProperties
<1> HIDE DEF F, E
<1>5. SiftedAll(e, start, <<>>) = start
  BY <1>2, <1>3, <1>4
<1>6. PICK f : f = F(s)
  OBVIOUS
<1>7. PICK g : g = F(Append(s, a))
  OBVIOUS
<1>8. /\ f[0] = start
      /\ \A n \in 1..Len(s) : f[n] = Sifted(e, f[n - 1], s[n])
  <2>1. Len(s) \in Nat
    BY <1>4
  <2>2. /\ F(s)[0] = start
        /\ \A n \in 1..Len(s) : F(s)[n] = Sifted(e, F(s)[n - 1], s[n])
    BY <1>2, <2>1, Zenon
  <2>. QED BY <1>4, <1>6, <2>2
<1>9. /\ g[0] = start
      /\ \A n \in 1..(Len(s) + 1) : g[n] = Sifted(e, g[n - 1], Append(s, a)[n])
  <2>1. Len(Append(s, a)) \in Nat
    BY <1>4
  <2>2. /\ F(Append(s, a))[0] = start
        /\ \A n \in 1..Len(Append(s, a)) : F(Append(s, a))[n] = Sifted(e, F(Append(s, a))[n - 1], Append(s, a)[n])
    BY <1>2, <2>1, Zenon
  <2>. QED BY <1>4, <1>7, <2>2
<1> DEFINE N == {n \in 0..Len(s) : g[n] = f[n]}
<1>10. 0 \in N
  BY <1>4, <1>8, <1>9
<1>11. \A n \in 0..(Len(s) - 1) : n \in N => n + 1 \in N
  <2> TAKE n \in 0..(Len(s) - 1)
  <2> HAVE n \in N
  <2>1. /\ n + 1 \in 1..Len(s) /\ n + 1 \in 1..(Len(s) + 1) /\ (n + 1) - 1 = n
        /\ n + 1 \in 0..Len(s)
    BY <1>4
  <2>2. f[n + 1] = Sifted(e, f[n], s[n + 1])
    BY <1>8, <2>1
  <2>3. g[n + 1] = Sifted(e, g[n], Append(s, a)[n + 1])
    BY <1>9, <2>1
  <2>4. g[n] = f[n] /\ Append(s, a)[n + 1] = s[n + 1]
    BY <1>4, <2>1
  <2>. QED BY <2>1, <2>2, <2>3, <2>4
<1>12. g[Len(s)] = f[Len(s)]
  <2>1. Len(s) \in 0..Len(s) /\ 0 \in Int /\ Len(s) \in Int
    BY <1>4
  <2> HIDE DEF N
  <2>2. 0..Len(s) \subseteq N
    BY <1>10, <1>11, <2>1, IntervalInduction, Zenon
  <2> USE DEF N
  <2>. QED BY <2>1, <2>2
<1>13. g[Len(s) + 1] = Sifted(e, g[Len(s)], a)
  <2>1. Len(s) + 1 \in 1..(Len(s) + 1) /\ (Len(s) + 1) - 1 = Len(s)
    BY <1>4
  <2>2. g[Len(s) + 1] = Sifted(e, g[(Len(s) + 1) - 1], Append(s, a)[Len(s) + 1])
    BY <1>9, <2>1
  <2>. QED BY <1>4, <2>1, <2>2
<1>14. SiftedAll(e, start, s) = f[Len(s)]
  BY <1>3, <1>6
<1>15. SiftedAll(e, start, Append(s, a)) = g[Len(s) + 1]
  BY <1>3, <1>4, <1>7
<1>16. SiftedAll(e, start, Append(s, a)) = Sifted(e, SiftedAll(e, start, s), a)
  BY <1>12, <1>13, <1>14, <1>15
<1>. QED BY <1>5, <1>16

(***************************************************************************)
(* The filter: what it holds back and what it hands out on a byte.         *)
(***************************************************************************)

Escapes == {ConversionEscape, AuditEscape}

\* Both escapes and replacements are three bytes of the private use area.
LEMMA EscapeBytes ==
  ASSUME NEW e \in Escapes
  PROVE  \E x, y, z, w \in Continuations :
           /\ e = [escape |-> <<"EE", x, y>>, replacement |-> <<"EE", z, w>>]
           /\ <<x, y>> # <<z, w>>
<1>1. /\ ConversionEscape = [escape |-> <<"EE", "80", "80">>, replacement |-> <<"EE", "80", "98">>]
      /\ AuditEscape = [escape |-> <<"EE", "84", "80">>, replacement |-> <<"EE", "84", "A8">>]
  BY DEF ConversionEscape, AuditEscape, UE000, UE018, UE100, UE128
<1>2. /\ {"80", "84", "98", "A8"} = Continuations
      /\ <<"80", "80">> # <<"80", "98">> /\ <<"84", "80">> # <<"84", "A8">>
  BY DEF Continuations
<1>. QED BY <1>1, <1>2 DEF Escapes

\* The bytes there are, in a form the provers can use.
Byte == STRING \cup {"08", "EE", "<"} \cup Continuations

LEMMA KindsOfBytes ==
  /\ Continuations \subseteq Byte /\ Controls = {"08"} /\ {"08", "EE", "<"} \subseteq Byte
  /\ "EE" \notin Continuations /\ "08" \notin Continuations /\ "EE" # "08"
  /\ "<" \notin Continuations /\ "<" # "08" /\ "<" # "EE"
BY DEF Continuations, Controls, Byte

\* A sequence with one element more.
LEMMA AppendTo ==
  ASSUME NEW A, NEW s \in Seq(A), NEW t \in Seq(A), NEW b \in A, Len(t) = Len(s) + 1,
         \A i \in 1..Len(s) : s[i] = t[i], t[Len(s) + 1] = b
  PROVE  Append(s, b) = t
<1>1. /\ Append(s, b) \in Seq(A) /\ Len(Append(s, b)) = Len(s) + 1
      /\ \A i \in 1..Len(s) : Append(s, b)[i] = s[i]
      /\ Append(s, b)[Len(s) + 1] = b
  BY AppendProperties
<1>2. Len(s) \in Nat
  BY LenProperties
<1>3. \A i \in 1..(Len(s) + 1) : Append(s, b)[i] = t[i]
  BY <1>1, <1>2
<1>. QED BY <1>1, <1>2, <1>3, SeqEqual

\* Three pieces, grouped either way.
Regroups(s, t, u) == (s \o t) \o u = s \o (t \o u)

LEMMA Regrouped ==
  ASSUME NEW A, NEW s \in Seq(A), NEW t \in Seq(A), NEW u \in Seq(A) PROVE Regroups(s, t, u)
BY ConcatAssociative DEF Regroups

\* A prefix agrees as far as it goes.
LEMMA PrefixIs ==
  ASSUME NEW A, NEW s \in Seq(A), NEW t \in Seq(A)
  PROVE  IsPrefix(s, t) <=> Len(s) <= Len(t) /\ \A i \in 1..Len(s) : s[i] = t[i]
<1>1. Len(s) \in Nat /\ Len(t) \in Nat
  BY LenProperties
<1>2. CASE Len(s) <= Len(t)
  <2>1. \A i \in 1..Len(s) : s[i] \in A /\ t[i] \in A
    BY <1>1, <1>2, ElementOfSeq
  <2>2. /\ SubSeq(s, 1, Len(s)) \in Seq(A) /\ SubSeq(t, 1, Len(s)) \in Seq(A)
        /\ Len(SubSeq(s, 1, Len(s))) = Len(s) /\ Len(SubSeq(t, 1, Len(s))) = Len(s)
        /\ \A i \in 1..Len(s) : SubSeq(s, 1, Len(s))[i] = s[i] /\ SubSeq(t, 1, Len(s))[i] = t[i]
    BY <1>1, <2>1, SubSeqProperties
  <2>3. (\A i \in 1..Len(s) : s[i] = t[i]) => SubSeq(s, 1, Len(s)) = SubSeq(t, 1, Len(s))
    BY <2>2, SeqEqual
  <2>4. SubSeq(s, 1, Len(s)) = SubSeq(t, 1, Len(s)) => \A i \in 1..Len(s) : s[i] = t[i]
    BY <2>2
  <2>. QED BY <1>2, <2>3, <2>4 DEF IsPrefix
<1>3. CASE ~(Len(s) <= Len(t))
  BY <1>3 DEF IsPrefix
<1>. QED BY <1>2, <1>3

\* What is held back after a byte, and what is handed out.
Held(e) == {<<>>, <<"EE">>, <<"EE", e.escape[2]>>}

Holds(e, m, b) ==
  IF b = "EE" THEN <<"EE">>
  ELSE IF m = <<"EE">> /\ b = e.escape[2] THEN <<"EE", b>> ELSE <<>>

Single(e, b) == IF b = "08" THEN e.escape \o e.replacement ELSE <<b>>

Hands(e, m, b) ==
  IF b = "EE" THEN m
  ELSE IF m = <<"EE">> /\ b = e.escape[2] THEN <<>>
  ELSE IF m = <<"EE", e.escape[2]>> /\ b = e.escape[3] THEN e.escape \o e.escape
  ELSE m \o Single(e, b)

\* A beginning of the escape, of one byte, two and three.
FirstByte(x, y, b) ==
  Append(<<>>, b) = <<b>> /\ (IsPrefix(<<b>>, <<"EE", x, y>>) <=> b = "EE")
SecondByte(x, y, b) ==
  Append(<<"EE">>, b) = <<"EE", b>> /\ (IsPrefix(<<"EE", b>>, <<"EE", x, y>>) <=> b = x)
ThirdByte(x, y, b, c) ==
  /\ Append(<<"EE", b>>, c) = <<"EE", b, c>>
  /\ IsPrefix(<<"EE", b, c>>, <<"EE", x, y>>) <=> <<b, c>> = <<x, y>>

LEMMA Beginnings ==
  ASSUME NEW x \in Byte, NEW y \in Byte, NEW b \in Byte, NEW c \in Byte
  PROVE  FirstByte(x, y, b) /\ SecondByte(x, y, b) /\ ThirdByte(x, y, b, c)
<1>1. "EE" \in Byte
  BY KindsOfBytes
<1>2. <<>> \in Seq(Byte) /\ <<"EE">> \in Seq(Byte) /\ <<b>> \in Seq(Byte) /\ <<"EE", b>> \in Seq(Byte) /\ <<"EE", b, c>> \in Seq(Byte)
      /\ <<"EE", x, y>> \in Seq(Byte)
  BY <1>1
<1>3. IsPrefix(<<b>>, <<"EE", x, y>>) <=> b = "EE"
  <2>1. PICK s : s = <<b>>
    OBVIOUS
  <2>2. PICK t : t = <<"EE", x, y>>
    OBVIOUS
  <2>3. s \in Seq(Byte) /\ t \in Seq(Byte)
    BY <1>2, <2>1, <2>2
  <2>4. IsPrefix(s, t) <=> Len(s) <= Len(t) /\ \A i \in 1..Len(s) : s[i] = t[i]
    BY <2>3, PrefixIs
  <2>5. /\ Len(s) = 1 /\ s[1] = b
        /\ Len(t) = 3 /\ t[1] = "EE" /\ t[2] = x /\ t[3] = y
    BY <2>1, <2>2
  <2>6. IsPrefix(s, t) <=> b = "EE"
    BY <2>4, <2>5
  <2>. QED BY <2>1, <2>2, <2>6, Zenon
<1>4. IsPrefix(<<"EE", b>>, <<"EE", x, y>>) <=> b = x
  <2>1. PICK s : s = <<"EE", b>>
    OBVIOUS
  <2>2. PICK t : t = <<"EE", x, y>>
    OBVIOUS
  <2>3. s \in Seq(Byte) /\ t \in Seq(Byte)
    BY <1>2, <2>1, <2>2
  <2>4. IsPrefix(s, t) <=> Len(s) <= Len(t) /\ \A i \in 1..Len(s) : s[i] = t[i]
    BY <2>3, PrefixIs
  <2>5. /\ Len(s) = 2 /\ s[1] = "EE" /\ s[2] = b
        /\ Len(t) = 3 /\ t[1] = "EE" /\ t[2] = x /\ t[3] = y
    BY <2>1, <2>2
  <2>6. IsPrefix(s, t) <=> b = x
    BY <2>4, <2>5
  <2>. QED BY <2>1, <2>2, <2>6, Zenon
<1>5. IsPrefix(<<"EE", b, c>>, <<"EE", x, y>>) <=> <<b, c>> = <<x, y>>
  <2>1. PICK s : s = <<"EE", b, c>>
    OBVIOUS
  <2>2. PICK t : t = <<"EE", x, y>>
    OBVIOUS
  <2>3. s \in Seq(Byte) /\ t \in Seq(Byte)
    BY <1>2, <2>1, <2>2
  <2>4. IsPrefix(s, t) <=> Len(s) <= Len(t) /\ \A i \in 1..Len(s) : s[i] = t[i]
    BY <2>3, PrefixIs
  <2>5. /\ Len(s) = 3 /\ s[1] = "EE" /\ s[2] = b /\ s[3] = c
        /\ Len(t) = 3 /\ t[1] = "EE" /\ t[2] = x /\ t[3] = y
    BY <2>1, <2>2
  <2>6. IsPrefix(s, t) <=> <<b, c>> = <<x, y>>
    BY <2>4, <2>5
  <2>. QED BY <2>1, <2>2, <2>6, Zenon
<1>6. Append(<<>>, b) = <<b>>
  <2>1. PICK s : s = <<>>
    OBVIOUS
  <2>2. PICK t : t = <<b>>
    OBVIOUS
  <2>3. s \in Seq(Byte) /\ t \in Seq(Byte)
    BY <1>2, <2>1, <2>2
  <2>4. Len(s) = 0 /\ Len(t) = 1 /\ t[1] = b
    BY <2>1, <2>2
  <2>5. Len(t) = Len(s) + 1 /\ (\A i \in 1..Len(s) : s[i] = t[i]) /\ t[Len(s) + 1] = b
    BY <2>4
  <2>6. Append(s, b) = t
    BY <2>3, <2>5, AppendTo, Zenon
  <2>. QED BY <2>1, <2>2, <2>6, Zenon
<1>7. Append(<<"EE">>, b) = <<"EE", b>>
  <2>1. PICK s : s = <<"EE">>
    OBVIOUS
  <2>2. PICK t : t = <<"EE", b>>
    OBVIOUS
  <2>3. s \in Seq(Byte) /\ t \in Seq(Byte)
    BY <1>2, <2>1, <2>2
  <2>4. Len(s) = 1 /\ Len(t) = 2 /\ s[1] = "EE" /\ t[1] = "EE" /\ t[2] = b
    BY <2>1, <2>2
  <2>5. Len(t) = Len(s) + 1 /\ (\A i \in 1..Len(s) : s[i] = t[i]) /\ t[Len(s) + 1] = b
    BY <2>4
  <2>6. Append(s, b) = t
    BY <2>3, <2>5, AppendTo, Zenon
  <2>. QED BY <2>1, <2>2, <2>6, Zenon
<1>8. Append(<<"EE", b>>, c) = <<"EE", b, c>>
  <2>1. PICK s : s = <<"EE", b>>
    OBVIOUS
  <2>2. PICK t : t = <<"EE", b, c>>
    OBVIOUS
  <2>3. s \in Seq(Byte) /\ t \in Seq(Byte)
    BY <1>2, <2>1, <2>2
  <2>4. Len(s) = 2 /\ Len(t) = 3 /\ s[1] = "EE" /\ s[2] = b /\ t[1] = "EE" /\ t[2] = b /\ t[3] = c
    BY <2>1, <2>2
  <2>5. Len(t) = Len(s) + 1 /\ (\A i \in 1..Len(s) : s[i] = t[i]) /\ t[Len(s) + 1] = c
    BY <2>4
  <2>6. Append(s, c) = t
    BY <2>3, <2>5, AppendTo, Zenon
  <2>. QED BY <2>1, <2>2, <2>6, Zenon
<1>. QED BY <1>3, <1>4, <1>5, <1>6, <1>7, <1>8, Zenon DEF FirstByte, SecondByte, ThirdByte

\* What one byte does to what is held back and handed out.
LEMMA SiftedIs ==
  ASSUME NEW e \in Escapes, NEW m \in Held(e), NEW o \in Seq(Byte), NEW b \in Byte
  PROVE  /\ Sifted(e, [match |-> m, output |-> o], b) =
              [match |-> Holds(e, m, b), output |-> o \o Hands(e, m, b)]
         /\ Holds(e, m, b) \in Held(e) /\ Hands(e, m, b) \in Seq(Byte)
<1>1. PICK x, y, z, w \in Continuations :
           /\ e = [escape |-> <<"EE", x, y>>, replacement |-> <<"EE", z, w>>]
           /\ <<x, y>> # <<z, w>>
  BY EscapeBytes
<1>2. /\ e.escape = <<"EE", x, y>> /\ e.replacement = <<"EE", z, w>>
      /\ e.escape[1] = "EE" /\ e.escape[2] = x /\ e.escape[3] = y
  BY <1>1
<1>3. x \in Byte /\ y \in Byte /\ "EE" \in Byte /\ z \in Byte /\ w \in Byte /\ x # "EE" /\ y # "EE"
  BY KindsOfBytes
<1> DEFINE f == [match |-> m, output |-> o]
           matched == Append(f.match, b)
           flushed == f.output \o f.match
           single == IF b \in Controls THEN e.escape \o [c \in Controls |-> e.replacement][b] ELSE <<b>>
<1>4. Sifted(e, f, b) =
        CASE matched = e.escape -> [match |-> <<>>, output |-> f.output \o e.escape \o e.escape]
          [] matched # e.escape /\ IsPrefix(matched, e.escape) -> [f EXCEPT !.match = matched]
          [] ~IsPrefix(matched, e.escape) /\ b = e.escape[1] ->
               [match |-> <<b>>, output |-> flushed]
          [] OTHER -> [match |-> <<>>, output |-> flushed \o single]
  BY Zenon DEF Sifted
<1>5. single = Single(e, b)
  BY KindsOfBytes DEF Single
<1>6. m = <<>> \/ m = <<"EE">> \/ m = <<"EE", x>>
  BY <1>2 DEF Held
<1>7. m \in Seq(Byte) /\ e.escape \in Seq(Byte) /\ Single(e, b) \in Seq(Byte)
  <2>1. <<"EE", x>> \in Seq(Byte) /\ <<"EE">> \in Seq(Byte) /\ <<>> \in Seq(Byte)
    BY <1>3
  <2>2. <<"EE", x, y>> \in Seq(Byte) /\ <<"EE", z, w>> \in Seq(Byte) /\ <<b>> \in Seq(Byte)
    BY <1>3
  <2>3. e.escape \o e.replacement \in Seq(Byte)
    BY <1>2, <2>2, ConcatProperties
  <2>. QED BY <1>2, <1>6, <2>1, <2>2, <2>3 DEF Single
<1>8. /\ o \o <<>> = o
      /\ (o \o e.escape) \o e.escape = o \o (e.escape \o e.escape)
      /\ (o \o m) \o Single(e, b) = o \o (m \o Single(e, b))
      /\ e.escape \o e.escape \in Seq(Byte) /\ m \o Single(e, b) \in Seq(Byte)
  <2>1. o \o <<>> = o
    BY <1>7, ConcatEmptySeq
  <2>2. (o \o e.escape) \o e.escape = o \o (e.escape \o e.escape)
    <3>1. PICK v \in Seq(Byte) : v = e.escape
      BY <1>7
    <3>2. (o \o v) \o v = o \o (v \o v)
      <4>1. Regroups(o, v, v)
        BY <1>7, <3>1, Regrouped
      <4>. QED BY <4>1, Zenon DEF Regroups
    <3>. QED BY <3>1, <3>2, Zenon
  <2>3. (o \o m) \o Single(e, b) = o \o (m \o Single(e, b))
    <3>1. PICK u \in Seq(Byte) : u = Single(e, b)
      BY <1>7
    <3>2. (o \o m) \o u = o \o (m \o u)
      <4>1. Regroups(o, m, u)
        BY <1>7, <3>1, Regrouped
      <4>. QED BY <4>1, Zenon DEF Regroups
    <3>. QED BY <3>1, <3>2, Zenon
  <2>4. e.escape \o e.escape \in Seq(Byte) /\ m \o Single(e, b) \in Seq(Byte)
    BY <1>7, ConcatProperties
  <2>. QED BY <2>1, <2>2, <2>3, <2>4
<1>9. f.match = m /\ f.output = o /\ \A n : [f EXCEPT !.match = n] = [match |-> n, output |-> o]
  OBVIOUS
<1>10. Holds(e, m, b) \in Held(e) /\ Hands(e, m, b) \in Seq(Byte)
  <2>1. Holds(e, m, b) \in Held(e)
    BY DEF Holds, Held
  <2>2. <<>> \in Seq(Byte)
    OBVIOUS
  <2>. QED BY <1>7, <1>8, <2>1, <2>2 DEF Hands
<1>11. PICK g : g = matched
  OBVIOUS
<1>12. /\ g = e.escape => Sifted(e, f, b) = [match |-> <<>>, output |-> o \o (e.escape \o e.escape)]
       /\ g # e.escape /\ IsPrefix(g, e.escape) => Sifted(e, f, b) = [match |-> g, output |-> o]
       /\ ~IsPrefix(g, e.escape) /\ g # e.escape /\ b = "EE" =>
            Sifted(e, f, b) = [match |-> <<b>>, output |-> o \o m]
       /\ ~IsPrefix(g, e.escape) /\ g # e.escape /\ b # "EE" =>
            Sifted(e, f, b) = [match |-> <<>>, output |-> o \o (m \o Single(e, b))]
  <2> HIDE DEF f, single
  <2>1. Sifted(e, f, b) =
          CASE g = e.escape -> [match |-> <<>>, output |-> o \o e.escape \o e.escape]
            [] g # e.escape /\ IsPrefix(g, e.escape) -> [match |-> g, output |-> o]
            [] ~IsPrefix(g, e.escape) /\ b = "EE" -> [match |-> <<b>>, output |-> o \o m]
            [] OTHER -> [match |-> <<>>, output |-> o \o m \o single]
    BY <1>2, <1>4, <1>9, <1>11
  <2>2. PICK u : u = single
    OBVIOUS
  <2>3. PICK v : v = e.escape
    OBVIOUS
  <2>4. o \o v \o v = o \o (v \o v) /\ o \o m \o u = o \o (m \o u) /\ u = Single(e, b)
    BY <1>5, <1>8, <2>2, <2>3, Zenon
  <2>5. Sifted(e, f, b) =
          CASE g = v -> [match |-> <<>>, output |-> o \o (v \o v)]
            [] g # v /\ IsPrefix(g, v) -> [match |-> g, output |-> o]
            [] ~IsPrefix(g, v) /\ b = "EE" -> [match |-> <<b>>, output |-> o \o m]
            [] OTHER -> [match |-> <<>>, output |-> o \o (m \o u)]
    BY <2>1, <2>2, <2>3, <2>4
  <2>6. PICK q \in BOOLEAN : q <=> IsPrefix(g, v)
    <3>1. IsPrefix(g, v) \in BOOLEAN
      BY DEF IsPrefix
    <3>. QED BY <3>1
  <2>7. Sifted(e, f, b) =
          CASE g = v -> [match |-> <<>>, output |-> o \o (v \o v)]
            [] g # v /\ q -> [match |-> g, output |-> o]
            [] ~q /\ b = "EE" -> [match |-> <<b>>, output |-> o \o m]
            [] OTHER -> [match |-> <<>>, output |-> o \o (m \o u)]
    BY <2>5, <2>6
  <2>8. g = v => q
    <3>1. CASE g = v
      <4>1. IsPrefix(v, v)
        BY DEF IsPrefix
      <4>. QED BY <2>6, <3>1, <4>1
    <3>. QED BY <3>1
  <2>9. /\ g = v => Sifted(e, f, b) = [match |-> <<>>, output |-> o \o (v \o v)]
        /\ g # v /\ q => Sifted(e, f, b) = [match |-> g, output |-> o]
        /\ ~q /\ g # v /\ b = "EE" => Sifted(e, f, b) = [match |-> <<b>>, output |-> o \o m]
        /\ ~q /\ g # v /\ b # "EE" =>
             Sifted(e, f, b) = [match |-> <<>>, output |-> o \o (m \o u)]
    BY <2>6, <2>7, <2>8
  <2>. QED BY <2>3, <2>4, <2>6, <2>9, Zenon
<1>13. CASE m = <<>>
  <2>1. g = <<b>> /\ (IsPrefix(g, e.escape) <=> b = "EE")
    <3>1. (IsPrefix(<<b>>, <<"EE", x, y>>) <=> b = "EE") /\ Append(<<>>, b) = <<b>>
      <4>1. FirstByte(x, y, b)
        BY <1>3, Beginnings, Zenon
      <4>. QED BY <4>1, Zenon DEF FirstByte
    <3>. QED BY <1>2, <1>9, <1>11, <1>13, <3>1, Zenon
  <2>2. g # e.escape /\ m # <<"EE">> /\ m # <<"EE", x>>
    BY <1>2, <1>13, <2>1
  <2>3. CASE b = "EE"
    BY <1>8, <1>10, <1>12, <1>13, <2>1, <2>2, <2>3 DEF Holds, Hands
  <2>4. CASE b # "EE"
    BY <1>2, <1>10, <1>12, <2>1, <2>2, <2>4 DEF Holds, Hands
  <2>. QED BY <2>3, <2>4
<1>14. CASE m = <<"EE">>
  <2>1. g = <<"EE", b>> /\ (IsPrefix(g, e.escape) <=> b = x)
    <3>1. (IsPrefix(<<"EE", b>>, <<"EE", x, y>>) <=> b = x) /\ Append(<<"EE">>, b) = <<"EE", b>>
      <4>1. SecondByte(x, y, b)
        BY <1>3, Beginnings, Zenon
      <4>. QED BY <4>1, Zenon DEF SecondByte
    <3>. QED BY <1>2, <1>9, <1>11, <1>14, <3>1, Zenon
  <2>2. g # e.escape /\ m # <<"EE", x>>
    BY <1>2, <1>14, <2>1
  <2>3. CASE b = "EE"
    BY <1>3, <1>10, <1>12, <2>1, <2>2, <2>3 DEF Holds, Hands
  <2>4. CASE b = x
    BY <1>2, <1>3, <1>8, <1>10, <1>12, <1>14, <2>1, <2>2, <2>4 DEF Holds, Hands
  <2>5. CASE b # "EE" /\ b # x
    BY <1>2, <1>10, <1>12, <2>1, <2>2, <2>5 DEF Holds, Hands
  <2>. QED BY <2>3, <2>4, <2>5
<1>15. CASE m = <<"EE", x>>
  <2>1. g = <<"EE", x, b>> /\ (IsPrefix(g, e.escape) <=> b = y) /\ (g = e.escape <=> b = y)
    <3>1. /\ IsPrefix(<<"EE", x, b>>, <<"EE", x, y>>) <=> <<x, b>> = <<x, y>>
          /\ Append(<<"EE", x>>, b) = <<"EE", x, b>>
      <4>1. ThirdByte(x, y, x, b)
        BY <1>3, Beginnings, Zenon
      <4>. QED BY <4>1, Zenon DEF ThirdByte
    <3>2. /\ <<x, b>> = <<x, y>> <=> b = y
          /\ <<"EE", x, b>> = <<"EE", x, y>> <=> b = y
      OBVIOUS
    <3>. QED BY <1>2, <1>9, <1>11, <1>15, <3>1, <3>2, Zenon
  <2>2. m # <<"EE">> /\ m = <<"EE", e.escape[2]>>
    BY <1>2, <1>15
  <2>3. CASE b = "EE"
    BY <1>3, <1>10, <1>12, <2>1, <2>2, <2>3 DEF Holds, Hands
  <2>4. CASE b = y
    BY <1>2, <1>3, <1>10, <1>12, <2>1, <2>2, <2>4 DEF Holds, Hands
  <2>5. CASE b # "EE" /\ b # y
    BY <1>2, <1>10, <1>12, <2>1, <2>2, <2>5 DEF Holds, Hands
  <2>. QED BY <2>3, <2>4, <2>5
<1>. QED BY <1>6, <1>13, <1>14, <1>15

\* A byte more at the end of two pieces.
LEMMA ConcatAppend ==
  ASSUME NEW A, NEW s \in Seq(A), NEW t \in Seq(A), NEW b \in A
  PROVE  s \o Append(t, b) = Append(s \o t, b)
<1>1. /\ Append(t, b) \in Seq(A) /\ Len(Append(t, b)) = Len(t) + 1
      /\ \A i \in 1..Len(t) : Append(t, b)[i] = t[i]
      /\ Append(t, b)[Len(t) + 1] = b
  BY AppendProperties
<1>2. Len(s) \in Nat /\ Len(t) \in Nat
  BY LenProperties
<1>3. PICK u \in Seq(A) : u = Append(t, b)
  BY <1>1
<1>4. /\ s \o t \in Seq(A) /\ Len(s \o t) = Len(s) + Len(t)
      /\ \A i \in 1..(Len(s) + Len(t)) :
           (s \o t)[i] = IF i <= Len(s) THEN s[i] ELSE t[i - Len(s)]
  BY ConcatProperties
<1>5. /\ s \o u \in Seq(A) /\ Len(s \o u) = Len(s) + Len(u)
      /\ \A i \in 1..(Len(s) + Len(u)) :
           (s \o u)[i] = IF i <= Len(s) THEN s[i] ELSE u[i - Len(s)]
  BY ConcatProperties
<1>6. PICK v \in Seq(A) : v = s \o t
  BY <1>4
<1>7. PICK w \in Seq(A) : w = s \o u
  BY <1>5
<1>8. Len(w) = Len(v) + 1 /\ w[Len(v) + 1] = b
  <2>1. Len(v) = Len(s) + Len(t) /\ Len(w) = Len(s) + Len(t) + 1
    BY <1>1, <1>2, <1>3, <1>4, <1>5, <1>6, <1>7
  <2>2. w[Len(s) + Len(t) + 1] = u[Len(t) + 1]
    <3>1. /\ Len(s) + Len(t) + 1 \in 1..(Len(s) + Len(u)) /\ ~(Len(s) + Len(t) + 1 <= Len(s))
          /\ (Len(s) + Len(t) + 1) - Len(s) = Len(t) + 1
      BY <1>1, <1>2, <1>3
    <3>. QED BY <1>5, <1>7, <3>1
  <2>. QED BY <1>1, <1>2, <1>3, <2>1, <2>2
<1>9. \A i \in 1..Len(v) : v[i] = w[i]
  <2> TAKE i \in 1..Len(v)
  <2>1. Len(v) = Len(s) + Len(t) /\ Len(u) = Len(t) + 1
    BY <1>1, <1>3, <1>4, <1>6
  <2>2. v[i] = IF i <= Len(s) THEN s[i] ELSE t[i - Len(s)]
    BY <1>4, <1>6, <2>1
  <2>3. w[i] = IF i <= Len(s) THEN s[i] ELSE u[i - Len(s)]
    BY <1>2, <1>5, <1>7, <2>1
  <2>4. ~(i <= Len(s)) => i - Len(s) \in 1..Len(t)
    BY <1>2, <2>1
  <2>5. ~(i <= Len(s)) => u[i - Len(s)] = t[i - Len(s)]
    BY <1>1, <1>3, <2>4
  <2>. QED BY <2>2, <2>3, <2>5
<1>10. Append(v, b) = w
  BY <1>8, <1>9, AppendTo
<1>. QED BY <1>3, <1>6, <1>7, <1>10, Zenon

\* What is held back are bytes.
LEMMA HeldBytes ==
  ASSUME NEW e \in Escapes PROVE <<>> \in Held(e) /\ Held(e) \subseteq Seq(Byte)
<1>1. PICK x, y, z, w \in Continuations : e.escape = <<"EE", x, y>>
  BY EscapeBytes
<1>2. x \in Byte /\ "EE" \in Byte /\ e.escape[2] = x
  BY <1>1, KindsOfBytes
<1>3. <<>> \in Seq(Byte) /\ <<"EE">> \in Seq(Byte) /\ <<"EE", x>> \in Seq(Byte)
  BY <1>2
<1>4. Held(e) = {<<>>, <<"EE">>, <<"EE", x>>}
  BY <1>2, Zenon DEF Held
<1>. QED BY <1>3, <1>4

NothingYet == [match |-> <<>>, output |-> <<>>]

\* What is handed out is added to what there is, whatever that is.
SiftsApart(e, s) ==
  \A m \in Held(e) : \E n \in Held(e), p \in Seq(Byte) :
    \A o \in Seq(Byte) :
      SiftedAll(e, [match |-> m, output |-> o], s) = [match |-> n, output |-> o \o p]

LEMMA SiftedApart ==
  ASSUME NEW e \in Escapes, NEW s \in Seq(Byte) PROVE SiftsApart(e, s)
<1> DEFINE T == {t \in Seq(Byte) : SiftsApart(e, t)}
<1>1. <<>> \in T
  <2>1. <<>> \in Seq(Byte)
    OBVIOUS
  <2>2. ASSUME NEW m \in Held(e), NEW o \in Seq(Byte)
        PROVE  SiftedAll(e, [match |-> m, output |-> o], <<>>) = [match |-> m, output |-> o \o <<>>]
    <3>1. PICK f : f = [match |-> m, output |-> o]
      OBVIOUS
    <3>2. "EE" \in Byte
      BY KindsOfBytes
    <3>3. SiftedAll(e, f, <<>>) = f
      BY <2>1, <3>2, SiftedFold
    <3>4. o \o <<>> = o
      BY ConcatEmptySeq
    <3>. QED BY <3>1, <3>3, <3>4, Zenon
  <2>. QED BY <2>1, <2>2, Zenon DEF SiftsApart
<1>2. ASSUME NEW t \in Seq(Byte), NEW b \in Byte, t \in T PROVE Append(t, b) \in T
  <2>1. Append(t, b) \in Seq(Byte)
    BY AppendProperties
  <2>2. ASSUME NEW m \in Held(e)
        PROVE  \E n \in Held(e), p \in Seq(Byte) :
                 \A o \in Seq(Byte) :
                   SiftedAll(e, [match |-> m, output |-> o], Append(t, b))
                     = [match |-> n, output |-> o \o p]
    <3>1. PICK n \in Held(e), p \in Seq(Byte) :
            \A o \in Seq(Byte) :
              SiftedAll(e, [match |-> m, output |-> o], t) = [match |-> n, output |-> o \o p]
      BY <1>2, <2>2, Zenon DEF SiftsApart
    <3>2. Holds(e, n, b) \in Held(e) /\ Hands(e, n, b) \in Seq(Byte)
      <4>1. <<>> \in Seq(Byte)
        OBVIOUS
      <4>. QED BY <4>1, SiftedIs, Zenon
    <3>3. p \o Hands(e, n, b) \in Seq(Byte)
      BY <3>2, ConcatProperties
    <3>4. ASSUME NEW o \in Seq(Byte)
          PROVE  SiftedAll(e, [match |-> m, output |-> o], Append(t, b))
                   = [match |-> Holds(e, n, b), output |-> o \o (p \o Hands(e, n, b))]
      <4>1. PICK f : f = [match |-> m, output |-> o]
        OBVIOUS
      <4>2. SiftedAll(e, f, Append(t, b)) = Sifted(e, SiftedAll(e, f, t), b)
        BY SiftedFold
      <4>3. SiftedAll(e, f, t) = [match |-> n, output |-> o \o p]
        BY <3>1, <4>1, Zenon
      <4>4. o \o p \in Seq(Byte)
        BY ConcatProperties
      <4>5. Sifted(e, [match |-> n, output |-> o \o p], b)
              = [match |-> Holds(e, n, b), output |-> (o \o p) \o Hands(e, n, b)]
        BY <4>4, SiftedIs, Zenon
      <4>6. PICK h \in Seq(Byte) : h = Hands(e, n, b)
        BY <3>2
      <4>7. (o \o p) \o h = o \o (p \o h)
        <5>1. Regroups(o, p, h)
          BY Regrouped
        <5>. QED BY <5>1, Zenon DEF Regroups
      <4>. QED BY <4>1, <4>2, <4>3, <4>5, <4>6, <4>7, Zenon
    <3>. QED BY <3>2, <3>3, <3>4, Zenon
  <2>. QED BY <2>1, <2>2, Zenon DEF SiftsApart
<1>3. Seq(Byte) \subseteq T
  <2> HIDE DEF T
  <2>. QED BY <1>1, <1>2, SequenceInduction
<1>. QED BY <1>3

\* Two reads are as one.
AsOne(e, f, s, t) == SiftedAll(e, f, s \o t) = SiftedAll(e, SiftedAll(e, f, s), t)

LEMMA SiftedOn ==
  ASSUME NEW e, NEW f, NEW s \in Seq(Byte), NEW t \in Seq(Byte)
  PROVE  AsOne(e, f, s, t)
<1> DEFINE T == {u \in Seq(Byte) : SiftedAll(e, f, s \o u) = SiftedAll(e, SiftedAll(e, f, s), u)}
<1>1. <<>> \in T
  <2>1. <<>> \in Seq(Byte) /\ "EE" \in Byte
    BY KindsOfBytes
  <2>2. s \o <<>> = s
    BY ConcatEmptySeq
  <2>3. PICK g : g = SiftedAll(e, f, s)
    OBVIOUS
  <2>4. SiftedAll(e, g, <<>>) = g
    BY <2>1, SiftedFold
  <2>. QED BY <2>1, <2>2, <2>3, <2>4, Zenon
<1>2. ASSUME NEW u \in Seq(Byte), NEW b \in Byte, u \in T PROVE Append(u, b) \in T
  <2>1. Append(u, b) \in Seq(Byte) /\ s \o u \in Seq(Byte)
    BY AppendProperties, ConcatProperties
  <2>2. s \o Append(u, b) = Append(s \o u, b)
    BY ConcatAppend
  <2>3. PICK v \in Seq(Byte) : v = s \o u
    BY <2>1
  <2>4. PICK g : g = SiftedAll(e, f, s)
    OBVIOUS
  <2>5. SiftedAll(e, f, Append(v, b)) = Sifted(e, SiftedAll(e, f, v), b)
    BY SiftedFold
  <2>6. SiftedAll(e, g, Append(u, b)) = Sifted(e, SiftedAll(e, g, u), b)
    BY SiftedFold
  <2>7. SiftedAll(e, f, v) = SiftedAll(e, g, u)
    BY <1>2, <2>3, <2>4
  <2>8. SiftedAll(e, f, s \o Append(u, b)) = SiftedAll(e, g, Append(u, b))
    BY <2>2, <2>3, <2>5, <2>6, <2>7, Zenon
  <2>. QED BY <2>1, <2>4, <2>8, Zenon
<1>3. Seq(Byte) \subseteq T
  <2> HIDE DEF T
  <2>. QED BY <1>1, <1>2, SequenceInduction
<1>. QED BY <1>3 DEF AsOne

(***************************************************************************)
(* Whatever the sizes of the reads and however they are asked for, the     *)
(* parser is given the source filtered in one piece.                       *)
(***************************************************************************)

Whole(e, bytes) ==
  SiftedAll(e, NothingYet, bytes).output \o SiftedAll(e, NothingYet, bytes).match

\* A beginning of the source has been read and filtered, the rest has not.
ReadInv(e) ==
  /\ input \in Seq(Byte) /\ output \in Seq(Byte) /\ taken \in Seq(Byte) /\ match \in Held(e)
  /\ eof \in BOOLEAN
  /\ \E read \in Seq(Byte) :
       /\ Bytes(source) = read \o input
       /\ ~eof => SiftedAll(e, NothingYet, read) = [match |-> match, output |-> taken \o output]
       /\ eof => /\ input = <<>> /\ match = <<>>
                 /\ Whole(e, Bytes(source)) = taken \o output

\* The steps of the filter, for either escape.
Fills(e, n) ==
  /\ n \in Nat /\ n <= Len(input) /\ output = <<>>
  /\ match' = SiftedAll(e, [match |-> match, output |-> <<>>], SubSeq(input, 1, n)).match
  /\ output' = SiftedAll(e, [match |-> match, output |-> <<>>], SubSeq(input, 1, n)).output
  /\ input' = SubSeq(input, n + 1, Len(input))
  /\ eof' = eof /\ taken' = taken /\ n > 0

FillsLast ==
  /\ output = <<>> /\ input = <<>> /\ ~eof
  /\ output' = match /\ match' = <<>> /\ eof' = TRUE
  /\ input' = input /\ taken' = taken

Takes(n) ==
  /\ n \in 1..Len(output)
  /\ taken' = taken \o SubSeq(output, 1, n)
  /\ output' = SubSeq(output, n + 1, Len(output))
  /\ input' = input /\ match' = match /\ eof' = eof

Filters(e) == (\E n \in Nat : Fills(e, n)) \/ FillsLast \/ (\E n \in 1..Len(output) : Takes(n))

LEMMA FiltersIs ==
  /\ Conversion!Next => Filters(ConversionEscape)
  /\ Audit!Next => Filters(AuditEscape)
<1>1. ASSUME Conversion!Next PROVE Filters(ConversionEscape)
  <2>1. CASE \E n \in 1..Capacity : n <= Len(input) /\ Conversion!Fill(n)
    <3>1. PICK n \in 1..Capacity : n <= Len(input) /\ Conversion!Fill(n)
      BY <2>1
    <3>2. n \in Nat /\ n > 0
      BY CapacityAssumption
    <3>3. PICK r : r = Conversion!FilteredAll([match |-> match, output |-> <<>>], SubSeq(input, 1, n))
      OBVIOUS
    <3>4. /\ output = <<>> /\ match' = r.match /\ output' = r.output
          /\ input' = SubSeq(input, n + 1, Len(input)) /\ eof' = eof /\ taken' = taken
      BY <3>1, <3>3 DEF Conversion!Fill
    <3>5. r = SiftedAll(ConversionEscape, [match |-> match, output |-> <<>>], SubSeq(input, 1, n))
      BY <3>3, ConversionSifts, Zenon
    <3>6. Fills(ConversionEscape, n)
      BY <3>1, <3>2, <3>4, <3>5, Zenon DEF Fills
    <3>. QED BY <3>2, <3>6, Zenon DEF Filters
  <2>2. CASE Conversion!FillLast
    BY <2>2 DEF Conversion!FillLast, Filters, FillsLast
  <2>3. CASE \E n \in 1..Len(output) : Conversion!Take(n)
    <3>1. PICK n \in 1..Len(output) : Conversion!Take(n)
      BY <2>3
    <3>2. Takes(n)
      BY <3>1 DEF Conversion!Take, Takes
    <3>. QED BY <3>2, Zenon DEF Filters
  <2>. QED BY <1>1, <2>1, <2>2, <2>3, Zenon DEF Conversion!Next
<1>2. ASSUME Audit!Next PROVE Filters(AuditEscape)
  <2>1. CASE \E n \in 1..Capacity : n <= Len(input) /\ Audit!Fill(n)
    <3>1. PICK n \in 1..Capacity : n <= Len(input) /\ Audit!Fill(n)
      BY <2>1
    <3>2. n \in Nat /\ n > 0
      BY CapacityAssumption
    <3>3. PICK r : r = Audit!FilteredAll([match |-> match, output |-> <<>>], SubSeq(input, 1, n))
      OBVIOUS
    <3>4. /\ output = <<>> /\ match' = r.match /\ output' = r.output
          /\ input' = SubSeq(input, n + 1, Len(input)) /\ eof' = eof /\ taken' = taken
      BY <3>1, <3>3 DEF Audit!Fill
    <3>5. r = SiftedAll(AuditEscape, [match |-> match, output |-> <<>>], SubSeq(input, 1, n))
      BY <3>3, AuditSifts, Zenon
    <3>6. Fills(AuditEscape, n)
      BY <3>1, <3>2, <3>4, <3>5, Zenon DEF Fills
    <3>. QED BY <3>2, <3>6, Zenon DEF Filters
  <2>2. CASE Audit!FillLast
    BY <2>2 DEF Audit!FillLast, Filters, FillsLast
  <2>3. CASE \E n \in 1..Len(output) : Audit!Take(n)
    <3>1. PICK n \in 1..Len(output) : Audit!Take(n)
      BY <2>3
    <3>2. Takes(n)
      BY <3>1 DEF Audit!Take, Takes
    <3>. QED BY <3>2, Zenon DEF Filters
  <2>. QED BY <1>2, <2>1, <2>2, <2>3, Zenon DEF Audit!Next
<1>. QED BY <1>1, <1>2

\* A sequence in two pieces.
Splits(s, n) == SubSeq(s, 1, n) \o SubSeq(s, n + 1, Len(s)) = s

LEMMA Split ==
  ASSUME NEW A, NEW s \in Seq(A), NEW n \in 0..Len(s)
  PROVE  /\ SubSeq(s, 1, n) \in Seq(A) /\ SubSeq(s, n + 1, Len(s)) \in Seq(A)
         /\ Len(SubSeq(s, 1, n)) = n /\ Len(SubSeq(s, n + 1, Len(s))) = Len(s) - n
         /\ Splits(s, n)
<1>1. Len(s) \in Nat
  BY LenProperties
<1>2. \A i \in 1..Len(s) : s[i] \in A
  BY ElementOfSeq
<1>3. SubSeq(s, 1, n) \in Seq(A) /\ Len(SubSeq(s, 1, n)) = n
  BY <1>1, <1>2, SubSeqProperties
<1>4. SubSeq(s, n + 1, Len(s)) \in Seq(A) /\ Len(SubSeq(s, n + 1, Len(s))) = Len(s) - n
  BY <1>1, <1>2, SubSeqProperties
<1>5. SubSeq(s, 1, n) \o SubSeq(s, n + 1, Len(s)) = SubSeq(s, 1, Len(s))
  <2>1. 1 \in 1..(Len(s) + 1) /\ n \in (1 - 1)..Len(s) /\ Len(s) \in n..Len(s)
    BY <1>1
  <2>. QED BY <2>1, ConcatAdjacentSubSeq
<1>6. SubSeq(s, 1, Len(s)) = s
  BY SubSeqFull
<1>. QED BY <1>3, <1>4, <1>5, <1>6, Zenon DEF Splits

\* A read of any length.
LEMMA FillsKeep ==
  ASSUME NEW e \in Escapes, ReadInv(e), NEW n \in Nat, Fills(e, n), source' = source
  PROVE  ReadInv(e)'
<1>1. /\ input \in Seq(Byte) /\ taken \in Seq(Byte) /\ match \in Held(e) /\ output = <<>>
      /\ eof \in BOOLEAN
  BY DEF ReadInv, Fills
<1>2. PICK read \in Seq(Byte) :
        /\ Bytes(source) = read \o input
        /\ ~eof => SiftedAll(e, NothingYet, read) = [match |-> match, output |-> taken \o output]
        /\ eof => input = <<>>
  BY Zenon DEF ReadInv
<1>3. n \in 0..Len(input) /\ n > 0
  <2>1. Len(input) \in Nat
    BY <1>1, LenProperties
  <2>. QED BY <2>1 DEF Fills
<1>4. PICK piece : piece = SubSeq(input, 1, n)
  OBVIOUS
<1>5. PICK rest : rest = SubSeq(input, n + 1, Len(input))
  OBVIOUS
<1>6. piece \in Seq(Byte) /\ rest \in Seq(Byte) /\ piece \o rest = input
  BY <1>1, <1>3, <1>4, <1>5, Split DEF Splits
<1>7. ~eof
  <2>1. Len(<<>>) = 0
    OBVIOUS
  <2>. QED BY <1>2, <1>3, <2>1
<1>8. PICK m \in Held(e), p \in Seq(Byte) :
        \A o \in Seq(Byte) :
          SiftedAll(e, [match |-> match, output |-> o], piece) = [match |-> m, output |-> o \o p]
  <2>1. SiftsApart(e, piece)
    BY <1>6, SiftedApart
  <2>. QED BY <1>1, <2>1, Zenon DEF SiftsApart
<1>9. SiftedAll(e, [match |-> match, output |-> <<>>], piece) = [match |-> m, output |-> p]
  <2>1. <<>> \in Seq(Byte) /\ <<>> \o p = p
    BY ConcatEmptySeq
  <2>. QED BY <1>8, <2>1, Zenon
<1>10. match' = m /\ output' = p
  <2>1. PICK r : r = SiftedAll(e, [match |-> match, output |-> <<>>], piece)
    OBVIOUS
  <2>2. match' = r.match /\ output' = r.output
    BY <1>4, <2>1, Zenon DEF Fills
  <2>. QED BY <1>9, <2>1, <2>2
<1>11. SiftedAll(e, NothingYet, read \o piece) = [match |-> m, output |-> taken \o p]
  <2>1. taken \o output = taken
    BY <1>1, ConcatEmptySeq
  <2>2. PICK g : g = SiftedAll(e, NothingYet, read)
    OBVIOUS
  <2>3. g = [match |-> match, output |-> taken]
    BY <1>2, <1>7, <2>1, <2>2, Zenon
  <2>4. SiftedAll(e, NothingYet, read \o piece) = SiftedAll(e, g, piece)
    <3>1. AsOne(e, NothingYet, read, piece)
      BY <1>6, SiftedOn
    <3>. QED BY <2>2, <3>1, Zenon DEF AsOne
  <2>. QED BY <1>1, <1>8, <2>3, <2>4, Zenon
<1>12. Bytes(source) = (read \o piece) \o rest
  <2>1. Regroups(read, piece, rest)
    BY <1>6, Regrouped
  <2>. QED BY <1>2, <1>6, <2>1, Zenon DEF Regroups
<1>13. read \o piece \in Seq(Byte)
  BY <1>6, ConcatProperties
<1>14. input' = rest /\ taken' = taken /\ eof' = eof
  BY <1>5, Zenon DEF Fills
<1>15. Bytes(source)' = Bytes(source)
  BY DEF Bytes
<1>16. /\ Bytes(source)' = (read \o piece) \o input'
       /\ ~eof' => SiftedAll(e, NothingYet, read \o piece)
                     = [match |-> match', output |-> taken' \o output']
       /\ ~eof'
  BY <1>7, <1>10, <1>11, <1>12, <1>14, <1>15, Zenon
<1>17. /\ input' \in Seq(Byte) /\ output' \in Seq(Byte) /\ taken' \in Seq(Byte) /\ match' \in Held(e)
       /\ eof' \in BOOLEAN
  BY <1>1, <1>6, <1>8, <1>10, <1>14, Zenon
<1>. QED BY <1>13, <1>16, <1>17, Zenon DEF ReadInv

\* The end of the file.
LEMMA FillsLastKeeps ==
  ASSUME NEW e \in Escapes, ReadInv(e), FillsLast, source' = source
  PROVE  ReadInv(e)'
<1>1. /\ taken \in Seq(Byte) /\ match \in Held(e) /\ output = <<>> /\ input = <<>> /\ ~eof
  BY DEF ReadInv, FillsLast
<1>2. PICK read \in Seq(Byte) :
        /\ Bytes(source) = read \o input
        /\ ~eof => SiftedAll(e, NothingYet, read) = [match |-> match, output |-> taken \o output]
  BY Zenon DEF ReadInv
<1>3. read \o input = read /\ taken \o output = taken
  BY <1>1, ConcatEmptySeq
<1>4. SiftedAll(e, NothingYet, Bytes(source)) = [match |-> match, output |-> taken]
  BY <1>1, <1>2, <1>3, Zenon
<1>5. Whole(e, Bytes(source)) = taken \o match
  <2>1. PICK g : g = SiftedAll(e, NothingYet, Bytes(source))
    OBVIOUS
  <2>2. g.match = match /\ g.output = taken
    BY <1>4, <2>1
  <2>. QED BY <2>1, <2>2, Zenon DEF Whole
<1>6. Whole(e, Bytes(source))' = Whole(e, Bytes(source)) /\ Bytes(source)' = Bytes(source)
  BY DEF Bytes, Whole
<1>7. /\ input' = <<>> /\ output' = match /\ taken' = taken /\ match' = <<>> /\ eof' = TRUE
  BY <1>1, Zenon DEF FillsLast
<1>8. <<>> \in Seq(Byte) /\ <<>> \in Held(e) /\ match \in Seq(Byte)
  BY <1>1, HeldBytes, EmptySeq
<1>9. /\ Bytes(source)' = read \o input'
      /\ ~eof' => SiftedAll(e, NothingYet, read) = [match |-> match', output |-> taken' \o output']
      /\ eof' => /\ input' = <<>> /\ match' = <<>>
                 /\ Whole(e, Bytes(source))' = taken' \o output'
  <2>1. Bytes(source)' = read \o input'
    BY <1>1, <1>2, <1>6, <1>7, Zenon
  <2>2. eof'
    BY <1>7
  <2>3. Whole(e, Bytes(source))' = taken' \o output'
    BY <1>5, <1>6, <1>7, Zenon
  <2>. QED BY <1>7, <2>1, <2>2, <2>3, Zenon
<1>10. /\ input' \in Seq(Byte) /\ output' \in Seq(Byte) /\ taken' \in Seq(Byte) /\ match' \in Held(e)
       /\ eof' \in BOOLEAN
  <2>1. TRUE \in BOOLEAN
    OBVIOUS
  <2>. QED BY <1>1, <1>7, <1>8, <2>1, Zenon
<1>. QED BY <1>9, <1>10, Zenon DEF ReadInv

\* What the parser asks for.
LEMMA TakesKeep ==
  ASSUME NEW e \in Escapes, ReadInv(e), NEW n \in 1..Len(output), Takes(n), source' = source
  PROVE  ReadInv(e)'
<1>1. input \in Seq(Byte) /\ output \in Seq(Byte) /\ taken \in Seq(Byte) /\ match \in Held(e)
      /\ eof \in BOOLEAN
  BY DEF ReadInv
<1>2. PICK read \in Seq(Byte) :
        /\ Bytes(source) = read \o input
        /\ ~eof => SiftedAll(e, NothingYet, read) = [match |-> match, output |-> taken \o output]
        /\ eof => /\ input = <<>> /\ match = <<>>
                  /\ Whole(e, Bytes(source)) = taken \o output
  BY Zenon DEF ReadInv
<1>3. PICK piece : piece = SubSeq(output, 1, n)
  OBVIOUS
<1>4. PICK rest : rest = SubSeq(output, n + 1, Len(output))
  OBVIOUS
<1>5. piece \in Seq(Byte) /\ rest \in Seq(Byte) /\ piece \o rest = output
  <2>1. n \in 0..Len(output)
    OBVIOUS
  <2>. QED BY <1>1, <1>3, <1>4, <2>1, Split DEF Splits
<1>6. /\ taken' = taken \o piece /\ output' = rest
      /\ input' = input /\ match' = match /\ eof' = eof
  BY <1>3, <1>4, Zenon DEF Takes
<1>7. taken' \o output' = taken \o output
  <2>1. Regroups(taken, piece, rest)
    BY <1>1, <1>5, Regrouped
  <2>. QED BY <1>5, <1>6, <2>1, Zenon DEF Regroups
<1>8. Whole(e, Bytes(source))' = Whole(e, Bytes(source)) /\ Bytes(source)' = Bytes(source)
  BY DEF Bytes, Whole
<1>9. taken \o piece \in Seq(Byte)
  BY <1>1, <1>5, ConcatProperties
<1>10. /\ Bytes(source)' = read \o input'
       /\ ~eof' => SiftedAll(e, NothingYet, read) = [match |-> match', output |-> taken' \o output']
       /\ eof' => /\ input' = <<>> /\ match' = <<>>
                  /\ Whole(e, Bytes(source))' = taken' \o output'
  BY <1>2, <1>6, <1>7, <1>8, Zenon
<1>11. /\ input' \in Seq(Byte) /\ output' \in Seq(Byte) /\ taken' \in Seq(Byte) /\ match' \in Held(e)
       /\ eof' \in BOOLEAN
  BY <1>1, <1>5, <1>6, <1>9, Zenon
<1>. QED BY <1>10, <1>11, Zenon DEF ReadInv

\* Every step of a filter.
LEMMA FiltersKeep ==
  ASSUME NEW e \in Escapes, ReadInv(e), Filters(e), source' = source
  PROVE  ReadInv(e)'
BY FillsKeep, FillsLastKeeps, TakesKeep, Zenon DEF Filters

\* A reading begins.
LEMMA BeginsReading ==
  ASSUME NEW e \in Escapes, Bytes(source) \in Seq(Byte), input = Bytes(source), match = <<>>,
         output = <<>>, taken = <<>>, eof = FALSE
  PROVE  ReadInv(e)
<1>1. <<>> \in Seq(Byte) /\ <<>> \in Held(e) /\ "EE" \in Byte /\ FALSE \in BOOLEAN
  BY KindsOfBytes, HeldBytes, EmptySeq
<1>2. <<>> \o input = input /\ <<>> \o <<>> = <<>>
  BY <1>1, ConcatEmptySeq
<1>3. PICK f : f = NothingYet
  OBVIOUS
<1>4. SiftedAll(e, f, <<>>) = f
  BY <1>1, SiftedFold
<1>5. SiftedAll(e, NothingYet, <<>>) = [match |-> match, output |-> taken \o output]
  BY <1>2, <1>3, <1>4, Zenon DEF NothingYet
<1>. QED BY <1>1, <1>2, <1>5, Zenon DEF ReadInv

\* What the parser has been given at the end of the source.
LEMMA AllTaken ==
  ASSUME NEW e \in Escapes, ReadInv(e), eof, output = <<>>
  PROVE  taken = Whole(e, Bytes(source))
<1>1. taken \in Seq(Byte) /\ Whole(e, Bytes(source)) = taken \o output
  BY Zenon DEF ReadInv
<1>2. taken \o output = taken
  BY <1>1, ConcatEmptySeq
<1>. QED BY <1>1, <1>2, Zenon

(***************************************************************************)
(* Characters: what a byte, and what a character, adds to what is decoded. *)
(***************************************************************************)

Opens == {<<>>, <<"EE">>} \cup {<<"EE", x>> : x \in Continuations}
Lone == Byte \ (Continuations \cup {"EE"})
Char == {<<b>> : b \in Lone} \cup {<<"EE", x, y>> : x \in Continuations, y \in Continuations}

Decoder(c, o, v) == [chars |-> c, open |-> o, valid |-> v]

DecodesByte(c, o, b, v) ==
  /\ Len(o) \in 1..2 /\ b \notin Continuations /\ o # <<>> =>
       DecodedByte(Decoder(c, o, v), b) = Decoder(c, o, FALSE)
  /\ o = <<>> /\ b \in Continuations =>
       DecodedByte(Decoder(c, o, v), b) = Decoder(c, o, FALSE)
  /\ o = <<>> /\ b \notin Continuations /\ b # "EE" =>
       DecodedByte(Decoder(c, o, v), b) = Decoder(Append(c, <<b>>), o, v)
  /\ o = <<>> /\ b = "EE" => DecodedByte(Decoder(c, o, v), b) = Decoder(c, <<b>>, v)
  /\ Len(o) = 1 /\ b \in Continuations /\ o # <<>> =>
       DecodedByte(Decoder(c, o, v), b) = Decoder(c, Append(o, b), v)
  /\ Len(o) = 2 /\ b \in Continuations /\ o # <<>> =>
       DecodedByte(Decoder(c, o, v), b) = Decoder(Append(c, Append(o, b)), <<>>, v)

LEMMA DecodedByteIs ==
  ASSUME NEW c, NEW o, NEW b, NEW v PROVE DecodesByte(c, o, b, v)
<1>1. PICK d : d = [chars |-> c, open |-> o, valid |-> v]
  OBVIOUS
<1>2. d.chars = c /\ d.open = o /\ d.valid = v
  BY <1>1
<1>3. \A n : [d EXCEPT !.valid = n] = [chars |-> c, open |-> o, valid |-> n]
  BY <1>1
<1>4. \A n : [d EXCEPT !.chars = n] = [chars |-> n, open |-> o, valid |-> v]
  BY <1>1
<1>5. \A n : [d EXCEPT !.open = n] = [chars |-> c, open |-> n, valid |-> v]
  BY <1>1
<1>6. \A n : [d EXCEPT !.chars = n, !.open = <<>>] = [chars |-> n, open |-> <<>>, valid |-> v]
  <2> TAKE n
  <2>1. PICK e : e = [d EXCEPT !.chars = n]
    BY Zenon
  <2>2. e = [chars |-> n, open |-> o, valid |-> v]
    BY <1>4, <2>1, Zenon
  <2>3. \A k : [e EXCEPT !.open = k] = [chars |-> n, open |-> k, valid |-> v]
    BY <2>2
  <2>. QED BY <2>1, <2>3, Zenon
<1>7. PICK a : a = Append(c, <<b>>)
  OBVIOUS
<1>8. PICK p : p = Append(o, b)
  OBVIOUS
<1>9. PICK q : q = Append(c, p)
  OBVIOUS
<1>10. PICK one : one = <<b>>
  OBVIOUS
<1>11. DecodedByte(d, b) =
         CASE Len(d.open) \in 1..2 /\ b \notin Continuations -> [d EXCEPT !.valid = FALSE]
           [] d.open = <<>> /\ b \in Continuations -> [d EXCEPT !.valid = FALSE]
           [] d.open = <<>> /\ b \notin Continuations /\ b # "EE" ->
                [d EXCEPT !.chars = Append(d.chars, <<b>>)]
           [] d.open = <<>> /\ b = "EE" -> [d EXCEPT !.open = <<b>>]
           [] Len(d.open) = 1 /\ b \in Continuations -> [d EXCEPT !.open = Append(d.open, b)]
           [] Len(d.open) = 2 /\ b \in Continuations ->
                [d EXCEPT !.chars = Append(d.chars, Append(d.open, b)), !.open = <<>>]
  BY DEF DecodedByte
<1>12. DecodedByte(d, b) =
         CASE Len(o) \in 1..2 /\ b \notin Continuations -> [chars |-> c, open |-> o, valid |-> FALSE]
           [] o = <<>> /\ b \in Continuations -> [chars |-> c, open |-> o, valid |-> FALSE]
           [] o = <<>> /\ b \notin Continuations /\ b # "EE" ->
                [chars |-> a, open |-> o, valid |-> v]
           [] o = <<>> /\ b = "EE" -> [chars |-> c, open |-> one, valid |-> v]
           [] Len(o) = 1 /\ b \in Continuations -> [chars |-> c, open |-> p, valid |-> v]
           [] Len(o) = 2 /\ b \in Continuations -> [chars |-> q, open |-> <<>>, valid |-> v]
  <2>1. /\ [d EXCEPT !.chars = a] = [chars |-> a, open |-> o, valid |-> v]
        /\ [d EXCEPT !.open = one] = [chars |-> c, open |-> one, valid |-> v]
        /\ [d EXCEPT !.open = p] = [chars |-> c, open |-> p, valid |-> v]
        /\ [d EXCEPT !.chars = q, !.open = <<>>] = [chars |-> q, open |-> <<>>, valid |-> v]
    BY <1>4, <1>5, <1>6, Zenon
  <2>. QED BY <1>2, <1>3, <1>7, <1>8, <1>9, <1>10, <1>11, <2>1, Zenon
<1>13. "EE" \notin Continuations /\ Len(<<>>) = 0
  BY KindsOfBytes
<1>14. PICK l : l = Len(o)
  OBVIOUS
<1>15. PICK k \in BOOLEAN : k <=> b \in Continuations
  OBVIOUS
<1>16. o = <<>> => l = 0
  BY <1>13, <1>14
<1>17. b = "EE" => ~k
  BY <1>13, <1>15
<1>18. DecodedByte(d, b) =
         CASE l \in 1..2 /\ ~k -> [chars |-> c, open |-> o, valid |-> FALSE]
           [] o = <<>> /\ k -> [chars |-> c, open |-> o, valid |-> FALSE]
           [] o = <<>> /\ ~k /\ b # "EE" -> [chars |-> a, open |-> o, valid |-> v]
           [] o = <<>> /\ b = "EE" -> [chars |-> c, open |-> one, valid |-> v]
           [] l = 1 /\ k -> [chars |-> c, open |-> p, valid |-> v]
           [] l = 2 /\ k -> [chars |-> q, open |-> <<>>, valid |-> v]
  BY <1>12, <1>14, <1>15
<1>19. /\ l \in 1..2 /\ ~k /\ o # <<>> =>
            DecodedByte(d, b) = [chars |-> c, open |-> o, valid |-> FALSE]
       /\ o = <<>> /\ k => DecodedByte(d, b) = [chars |-> c, open |-> o, valid |-> FALSE]
       /\ o = <<>> /\ ~k /\ b # "EE" =>
            DecodedByte(d, b) = [chars |-> a, open |-> o, valid |-> v]
       /\ o = <<>> /\ b = "EE" => DecodedByte(d, b) = [chars |-> c, open |-> one, valid |-> v]
       /\ l = 1 /\ k /\ o # <<>> => DecodedByte(d, b) = [chars |-> c, open |-> p, valid |-> v]
       /\ l = 2 /\ k /\ o # <<>> => DecodedByte(d, b) = [chars |-> q, open |-> <<>>, valid |-> v]
  <2>1. CASE o = <<>>
    BY <1>16, <1>17, <1>18, <2>1
  <2>2. CASE o # <<>> /\ l \in 1..2
    BY <1>18, <2>2
  <2>. QED BY <2>1, <2>2
<1>. QED
  BY <1>1, <1>7, <1>8, <1>9, <1>10, <1>14, <1>15, <1>19, Zenon DEF Decoder, DecodesByte

\* The bytes of a character, one after the other.
StepsDecoded(c, b, v) ==
  /\ b \in Lone => DecodedByte(Decoder(c, <<>>, v), b) = Decoder(Append(c, <<b>>), <<>>, v)
  /\ b = "EE" => DecodedByte(Decoder(c, <<>>, v), b) = Decoder(c, <<"EE">>, v)
  /\ b \in Continuations => DecodedByte(Decoder(c, <<>>, v), b) = Decoder(c, <<>>, FALSE)
  /\ b \in Continuations => DecodedByte(Decoder(c, <<"EE">>, v), b) = Decoder(c, <<"EE", b>>, v)
  /\ b \notin Continuations => DecodedByte(Decoder(c, <<"EE">>, v), b) = Decoder(c, <<"EE">>, FALSE)
  /\ \A x \in Continuations :
       /\ b \in Continuations => DecodedByte(Decoder(c, <<"EE", x>>, v), b)
                                   = Decoder(Append(c, <<"EE", x, b>>), <<>>, v)
       /\ b \notin Continuations => DecodedByte(Decoder(c, <<"EE", x>>, v), b)
                                      = Decoder(c, <<"EE", x>>, FALSE)

LEMMA DecodedSteps ==
  ASSUME NEW c, NEW v, NEW b \in Byte PROVE StepsDecoded(c, b, v)
<1>1. /\ "EE" \in Byte /\ "EE" \notin Continuations /\ Continuations \subseteq Byte
  BY KindsOfBytes
<1>2. /\ <<"EE">> # <<>> /\ \A x : <<"EE", x>> # <<>>
      /\ Len(<<"EE">>) = 1 /\ \A x : Len(<<"EE", x>>) = 2
  OBVIOUS
<1>3. b \in Lone <=> b \notin Continuations /\ b # "EE"
  BY DEF Lone
<1>4. Append(<<"EE">>, b) = <<"EE", b>>
  <2>1. SecondByte(b, b, b)
    BY Beginnings, Zenon
  <2>. QED BY <2>1, Zenon DEF SecondByte
<1>5. PICK o1 : o1 = <<"EE">>
  OBVIOUS
<1>6. /\ b \notin Continuations => DecodedByte(Decoder(c, o1, v), b) = Decoder(c, o1, FALSE)
      /\ b \in Continuations => DecodedByte(Decoder(c, o1, v), b) = Decoder(c, Append(o1, b), v)
  <2>1. o1 # <<>> /\ Len(o1) = 1 /\ Len(o1) \in 1..2
    BY <1>2, <1>5
  <2>2. DecodesByte(c, o1, b, v)
    BY DecodedByteIs
  <2>. QED BY <2>1, <2>2, Zenon DEF DecodesByte
<1>7. ASSUME NEW x \in Continuations
      PROVE  /\ b \in Continuations => DecodedByte(Decoder(c, <<"EE", x>>, v), b)
                                          = Decoder(Append(c, <<"EE", x, b>>), <<>>, v)
             /\ b \notin Continuations => DecodedByte(Decoder(c, <<"EE", x>>, v), b)
                                             = Decoder(c, <<"EE", x>>, FALSE)
  <2>1. PICK o2 : o2 = <<"EE", x>>
    OBVIOUS
  <2>2. o2 # <<>> /\ Len(o2) = 2 /\ Len(o2) \in 1..2
    BY <1>2, <2>1
  <2>3. x \in Byte
    BY <1>1
  <2>4. Append(<<"EE", x>>, b) = <<"EE", x, b>>
    <3>1. ThirdByte(b, b, x, b)
      BY <2>3, Beginnings, Zenon
    <3>. QED BY <3>1, Zenon DEF ThirdByte
  <2>5. /\ b \notin Continuations => DecodedByte(Decoder(c, o2, v), b) = Decoder(c, o2, FALSE)
        /\ b \in Continuations => DecodedByte(Decoder(c, o2, v), b) = Decoder(Append(c, Append(o2, b)), <<>>, v)
    <3>1. DecodesByte(c, o2, b, v)
      BY DecodedByteIs
    <3>. QED BY <2>2, <3>1, Zenon DEF DecodesByte
  <2>. QED BY <2>1, <2>4, <2>5, Zenon
<1>8. /\ b \in Continuations => DecodedByte(Decoder(c, <<>>, v), b) = Decoder(c, <<>>, FALSE)
      /\ b \in Lone => DecodedByte(Decoder(c, <<>>, v), b) = Decoder(Append(c, <<b>>), <<>>, v)
      /\ b = "EE" => DecodedByte(Decoder(c, <<>>, v), b) = Decoder(c, <<"EE">>, v)
  <2>1. DecodesByte(c, <<>>, b, v)
    BY DecodedByteIs
  <2>. QED BY <1>3, <2>1, Zenon DEF DecodesByte
<1>. QED BY <1>4, <1>5, <1>6, <1>7, <1>8, Zenon DEF StepsDecoded

(***************************************************************************)
(* What becomes of a character: in the filter, and in the reader behind    *)
(* it.                                                                     *)
(***************************************************************************)

\* Sequences of one, two and three elements.
Tuples(a, b, c) ==
  Append(<<>>, a) = <<a>> /\ Append(<<a>>, b) = <<a, b>> /\ Append(<<a, b>>, c) = <<a, b, c>>

LEMMA TuplesAppended ==
  ASSUME NEW A, NEW a \in A, NEW b \in A, NEW c \in A PROVE Tuples(a, b, c)
<1>1. Append(<<>>, a) = <<a>>
  <2>1. PICK s : s = <<>>
    OBVIOUS
  <2>2. PICK t : t = <<a>>
    OBVIOUS
  <2>3. s \in Seq(A) /\ t \in Seq(A) /\ Len(s) = 0 /\ Len(t) = 1 /\ t[1] = a
    BY <2>1, <2>2
  <2>4. Len(t) = Len(s) + 1 /\ (\A i \in 1..Len(s) : s[i] = t[i]) /\ t[Len(s) + 1] = a
    BY <2>3
  <2>5. Append(s, a) = t
    BY <2>3, <2>4, AppendTo
  <2>. QED BY <2>1, <2>2, <2>5, Zenon
<1>2. Append(<<a>>, b) = <<a, b>>
  <2>1. PICK s : s = <<a>>
    OBVIOUS
  <2>2. PICK t : t = <<a, b>>
    OBVIOUS
  <2>3. /\ s \in Seq(A) /\ t \in Seq(A) /\ Len(s) = 1 /\ Len(t) = 2
        /\ s[1] = a /\ t[1] = a /\ t[2] = b
    BY <2>1, <2>2
  <2>4. Len(t) = Len(s) + 1 /\ (\A i \in 1..Len(s) : s[i] = t[i]) /\ t[Len(s) + 1] = b
    BY <2>3
  <2>5. Append(s, b) = t
    BY <2>3, <2>4, AppendTo, Zenon
  <2>. QED BY <2>1, <2>2, <2>5, Zenon
<1>3. Append(<<a, b>>, c) = <<a, b, c>>
  <2>1. PICK s : s = <<a, b>>
    OBVIOUS
  <2>2. PICK t : t = <<a, b, c>>
    OBVIOUS
  <2>3. /\ s \in Seq(A) /\ t \in Seq(A) /\ Len(s) = 2 /\ Len(t) = 3
        /\ s[1] = a /\ s[2] = b /\ t[1] = a /\ t[2] = b /\ t[3] = c
    BY <2>1, <2>2
  <2>4. Len(t) = Len(s) + 1 /\ (\A i \in 1..Len(s) : s[i] = t[i]) /\ t[Len(s) + 1] = c
    BY <2>3
  <2>5. Append(s, c) = t
    BY <2>3, <2>4, AppendTo, Zenon
  <2>. QED BY <2>1, <2>2, <2>5, Zenon
<1>. QED BY <1>1, <1>2, <1>3, Zenon DEF Tuples

\* One element more, and three more.
OneMore(s, a) == s \o <<a>> = Append(s, a)
ThreeMore(s, a, b, c) == s \o <<a, b, c>> = Append(Append(Append(s, a), b), c)

LEMMA More ==
  ASSUME NEW A, NEW s \in Seq(A), NEW a \in A, NEW b \in A, NEW c \in A
  PROVE  OneMore(s, a) /\ ThreeMore(s, a, b, c)
<1>1. Append(<<>>, a) = <<a>> /\ Append(<<a>>, b) = <<a, b>> /\ Append(<<a, b>>, c) = <<a, b, c>>
  <2>1. Tuples(a, b, c)
    BY TuplesAppended
  <2>. QED BY <2>1, Zenon DEF Tuples
<1>2. <<>> \in Seq(A) /\ <<a>> \in Seq(A) /\ <<a, b>> \in Seq(A)
  OBVIOUS
<1>3. s \o <<>> = s
  BY ConcatEmptySeq
<1>4. s \o <<a>> = Append(s, a)
  <2>1. s \o Append(<<>>, a) = Append(s \o <<>>, a)
    BY <1>2, ConcatAppend
  <2>. QED BY <1>1, <1>3, <2>1, Zenon
<1>5. s \o <<a, b>> = Append(Append(s, a), b)
  <2>1. PICK t \in Seq(A) : t = <<a>>
    BY <1>2
  <2>2. s \o Append(t, b) = Append(s \o t, b)
    BY ConcatAppend
  <2>. QED BY <1>1, <1>4, <2>1, <2>2, Zenon
<1>6. s \o <<a, b, c>> = Append(Append(Append(s, a), b), c)
  <2>1. PICK t \in Seq(A) : t = <<a, b>>
    BY <1>2
  <2>2. s \o Append(t, c) = Append(s \o t, c)
    BY ConcatAppend
  <2>. QED BY <1>1, <1>5, <2>1, <2>2, Zenon
<1>. QED BY <1>4, <1>6, Zenon DEF OneMore, ThreeMore

\* A character is one byte or three.
LEMMA CharBytes ==
  ASSUME NEW ch \in Char
  PROVE  /\ ch \in Seq(Byte) /\ ch # <<>>
         /\ \/ \E b \in Lone : ch = <<b>>
            \/ \E x \in Continuations, y \in Continuations : ch = <<"EE", x, y>>
<1>1. Continuations \subseteq Byte /\ "EE" \in Byte /\ Lone \subseteq Byte
  BY KindsOfBytes DEF Lone
<1>2. \/ \E b \in Lone : ch = <<b>>
      \/ \E x \in Continuations, y \in Continuations : ch = <<"EE", x, y>>
  BY DEF Char
<1>3. CASE \E b \in Lone : ch = <<b>>
  <2>1. PICK b \in Lone : ch = <<b>>
    BY <1>3
  <2>2. ch \in Seq(Byte) /\ ch # <<>>
    BY <1>1, <2>1
  <2>. QED BY <1>2, <2>2
<1>4. CASE \E x \in Continuations, y \in Continuations : ch = <<"EE", x, y>>
  <2>1. PICK x \in Continuations : \E y \in Continuations : ch = <<"EE", x, y>>
    BY <1>4
  <2>2. PICK y \in Continuations : ch = <<"EE", x, y>>
    BY <2>1
  <2>3. ch \in Seq(Byte) /\ ch # <<>>
    BY <1>1, <2>2
  <2>. QED BY <1>2, <2>3
<1>. QED BY <1>2, <1>3, <1>4

\* A character more of what is decoded.
Decodes(s, c) == Decoded(s) = Decoder(c, <<>>, TRUE)

LEMMA CharDecoded ==
  ASSUME NEW s \in Seq(Byte), NEW c, NEW ch \in Char, Decodes(s, c)
  PROVE  Decodes(s \o ch, Append(c, ch))
<1>1. Continuations \subseteq Byte /\ "EE" \in Byte /\ Lone \subseteq Byte /\ "EE" \notin Continuations
  BY KindsOfBytes DEF Lone
<1>2. ASSUME NEW t \in Seq(Byte), NEW b \in Byte
      PROVE  /\ Append(t, b) \in Seq(Byte)
             /\ Decoded(Append(t, b)) = DecodedByte(Decoded(t), b)
  BY AppendProperties, DecodedFold
<1>3. CASE \E b \in Lone : ch = <<b>>
  <2>1. PICK b \in Lone : ch = <<b>>
    BY <1>3
  <2>2. b \in Byte
    BY <1>1
  <2>3. OneMore(s, b)
    BY <2>2, More
  <2>4. Decoded(Append(s, b)) = DecodedByte(Decoded(s), b)
    BY <1>2, <2>2
  <2>5. DecodedByte(Decoder(c, <<>>, TRUE), b) = Decoder(Append(c, <<b>>), <<>>, TRUE)
    <3>1. StepsDecoded(c, b, TRUE)
      BY <2>2, DecodedSteps
    <3>. QED BY <2>2, <3>1 DEF StepsDecoded
  <2>6. s \o ch = Append(s, b)
    BY <2>1, <2>3, Zenon DEF OneMore
  <2>. QED BY <2>1, <2>4, <2>5, <2>6, Zenon DEF Decodes
<1>4. CASE \E x \in Continuations, y \in Continuations : ch = <<"EE", x, y>>
  <2>1. PICK x \in Continuations : \E y \in Continuations : ch = <<"EE", x, y>>
    BY <1>4
  <2>2. PICK y \in Continuations : ch = <<"EE", x, y>>
    BY <2>1
  <2>3. x \in Byte /\ y \in Byte
    BY <1>1
  <2>4. ThreeMore(s, "EE", x, y)
    BY <1>1, <2>3, More
  <2>5. PICK s1 : s1 = Append(s, "EE")
    OBVIOUS
  <2>6. PICK s2 : s2 = Append(s1, x)
    OBVIOUS
  <2>7. Decoded(s1) = Decoder(c, <<"EE">>, TRUE) /\ s1 \in Seq(Byte)
    <3>1. DecodedByte(Decoder(c, <<>>, TRUE), "EE") = Decoder(c, <<"EE">>, TRUE)
      <4>1. StepsDecoded(c, "EE", TRUE)
        BY <1>1, DecodedSteps
      <4>. QED BY <1>1, <4>1 DEF StepsDecoded
    <3>. QED BY <1>1, <1>2, <2>5, <3>1, Zenon DEF Decodes
  <2>8. Decoded(s2) = Decoder(c, <<"EE", x>>, TRUE) /\ s2 \in Seq(Byte)
    <3>1. DecodedByte(Decoder(c, <<"EE">>, TRUE), x) = Decoder(c, <<"EE", x>>, TRUE)
      <4>1. StepsDecoded(c, x, TRUE)
        BY <2>3, DecodedSteps
      <4>. QED BY <4>1 DEF StepsDecoded
    <3>. QED BY <1>2, <2>3, <2>6, <2>7, <3>1, Zenon
  <2>9. Decoded(Append(s2, y)) = Decoder(Append(c, <<"EE", x, y>>), <<>>, TRUE)
    <3>1. DecodedByte(Decoder(c, <<"EE", x>>, TRUE), y) = Decoder(Append(c, <<"EE", x, y>>), <<>>, TRUE)
      <4>1. StepsDecoded(c, y, TRUE)
        BY <2>3, DecodedSteps
      <4>. QED BY <4>1 DEF StepsDecoded
    <3>. QED BY <1>2, <2>3, <2>8, <3>1, Zenon
  <2>10. s \o ch = Append(s2, y)
    BY <2>2, <2>4, <2>5, <2>6, Zenon DEF ThreeMore
  <2>. QED BY <2>2, <2>9, <2>10, Zenon DEF Decodes
<1>. QED BY <1>3, <1>4, CharBytes

\* A character as it comes out of the filter.
Image(e, ch) ==
  IF ch = e.escape THEN e.escape \o e.escape
  ELSE IF ch = <<"08">> THEN e.escape \o e.replacement
  ELSE ch

SiftedTo(e, s, m, p) == SiftedAll(e, NothingYet, s) = [match |-> m, output |-> p]
Sifts(e, s, p) == SiftedTo(e, s, <<>>, p)

LEMMA SiftsByte ==
  ASSUME NEW e \in Escapes, NEW t \in Seq(Byte), NEW b \in Byte, NEW m \in Held(e),
         NEW o \in Seq(Byte), SiftedTo(e, t, m, o),
         NEW n, NEW h, Holds(e, m, b) = n, o \o Hands(e, m, b) = h
  PROVE  SiftedTo(e, Append(t, b), n, h)
<1>1. PICK f : f = NothingYet
  OBVIOUS
<1>2. SiftedAll(e, f, Append(t, b)) = Sifted(e, SiftedAll(e, f, t), b)
  BY SiftedFold
<1>3. Sifted(e, [match |-> m, output |-> o], b) =
            [match |-> Holds(e, m, b), output |-> o \o Hands(e, m, b)]
  BY SiftedIs, Zenon
<1>. QED BY <1>1, <1>2, <1>3, Zenon DEF SiftedTo

\* A character passes the filter as its image.
LEMMA CharSifted ==
  ASSUME NEW e \in Escapes, NEW s \in Seq(Byte), NEW p \in Seq(Byte), NEW ch \in Char,
         Sifts(e, s, p)
  PROVE  Sifts(e, s \o ch, p \o Image(e, ch))
<1>1. /\ Continuations \subseteq Byte /\ "EE" \in Byte /\ Lone \subseteq Byte
      /\ "EE" \notin Continuations /\ "08" # "EE" /\ "08" \notin Continuations
  BY KindsOfBytes DEF Lone
<1>2. ASSUME NEW a \in Byte, NEW b \in Byte, NEW c \in Byte
      PROVE  <<a>> \o <<b>> = <<a, b>> /\ <<a, b>> \o <<c>> = <<a, b, c>>
  <2>. <<a>> \in Seq(Byte) /\ <<a, b>> \in Seq(Byte)
    OBVIOUS
  <2>1. PICK s1 \in Seq(Byte) : s1 = <<a>>
    OBVIOUS
  <2>2. PICK s2 \in Seq(Byte) : s2 = <<a, b>>
    OBVIOUS
  <2>3. OneMore(s1, b) /\ OneMore(s2, c)
    BY More
  <2>4. Tuples(a, b, c)
    BY TuplesAppended
  <2>. QED BY <2>1, <2>2, <2>3, <2>4, Zenon DEF OneMore, Tuples
<1>3. PICK v, w \in Continuations : e.escape = <<"EE", v, w>>
  BY EscapeBytes
<1>4. e.escape[2] = v /\ e.escape[3] = w
  BY <1>3
<1>5. <<>> \in Held(e) /\ <<"EE">> \in Held(e) /\ <<"EE", v>> \in Held(e)
  BY <1>4 DEF Held
<1>6. <<>> # <<"EE">> /\ <<"EE", v>> # <<>> /\ <<"EE", v>> # <<"EE">>
  OBVIOUS
<1>7. CASE \E b \in Lone : ch = <<b>>
  <2>1. PICK b \in Lone : ch = <<b>>
    BY <1>7
  <2>2. b \in Byte /\ b # "EE"
    BY <1>1 DEF Lone
  <2>3. Holds(e, <<>>, b) = <<>>
    BY <1>6, <2>2, Zenon DEF Holds
  <2>4. Hands(e, <<>>, b) = <<>> \o Single(e, b)
    BY <1>4, <1>6, <2>2, Zenon DEF Hands
  <2>5. Image(e, ch) = Single(e, b)
    <3>1. ch # e.escape
      <4>1. <<b>> # <<"EE", v, w>>
        OBVIOUS
      <4>. QED BY <1>3, <2>1, <4>1, Zenon
    <3>2. ch = <<"08">> <=> b = "08"
      BY <2>1
    <3>. QED BY <2>1, <3>1, <3>2, Zenon DEF Image, Single
  <2>6. Single(e, b) \in Seq(Byte)
    <3>1. <<b>> \in Seq(Byte)
      BY <2>2
    <3>2. e.escape \o e.replacement \in Seq(Byte)
      <4>1. PICK x1, y1, z1, w1 \in Continuations :
              e = [escape |-> <<"EE", x1, y1>>, replacement |-> <<"EE", z1, w1>>]
        BY EscapeBytes
      <4>2. <<"EE", x1, y1>> \in Seq(Byte) /\ <<"EE", z1, w1>> \in Seq(Byte)
        BY <1>1
      <4>3. e.escape \in Seq(Byte) /\ e.replacement \in Seq(Byte)
        BY <4>1, <4>2
      <4>. QED BY <4>3, ConcatProperties
    <3>. QED BY <3>1, <3>2 DEF Single
  <2>7. <<>> \o Single(e, b) = Single(e, b)
    BY <2>6, ConcatEmptySeq
  <2>8. OneMore(s, b)
    BY <2>2, More
  <2>9. p \o Hands(e, <<>>, b) = p \o Image(e, ch)
    BY <2>4, <2>5, <2>7, Zenon
  <2>10. SiftedTo(e, Append(s, b), <<>>, p \o Image(e, ch))
    BY <1>5, <2>2, <2>3, <2>9, SiftsByte, Zenon DEF Sifts
  <2>. QED BY <2>1, <2>8, <2>10, Zenon DEF Sifts, OneMore
<1>8. CASE \E x \in Continuations, y \in Continuations : ch = <<"EE", x, y>>
  <2>1. PICK x \in Continuations : \E y \in Continuations : ch = <<"EE", x, y>>
    BY <1>8
  <2>2. PICK y \in Continuations : ch = <<"EE", x, y>>
    BY <2>1
  <2>3. x \in Byte /\ y \in Byte /\ x # "EE" /\ y # "EE" /\ x # "08" /\ y # "08"
    BY <1>1
  <2>4. PICK s1 \in Seq(Byte) : s1 = Append(s, "EE")
    BY <1>1, AppendProperties
  <2>5. PICK s2 \in Seq(Byte) : s2 = Append(s1, x)
    BY <2>3, AppendProperties
  <2>6. s \o ch = Append(s2, y)
    <3>1. ThreeMore(s, "EE", x, y)
      BY <1>1, <2>3, More
    <3>. QED BY <2>2, <2>4, <2>5, <3>1, Zenon DEF ThreeMore
  <2>7. ch # <<"08">>
    BY <2>2
  <2>8. p \o <<>> = p
    BY ConcatEmptySeq
  <2>9. SiftedTo(e, s1, <<"EE">>, p)
    <3>1. Holds(e, <<>>, "EE") = <<"EE">> /\ p \o Hands(e, <<>>, "EE") = p
      BY <2>8, Zenon DEF Holds, Hands
    <3>. QED BY <1>1, <1>5, <2>4, <3>1, SiftsByte, Zenon DEF Sifts
  <2>10. CASE x = v
    <3>1. SiftedTo(e, s2, <<"EE", v>>, p)
      <4>1. Holds(e, <<"EE">>, x) = <<"EE", v>> /\ p \o Hands(e, <<"EE">>, x) = p
        BY <1>4, <2>3, <2>8, <2>10, Zenon DEF Holds, Hands
      <4>. QED BY <1>5, <2>3, <2>5, <2>9, <4>1, SiftsByte, Zenon
    <3>2. Holds(e, <<"EE", v>>, y) = <<>>
      BY <1>6, <2>3, Zenon DEF Holds
    <3>3. CASE y = w
      <4>1. Hands(e, <<"EE", v>>, y) = e.escape \o e.escape
        BY <1>4, <1>6, <2>3, <3>3, Zenon DEF Hands
      <4>2. Image(e, ch) = e.escape \o e.escape
        BY <1>3, <2>2, <2>10, <3>3, Zenon DEF Image
      <4>3. p \o Hands(e, <<"EE", v>>, y) = p \o Image(e, ch)
        BY <4>1, <4>2, Zenon
      <4>4. SiftedTo(e, Append(s2, y), <<>>, p \o Image(e, ch))
        BY <1>5, <2>3, <3>1, <3>2, <4>3, SiftsByte, Zenon
      <4>. QED BY <2>6, <4>4, Zenon DEF Sifts
    <3>4. CASE y # w
      <4>1. Hands(e, <<"EE", v>>, y) = <<"EE", v>> \o <<y>>
        BY <1>4, <1>6, <2>3, <3>4, Zenon DEF Hands, Single
      <4>2. <<"EE", v>> \o <<y>> = <<"EE", v, y>>
        BY <1>1, <1>2, <2>3, <2>10, Zenon
      <4>3. <<"EE", x, y>> # <<"EE", v, w>>
        BY <3>4
      <4>4. Image(e, ch) = <<"EE", v, y>>
        BY <1>3, <2>2, <2>7, <2>10, <4>3, Zenon DEF Image
      <4>5. p \o Hands(e, <<"EE", v>>, y) = p \o Image(e, ch)
        BY <4>1, <4>2, <4>4, Zenon
      <4>6. SiftedTo(e, Append(s2, y), <<>>, p \o Image(e, ch))
        BY <1>5, <2>3, <3>1, <3>2, <4>5, SiftsByte, Zenon
      <4>. QED BY <2>6, <4>6, Zenon DEF Sifts
    <3>. QED BY <3>3, <3>4
  <2>11. CASE x # v
    <3>1. SiftedTo(e, s2, <<>>, p \o <<"EE", x>>)
      <4>1. Holds(e, <<"EE">>, x) = <<>> /\ Hands(e, <<"EE">>, x) = <<"EE">> \o <<x>>
        BY <1>4, <1>6, <2>3, <2>11, Zenon DEF Holds, Hands, Single
      <4>2. <<"EE">> \o <<x>> = <<"EE", x>>
        BY <1>1, <1>2, <2>3, Zenon
      <4>3. p \o Hands(e, <<"EE">>, x) = p \o <<"EE", x>>
        BY <4>1, <4>2, Zenon
      <4>. QED BY <1>5, <2>3, <2>5, <2>9, <4>1, <4>3, SiftsByte, Zenon
    <3>2. Holds(e, <<>>, y) = <<>>
      BY <1>6, <2>3, Zenon DEF Holds
    <3>3. Hands(e, <<>>, y) = <<>> \o <<y>>
      BY <1>4, <1>6, <2>3, Zenon DEF Hands, Single
    <3>4. <<"EE", x>> \in Seq(Byte) /\ <<y>> \in Seq(Byte)
      BY <1>1, <2>3
    <3>5. (p \o <<"EE", x>>) \o <<y>> = p \o <<"EE", x, y>>
      <4>1. PICK u \in Seq(Byte) : u = <<"EE", x>>
        BY <3>4
      <4>2. PICK z \in Seq(Byte) : z = <<y>>
        BY <3>4
      <4>3. Regroups(p, u, z)
        BY Regrouped
      <4>4. <<"EE", x>> \o <<y>> = <<"EE", x, y>>
        BY <1>1, <1>2, <2>3, Zenon
      <4>. QED BY <4>1, <4>2, <4>3, <4>4, Zenon DEF Regroups
    <3>6. <<>> \o <<y>> = <<y>>
      BY <3>4, ConcatEmptySeq
    <3>7. <<"EE", x, y>> # <<"EE", v, w>>
      BY <2>11
    <3>8. Image(e, ch) = <<"EE", x, y>>
      BY <1>3, <2>2, <2>7, <3>7, Zenon DEF Image
    <3>9. p \o <<"EE", x>> \in Seq(Byte)
      BY <3>4, ConcatProperties
    <3>10. (p \o <<"EE", x>>) \o Hands(e, <<>>, y) = p \o Image(e, ch)
      BY <3>3, <3>5, <3>6, <3>8, Zenon
    <3>11. SiftedTo(e, Append(s2, y), <<>>, p \o Image(e, ch))
      BY <1>5, <2>3, <3>1, <3>2, <3>9, <3>10, SiftsByte, Zenon
    <3>. QED BY <2>6, <3>11, Zenon DEF Sifts
  <2>. QED BY <2>10, <2>11
<1>. QED BY <1>7, <1>8, CharBytes

(***************************************************************************)
(* The reader behind the filter.                                           *)
(***************************************************************************)

Reader(c, x) == [chars |-> c, escaped |-> x, valid |-> TRUE]

RestoresChar(e, c, ch) ==
  /\ ch = e.escape => /\ RestoredChar(e, Reader(c, FALSE), ch) = Reader(c, TRUE)
                      /\ RestoredChar(e, Reader(c, TRUE), ch) = Reader(Append(c, ch), FALSE)
  /\ ch = e.replacement => RestoredChar(e, Reader(c, TRUE), ch) = Reader(Append(c, U08), FALSE)
  /\ ch # e.escape => RestoredChar(e, Reader(c, FALSE), ch) = Reader(Append(c, ch), FALSE)

LEMMA EscapeIsNotReplacement ==
  ASSUME NEW e \in Escapes
  PROVE  e.escape # e.replacement /\ e.escape \in Char /\ e.replacement \in Char
<1>1. PICK x, y, z, w \in Continuations :
        /\ e = [escape |-> <<"EE", x, y>>, replacement |-> <<"EE", z, w>>]
        /\ <<x, y>> # <<z, w>>
  BY EscapeBytes
<1>2. e.escape = <<"EE", x, y>> /\ e.replacement = <<"EE", z, w>>
  BY <1>1
<1>3. <<"EE", x, y>> # <<"EE", z, w>>
  BY <1>1
<1>4. <<"EE", x, y>> \in Char /\ <<"EE", z, w>> \in Char
  BY DEF Char
<1>. QED BY <1>2, <1>3, <1>4

\* A reader with one thing changed.
ReaderWith(c, x, v, n) ==
  LET r == [chars |-> c, escaped |-> x, valid |-> v]
  IN /\ [r EXCEPT !.chars = n] = [chars |-> n, escaped |-> x, valid |-> v]
     /\ [r EXCEPT !.escaped = n] = [chars |-> c, escaped |-> n, valid |-> v]
     /\ [r EXCEPT !.valid = n] = [chars |-> c, escaped |-> x, valid |-> n]

LEMMA ReaderWithIs ==
  ASSUME NEW c, NEW x, NEW v, NEW n PROVE ReaderWith(c, x, v, n)
BY DEF ReaderWith

\* The turn of restore_control_characters, case by case.
LEMMA RestoredCharIs ==
  ASSUME NEW e \in Escapes, NEW c, NEW ch PROVE RestoresChar(e, c, ch)
<1>1. PICK a : a = Append(c, ch)
  OBVIOUS
<1>2. PICK b : b = Append(c, U08)
  OBVIOUS
<1>3. PICK u : u = e.escape
  OBVIOUS
<1>4. PICK v : v = e.replacement
  OBVIOUS
<1>5. u # v
  BY <1>3, <1>4, EscapeIsNotReplacement
<1>6. ASSUME NEW x \in BOOLEAN, NEW r, r = [chars |-> c, escaped |-> x, valid |-> TRUE]
      PROVE  /\ x /\ ch = u => RestoredChar(e, r, ch) = [chars |-> a, escaped |-> FALSE, valid |-> TRUE]
             /\ x /\ ch = v => RestoredChar(e, r, ch) = [chars |-> b, escaped |-> FALSE, valid |-> TRUE]
             /\ ~x /\ ch = u => RestoredChar(e, r, ch) = [chars |-> c, escaped |-> TRUE, valid |-> TRUE]
             /\ ~x /\ ch # u => RestoredChar(e, r, ch) = [chars |-> a, escaped |-> x, valid |-> TRUE]
  <2>1. r.chars = c /\ r.escaped = x
    BY <1>6
  <2>2. \A n : [r EXCEPT !.chars = n] = [chars |-> n, escaped |-> x, valid |-> TRUE]
    <3> TAKE n
    <3>1. ReaderWith(c, x, TRUE, n)
      BY ReaderWithIs, Zenon
    <3>. QED BY <1>6, <3>1, Zenon DEF ReaderWith
  <2>3. \A n : [r EXCEPT !.escaped = n] = [chars |-> c, escaped |-> n, valid |-> TRUE]
    <3> TAKE n
    <3>1. ReaderWith(c, x, TRUE, n)
      BY ReaderWithIs, Zenon
    <3>. QED BY <1>6, <3>1, Zenon DEF ReaderWith
  <2>4. \A n, k : [r EXCEPT !.chars = n, !.escaped = k] = [chars |-> n, escaped |-> k, valid |-> TRUE]
    <3> TAKE n, k
    <3>1. ReaderWith(n, x, TRUE, k)
      BY ReaderWithIs, Zenon
    <3>2. [[chars |-> n, escaped |-> x, valid |-> TRUE] EXCEPT !.escaped = k]
            = [chars |-> n, escaped |-> k, valid |-> TRUE]
      BY <3>1, Zenon DEF ReaderWith
    <3>. QED BY <2>2, <3>2, Zenon
  <2>5. PICK i : i = [r EXCEPT !.valid = FALSE]
    OBVIOUS
  <2>6. RestoredChar(e, r, ch) =
          CASE r.escaped /\ ch = e.escape -> [r EXCEPT !.chars = Append(r.chars, ch), !.escaped = FALSE]
            [] r.escaped /\ ch = e.replacement ->
                 [r EXCEPT !.chars = Append(r.chars, U08), !.escaped = FALSE]
            [] r.escaped /\ ch \notin {e.escape, e.replacement} -> [r EXCEPT !.valid = FALSE]
            [] ~r.escaped /\ ch = e.escape -> [r EXCEPT !.escaped = TRUE]
            [] ~r.escaped /\ ch # e.escape -> [r EXCEPT !.chars = Append(r.chars, ch)]
    BY DEF RestoredChar
  <2>7. /\ [r EXCEPT !.chars = a, !.escaped = FALSE] = [chars |-> a, escaped |-> FALSE, valid |-> TRUE]
        /\ [r EXCEPT !.chars = b, !.escaped = FALSE] = [chars |-> b, escaped |-> FALSE, valid |-> TRUE]
        /\ [r EXCEPT !.escaped = TRUE] = [chars |-> c, escaped |-> TRUE, valid |-> TRUE]
        /\ [r EXCEPT !.chars = a] = [chars |-> a, escaped |-> x, valid |-> TRUE]
    BY <2>2, <2>3, <2>4, Zenon
  <2>8. RestoredChar(e, r, ch) =
          CASE x /\ ch = u -> [chars |-> a, escaped |-> FALSE, valid |-> TRUE]
            [] x /\ ch = v -> [chars |-> b, escaped |-> FALSE, valid |-> TRUE]
            [] x /\ ch \notin {u, v} -> i
            [] ~x /\ ch = u -> [chars |-> c, escaped |-> TRUE, valid |-> TRUE]
            [] ~x /\ ch # u -> [chars |-> a, escaped |-> x, valid |-> TRUE]
    BY <1>1, <1>2, <1>3, <1>4, <2>1, <2>5, <2>6, <2>7, Zenon
  <2>. QED BY <1>5, <2>8
<1>7. PICK f : f = Reader(c, FALSE)
  OBVIOUS
<1>8. PICK t : t = Reader(c, TRUE)
  OBVIOUS
<1>9. /\ f = [chars |-> c, escaped |-> FALSE, valid |-> TRUE]
      /\ t = [chars |-> c, escaped |-> TRUE, valid |-> TRUE]
  BY <1>7, <1>8 DEF Reader
<1>10. /\ ch = u => RestoredChar(e, f, ch) = [chars |-> c, escaped |-> TRUE, valid |-> TRUE]
       /\ ch # u => RestoredChar(e, f, ch) = [chars |-> a, escaped |-> FALSE, valid |-> TRUE]
  BY <1>6, <1>9
<1>11. /\ ch = u => RestoredChar(e, t, ch) = [chars |-> a, escaped |-> FALSE, valid |-> TRUE]
       /\ ch = v => RestoredChar(e, t, ch) = [chars |-> b, escaped |-> FALSE, valid |-> TRUE]
  BY <1>6, <1>9
<1>12. /\ Reader(c, TRUE) = [chars |-> c, escaped |-> TRUE, valid |-> TRUE]
       /\ Reader(a, FALSE) = [chars |-> a, escaped |-> FALSE, valid |-> TRUE]
       /\ Reader(b, FALSE) = [chars |-> b, escaped |-> FALSE, valid |-> TRUE]
  BY DEF Reader
<1>. QED
  BY <1>1, <1>2, <1>3, <1>4, <1>7, <1>8, <1>10, <1>11, <1>12, Zenon DEF RestoresChar

\* Sources an XML parser would accept that are ordinary: no "<", no carriage return
\* and no reference to an escape.
Strange == {"<", "0D", "&#xE000;", "&#xE100;", "&#13;"}
OrdinaryByte == Byte \ Strange
OrdinaryChar ==
  {<<b>> : b \in Lone \ Strange} \cup {<<"EE", x, y>> : x \in Continuations, y \in Continuations}

\* What is not "<" or, in a book, no carriage return.
Plain == Byte \ {"<"}
Letter == Char \ {U0D}

LEMMA OrdinaryCharIs ==
  ASSUME NEW ch \in OrdinaryChar
  PROVE  ch \in Char /\ ch \in Seq(Plain) /\ ch \in Seq(OrdinaryByte) /\ ch # <<>>
<1>1. /\ Continuations \subseteq OrdinaryByte /\ "EE" \in OrdinaryByte
      /\ OrdinaryByte \subseteq Plain /\ Lone \ Strange \subseteq OrdinaryByte
  BY Zenon DEF Continuations, OrdinaryByte, Plain, Strange, Lone, Byte
<1>2. \/ \E b \in Lone \ Strange : ch = <<b>>
      \/ \E x \in Continuations, y \in Continuations : ch = <<"EE", x, y>>
  BY DEF OrdinaryChar
<1>3. CASE \E b \in Lone \ Strange : ch = <<b>>
  <2>1. PICK b \in Lone \ Strange : ch = <<b>>
    BY <1>3
  <2>2. ch \in Char
    BY <2>1 DEF Char
  <2>3. ch \in Seq(Plain) /\ ch \in Seq(OrdinaryByte) /\ ch # <<>>
    BY <1>1, <2>1
  <2>. QED BY <2>2, <2>3
<1>4. CASE \E x \in Continuations, y \in Continuations : ch = <<"EE", x, y>>
  <2>1. PICK x \in Continuations : \E y \in Continuations : ch = <<"EE", x, y>>
    BY <1>4
  <2>2. PICK y \in Continuations : ch = <<"EE", x, y>>
    BY <2>1
  <2>3. ch \in Char
    BY <2>2 DEF Char
  <2>4. ch \in Seq(Plain) /\ ch \in Seq(OrdinaryByte) /\ ch # <<>>
    BY <1>1, <2>2
  <2>. QED BY <2>3, <2>4
<1>. QED BY <1>2, <1>3, <1>4

\* What a character refers to, if it does.
LEMMA References ==
  ASSUME NEW ch \in OrdinaryChar, NEW e \in Escapes
  PROVE  /\ ~IsReference(ch) => Referred(ch) = ch
         /\ IsReference(ch) => Referred(ch) # e.escape /\ ch # e.escape /\ ch # U08
         /\ ~IsReference(e.escape) /\ ~IsReference(e.replacement) /\ ~IsReference(U08)
         /\ Referred(ch) \in Letter
<1>1. DOMAIN RefersTo = {"&#8;", "&#13;", "&#xE000;", "&#xE018;", "&#xE100;", "&#xE128;"}
  BY DEF RefersTo
<1>2. RefersTo["&#8;"] = U08 /\ RefersTo["&#xE018;"] = UE018 /\ RefersTo["&#xE128;"] = UE128
  BY DEF RefersTo
<1>3. ~IsReference(ch) => Referred(ch) = ch
  BY DEF Referred
<1>4. e.escape[1] = "EE" /\ e.replacement[1] = "EE" /\ U08[1] = "08"
  BY EscapeBytes DEF U08
<1>5. ~IsReference(e.escape) /\ ~IsReference(e.replacement) /\ ~IsReference(U08)
  BY <1>1, <1>4, Zenon DEF IsReference
<1>6. e.escape \in {UE000, UE100}
  BY DEF Escapes, ConversionEscape, AuditEscape
<1>7. /\ U08 \notin {UE000, UE100} /\ UE018 \notin {UE000, UE100} /\ UE128 \notin {UE000, UE100}
      /\ U08 # U0D /\ UE018 # U0D /\ UE128 # U0D
  BY DEF U08, UE000, UE100, UE018, UE128, U0D
<1>8. U08 \in Char /\ UE018 \in Char /\ UE128 \in Char
  <2>1. /\ "80" \in Continuations /\ "98" \in Continuations /\ "84" \in Continuations
        /\ "A8" \in Continuations
    BY DEF Continuations
  <2>2. "08" \in Lone
    BY KindsOfBytes DEF Lone
  <2>. QED BY <2>1, <2>2 DEF Char, U08, UE018, UE128
<1>9. ch \in Char
  BY OrdinaryCharIs
<1>10. CASE ch[1] = "EE"
  <2>1. ~IsReference(ch)
    BY <1>1, <1>10, Zenon DEF IsReference
  <2>2. ch # U0D
    BY <1>10 DEF U0D
  <2>. QED BY <1>3, <1>5, <1>9, <2>1, <2>2 DEF Letter
<1>11. CASE \E b \in Lone \ Strange : ch = <<b>>
  <2>1. PICK b \in Lone \ Strange : ch = <<b>>
    BY <1>11
  <2>2. ch[1] = b /\ b \notin {"&#xE000;", "&#xE100;", "&#13;", "0D"}
    BY <2>1, Zenon DEF Strange
  <2>3. ch # U0D
    BY <2>1, <2>2, Zenon DEF U0D
  <2>4. IsReference(ch) => b \in {"&#8;", "&#xE018;", "&#xE128;"}
    BY <1>1, <2>2, Zenon DEF IsReference
  <2>5. IsReference(ch) => Referred(ch) = RefersTo[b]
    BY <2>2, Zenon DEF Referred
  <2>6. IsReference(ch) => Referred(ch) \in {U08, UE018, UE128}
    BY <1>2, <2>4, <2>5, Zenon
  <2>7. IsReference(ch) => Referred(ch) # e.escape
    BY <1>6, <1>7, <2>6
  <2>8. Referred(ch) \in Letter
    <3>1. Referred(ch) \in {U08, UE018, UE128, ch}
      BY <1>3, <2>6
    <3>. QED BY <1>7, <1>8, <1>9, <2>3, <3>1 DEF Letter
  <2>. QED BY <1>3, <1>5, <2>7, <2>8
<1>. QED
  <2>1. \/ ch[1] = "EE" \/ \E b \in Lone \ Strange : ch = <<b>>
    BY DEF OrdinaryChar
  <2>. QED BY <1>10, <1>11, <2>1

\* The characters of an attribute, or of a text.
ReadsAll(e, inText, c) == IF inText THEN TextChars(e, c) ELSE AttributeChars(e, c)
ReadsOn(e, inText, c, k, x) == ReadsAll(e, inText, c) = Reader(k, x)

LEMMA NothingRead ==
  ASSUME NEW e, NEW t \in BOOLEAN PROVE ReadsOn(e, t, <<>>, <<>>, FALSE)
<1>1. <<>> \in Seq({0}) /\ 0 \in {0}
  OBVIOUS
<1>2. TextChars(e, <<>>) = Unread
  BY <1>1, TextFold
<1>3. AttributeChars(e, <<>>) = Unread
  BY <1>1, AttributeFold
<1>. QED BY <1>2, <1>3 DEF ReadsOn, ReadsAll, Reader, Unread

\* A character that is no reference.
LEMMA ReadsLiteral ==
  ASSUME NEW e, NEW t \in BOOLEAN, NEW c \in Seq(Char), NEW ch \in Char, NEW k, NEW x,
         ReadsOn(e, t, c, k, x), ~IsReference(ch), NEW n, NEW y,
         RestoredChar(e, Reader(k, x), ch) = Reader(n, y)
  PROVE  ReadsOn(e, t, Append(c, ch), n, y)
<1>1. Referred(ch) = ch
  BY DEF Referred
<1>2. CASE t
  <2>1. TextChars(e, Append(c, ch)) = TextChar(e, TextChars(e, c), ch)
    BY TextFold
  <2>2. \A r : TextChar(e, r, ch) = RestoredChar(e, r, ch)
    BY DEF TextChar
  <2>3. TextChars(e, c) = Reader(k, x)
    BY <1>2, Zenon DEF ReadsOn, ReadsAll
  <2>4. TextChars(e, Append(c, ch)) = Reader(n, y)
    BY <2>1, <2>2, <2>3, Zenon
  <2>. QED BY <1>2, <2>4, Zenon DEF ReadsOn, ReadsAll
<1>3. CASE ~t
  <2>1. AttributeChars(e, Append(c, ch)) = AttributeChar(e, AttributeChars(e, c), ch)
    BY AttributeFold
  <2>2. \A r : AttributeChar(e, r, ch) = RestoredChar(e, r, ch)
    BY <1>1, Zenon DEF AttributeChar
  <2>3. AttributeChars(e, c) = Reader(k, x)
    BY <1>3, Zenon DEF ReadsOn, ReadsAll
  <2>4. AttributeChars(e, Append(c, ch)) = Reader(n, y)
    BY <2>1, <2>2, <2>3, Zenon
  <2>. QED BY <1>3, <2>4, Zenon DEF ReadsOn, ReadsAll
<1>. QED BY <1>2, <1>3

\* A reference, which is read as the character it refers to.
LEMMA ReadsReference ==
  ASSUME NEW e \in Escapes, NEW t \in BOOLEAN, NEW c \in Seq(Char), NEW ch \in Char, NEW k,
         ReadsOn(e, t, c, k, FALSE), IsReference(ch), Referred(ch) # e.escape
  PROVE  ReadsOn(e, t, Append(c, ch), Append(k, Referred(ch)), FALSE)
<1>1. PICK a : a = Referred(ch)
  OBVIOUS
<1>2. CASE t
  <2>1. TextChars(e, Append(c, ch)) = TextChar(e, TextChars(e, c), ch)
    BY TextFold
  <2>2. PICK r : r = Reader(k, FALSE)
    OBVIOUS
  <2>3. TextChars(e, c) = r
    BY <1>2, <2>2, Zenon DEF ReadsOn, ReadsAll
  <2>4. r.chars = k /\ r.escaped = FALSE /\ r.valid = TRUE
    BY <2>2 DEF Reader
  <2>5. TextChar(e, r, ch) = [r EXCEPT !.chars = Append(r.chars, Referred(ch)),
                                      !.valid = r.valid /\ ~r.escaped /\ Referred(ch) # e.escape]
    BY DEF TextChar
  <2>6. PICK v : v = (r.valid /\ ~r.escaped /\ Referred(ch) # e.escape)
    OBVIOUS
  <2>7. v = TRUE
    BY <2>4, <2>6
  <2>8. PICK n : n = Append(k, a)
    OBVIOUS
  <2>9. TextChar(e, r, ch) = [r EXCEPT !.chars = n, !.valid = TRUE]
    BY <1>1, <2>4, <2>5, <2>8
  <2>10. [r EXCEPT !.chars = n] = [chars |-> n, escaped |-> FALSE, valid |-> TRUE]
    <3>1. ReaderWith(k, FALSE, TRUE, n)
      BY ReaderWithIs, Zenon
    <3>. QED BY <2>2, <3>1, Zenon DEF ReaderWith, Reader
  <2>11. [[chars |-> n, escaped |-> FALSE, valid |-> TRUE] EXCEPT !.valid = TRUE]
           = [chars |-> n, escaped |-> FALSE, valid |-> TRUE]
    <3>1. ReaderWith(n, FALSE, TRUE, TRUE)
      BY ReaderWithIs, Zenon
    <3>. QED BY <3>1, Zenon DEF ReaderWith
  <2>12. TextChar(e, r, ch) = Reader(n, FALSE)
    BY <2>9, <2>10, <2>11, Zenon DEF Reader
  <2>. QED BY <1>1, <1>2, <2>1, <2>3, <2>8, <2>12, Zenon DEF ReadsOn, ReadsAll
<1>3. CASE ~t
  <2>1. AttributeChars(e, Append(c, ch)) = AttributeChar(e, AttributeChars(e, c), ch)
    BY AttributeFold
  <2>2. \A r : AttributeChar(e, r, ch) = RestoredChar(e, r, a)
    BY <1>1, Zenon DEF AttributeChar
  <2>3. AttributeChars(e, c) = Reader(k, FALSE)
    BY <1>3, Zenon DEF ReadsOn, ReadsAll
  <2>4. RestoredChar(e, Reader(k, FALSE), a) = Reader(Append(k, a), FALSE)
    <3>1. RestoresChar(e, k, a)
      BY RestoredCharIs
    <3>. QED BY <1>1, <3>1, Zenon DEF RestoresChar
  <2>. QED BY <1>1, <1>3, <2>1, <2>2, <2>3, <2>4, Zenon DEF ReadsOn, ReadsAll
<1>. QED BY <1>2, <1>3

\* What a reader behind the filter makes of a character.
LEMMA ReadsImage ==
  ASSUME NEW e \in Escapes, NEW p \in Seq(Byte), NEW c \in Seq(Char), NEW k,
         NEW ch \in OrdinaryChar, Decodes(p, c), \A t \in BOOLEAN : ReadsOn(e, t, c, k, FALSE)
  PROVE  \E d \in Seq(Char) :
           /\ Decodes(p \o Image(e, ch), d)
           /\ \A t \in BOOLEAN : ReadsOn(e, t, d, Append(k, Referred(ch)), FALSE)
<1>1. ch \in Char
  BY OrdinaryCharIs
<1>2. /\ e.escape # e.replacement /\ e.escape \in Char /\ e.replacement \in Char
      /\ ~IsReference(e.escape) /\ ~IsReference(e.replacement)
  BY EscapeIsNotReplacement, References
<1>3. PICK u \in Seq(Byte) : u = e.escape
  BY <1>2, CharBytes
<1>4. PICK v \in Seq(Byte) : v = e.replacement
  BY <1>2, CharBytes
<1>5. u \in Char /\ v \in Char /\ u # v
  BY <1>2, <1>3, <1>4
<1>6. ASSUME NEW w, w \in {u, v}
      PROVE  /\ Decodes(p \o (u \o w), Append(Append(c, u), w))
             /\ Append(Append(c, u), w) \in Seq(Char)
             /\ \A t \in BOOLEAN :
                  /\ ReadsOn(e, t, Append(c, u), k, TRUE)
                  /\ w = u => ReadsOn(e, t, Append(Append(c, u), w), Append(k, u), FALSE)
                  /\ w = v => ReadsOn(e, t, Append(Append(c, u), w), Append(k, U08), FALSE)
  <2>1. w \in Seq(Byte) /\ w \in Char
    BY <1>3, <1>4, <1>5, <1>6
  <2>2. PICK c1 \in Seq(Char) : c1 = Append(c, u)
    BY <1>5, AppendProperties
  <2>3. PICK p1 \in Seq(Byte) : p1 = p \o u
    BY ConcatProperties
  <2>4. Decodes(p1, c1)
    BY <1>5, <2>2, <2>3, CharDecoded
  <2>5. Decodes(p1 \o w, Append(c1, w))
    BY <2>1, <2>4, CharDecoded
  <2>6. p \o (u \o w) = p1 \o w
    <3>1. Regroups(p, u, w)
      BY <2>1, Regrouped
    <3>. QED BY <2>3, <3>1, Zenon DEF Regroups
  <2>7. Append(c1, w) \in Seq(Char)
    BY <2>1, AppendProperties
  <2>8. RestoresChar(e, k, u) /\ RestoresChar(e, k, w)
    BY RestoredCharIs
  <2>9. ASSUME NEW t \in BOOLEAN
        PROVE  /\ ReadsOn(e, t, c1, k, TRUE)
               /\ w = u => ReadsOn(e, t, Append(c1, w), Append(k, u), FALSE)
               /\ w = v => ReadsOn(e, t, Append(c1, w), Append(k, U08), FALSE)
    <3>1. ~IsReference(u) /\ ~IsReference(w) /\ ReadsOn(e, t, c, k, FALSE)
      BY <1>2, <1>3, <1>4, <1>6
    <3>2. RestoredChar(e, Reader(k, FALSE), u) = Reader(k, TRUE)
      BY <1>3, <2>8, Zenon DEF RestoresChar
    <3>3. ReadsOn(e, t, c1, k, TRUE)
      BY <1>5, <2>2, <3>1, <3>2, ReadsLiteral, Zenon
    <3>4. w = u => RestoredChar(e, Reader(k, TRUE), w) = Reader(Append(k, u), FALSE)
      BY <1>3, <2>8, Zenon DEF RestoresChar
    <3>5. w = v => RestoredChar(e, Reader(k, TRUE), w) = Reader(Append(k, U08), FALSE)
      BY <1>4, <2>8, Zenon DEF RestoresChar
    <3>6. w = u => ReadsOn(e, t, Append(c1, w), Append(k, u), FALSE)
      BY <2>1, <3>1, <3>3, <3>4, ReadsLiteral, Zenon
    <3>7. w = v => ReadsOn(e, t, Append(c1, w), Append(k, U08), FALSE)
      BY <2>1, <3>1, <3>3, <3>5, ReadsLiteral, Zenon
    <3>. QED BY <3>3, <3>6, <3>7
  <2>. QED BY <2>2, <2>5, <2>6, <2>7, <2>9, Zenon
<1>7. CASE ch = e.escape
  <2>1. Image(e, ch) = u \o u
    BY <1>3, <1>7, Zenon DEF Image
  <2>2. Referred(ch) = u
    BY <1>2, <1>3, <1>7 DEF Referred
  <2>3. u \in {u, v}
    OBVIOUS
  <2>. QED BY <1>6, <2>1, <2>2, <2>3, Zenon
<1>8. CASE ch = U08 /\ ch # e.escape
  <2>1. Image(e, ch) = u \o v
    BY <1>3, <1>4, <1>8, Zenon DEF Image, U08
  <2>2. Referred(ch) = U08
    BY <1>8, References
  <2>3. v \in {u, v}
    OBVIOUS
  <2>. QED BY <1>6, <2>1, <2>2, <2>3, Zenon
<1>9. CASE ch # U08 /\ ch # e.escape
  <2>1. Image(e, ch) = ch
    BY <1>9, Zenon DEF Image, U08
  <2>2. Decodes(p \o ch, Append(c, ch)) /\ Append(c, ch) \in Seq(Char)
    BY <1>1, CharDecoded, AppendProperties
  <2>3. ASSUME NEW t \in BOOLEAN
        PROVE  ReadsOn(e, t, Append(c, ch), Append(k, Referred(ch)), FALSE)
    <3>1. CASE IsReference(ch)
      <4>1. Referred(ch) # e.escape
        BY <3>1, References
      <4>2. ReadsOn(e, t, c, k, FALSE)
        OBVIOUS
      <4>. QED BY <1>1, <3>1, <4>1, <4>2, ReadsReference, Zenon
    <3>2. CASE ~IsReference(ch)
      <4>1. Referred(ch) = ch
        BY <3>2, References
      <4>2. RestoresChar(e, k, ch)
        BY RestoredCharIs
      <4>3. RestoredChar(e, Reader(k, FALSE), ch) = Reader(Append(k, ch), FALSE)
        BY <1>9, <4>2, Zenon DEF RestoresChar
      <4>4. ReadsOn(e, t, Append(c, ch), Append(k, ch), FALSE)
        BY <1>1, <3>2, <4>3, ReadsLiteral, Zenon
      <4>. QED BY <4>1, <4>4, Zenon
    <3>. QED BY <3>1, <3>2
  <2>. QED BY <2>1, <2>2, <2>3, Zenon
<1>. QED BY <1>7, <1>8, <1>9

(***************************************************************************)
(* A reader behind either filter understands an ordinary piece of a source *)
(* as XML means it.                                                        *)
(***************************************************************************)

Meanings(c) == [i \in DOMAIN c |-> Referred(c[i])]

LEMMA MeaningsIs ==
  /\ Meanings(<<>>) = <<>>
  /\ \A c \in Seq(OrdinaryChar) : Meanings(c) \in Seq(Letter)
  /\ \A c \in Seq(OrdinaryChar), ch \in OrdinaryChar :
       Meanings(Append(c, ch)) = Append(Meanings(c), Referred(ch))
<1>1. Meanings(<<>>) = <<>>
  BY DEF Meanings
<1>2. ASSUME NEW c \in Seq(OrdinaryChar)
      PROVE  /\ Meanings(c) \in Seq(Letter) /\ Len(Meanings(c)) = Len(c)
             /\ \A i \in 1..Len(c) : Meanings(c)[i] = Referred(c[i])
  <2>1. DOMAIN c = 1..Len(c) /\ Len(c) \in Nat /\ \A i \in 1..Len(c) : c[i] \in OrdinaryChar
    BY LenProperties, ElementOfSeq
  <2>2. ConversionEscape \in Escapes
    BY DEF Escapes
  <2>3. \A i \in 1..Len(c) : Referred(c[i]) \in Letter
    BY <2>1, <2>2, References
  <2>4. PICK m : m = [i \in 1..Len(c) |-> Referred(c[i])]
    OBVIOUS
  <2>5. m = Meanings(c)
    BY <2>1, <2>4 DEF Meanings
  <2>6. m \in [1..Len(c) -> Letter]
    BY <2>3, <2>4
  <2>7. m \in Seq(Letter)
    BY <2>1, <2>6, IsSequence, Zenon
  <2>8. Len(m) = Len(c)
    <3>1. DOMAIN m = 1..Len(m) /\ Len(m) \in Nat
      BY <2>7, LenProperties
    <3>2. DOMAIN m = 1..Len(c)
      BY <2>4
    <3>3. \A i \in Nat : i \in 1..Len(m) <=> i \in 1..Len(c)
      BY <3>1, <3>2
    <3>4. /\ Len(c) \in 1..Len(m) <=> Len(c) \in 1..Len(c)
          /\ Len(m) \in 1..Len(m) <=> Len(m) \in 1..Len(c)
      BY <2>1, <3>1, <3>3
    <3>5. Len(c) \in Nat /\ Len(m) \in Nat
      BY <2>1, <3>1
    <3>6. PICK x \in Nat : x = Len(c)
      BY <3>5
    <3>7. PICK y \in Nat : y = Len(m)
      BY <3>5
    <3>8. (x \in 1..y <=> x \in 1..x) /\ (y \in 1..y <=> y \in 1..x)
      BY <3>4, <3>6, <3>7
    <3>9. x = y
      BY <3>8
    <3>. QED BY <3>6, <3>7, <3>9
  <2>9. \A i \in 1..Len(c) : m[i] = Referred(c[i])
    BY <2>4
  <2>. QED BY <2>5, <2>7, <2>8, <2>9
<1>3. ASSUME NEW c \in Seq(OrdinaryChar), NEW ch \in OrdinaryChar
      PROVE  Meanings(Append(c, ch)) = Append(Meanings(c), Referred(ch))
  <2>1. PICK d \in Seq(OrdinaryChar) : d = Append(c, ch)
    BY AppendProperties
  <2>2. /\ Len(d) = Len(c) + 1 /\ d[Len(c) + 1] = ch /\ \A i \in 1..Len(c) : d[i] = c[i]
        /\ Len(c) \in Nat
    BY <2>1, AppendProperties, LenProperties
  <2>3. PICK m \in Seq(Letter) : m = Meanings(c)
    BY <1>2
  <2>4. PICK n \in Seq(Letter) : n = Meanings(d)
    BY <1>2
  <2>5. /\ Len(m) = Len(c) /\ Len(n) = Len(d)
        /\ \A i \in 1..Len(c) : m[i] = Referred(c[i])
        /\ \A i \in 1..Len(d) : n[i] = Referred(d[i])
    BY <1>2, <2>3, <2>4
  <2>6. n[Len(m) + 1] = Referred(ch) /\ \A i \in 1..Len(m) : m[i] = n[i]
    BY <2>2, <2>5
  <2>7. Referred(ch) \in Letter
    <3>1. ConversionEscape \in Escapes
      BY DEF Escapes
    <3>. QED BY <3>1, References
  <2>8. PICK a \in Letter : a = Referred(ch)
    BY <2>7
  <2>9. Len(n) = Len(m) + 1 /\ n[Len(m) + 1] = a
    BY <2>2, <2>5, <2>6, <2>8
  <2>10. Append(m, a) = n
    BY <2>6, <2>9, AppendTo
  <2>. QED BY <2>1, <2>3, <2>4, <2>8, <2>10, Zenon
<1>. QED BY <1>1, <1>2, <1>3, Zenon

\* The filter hands p out for s, which has no "<", and what a reader makes of p is
\* what the characters of s mean.
Understood(e, s, c, p, d) ==
  /\ Decodes(s, c) /\ (c = <<>> => s = <<>>)
  /\ Sifts(e, s, p) /\ Decodes(p, d)
  /\ \A t \in BOOLEAN : ReadsOn(e, t, d, Meanings(c), FALSE)

Understands(e, s) ==
  \E c \in Seq(OrdinaryChar), p \in Seq(Plain), d \in Seq(Char) : Understood(e, s, c, p, d)

LEMMA ImagePlain ==
  ASSUME NEW e \in Escapes, NEW ch \in OrdinaryChar PROVE Image(e, ch) \in Seq(Plain)
<1>1. ch \in Seq(Plain)
  BY OrdinaryCharIs
<1>2. PICK x, y, z, w \in Continuations :
        e = [escape |-> <<"EE", x, y>>, replacement |-> <<"EE", z, w>>]
  BY EscapeBytes
<1>3. Continuations \subseteq Plain /\ "EE" \in Plain
  BY DEF Continuations, Plain, Byte
<1>4. <<"EE", x, y>> \in Seq(Plain) /\ <<"EE", z, w>> \in Seq(Plain)
  BY <1>3
<1>5. e.escape \in Seq(Plain) /\ e.replacement \in Seq(Plain)
  BY <1>2, <1>4
<1>6. e.escape \o e.escape \in Seq(Plain) /\ e.escape \o e.replacement \in Seq(Plain)
  BY <1>5, ConcatProperties
<1>. QED BY <1>1, <1>6, Zenon DEF Image

\* The empty piece.
LEMMA NothingUnderstood ==
  ASSUME NEW e \in Escapes PROVE Understands(e, <<>>)
<1>1. Decodes(<<>>, <<>>)
  <2>1. "EE" \in Byte /\ <<>> \in Seq(Byte)
    BY KindsOfBytes
  <2>2. Decoded(<<>>) = [chars |-> <<>>, open |-> <<>>, valid |-> TRUE]
    BY <2>1, DecodedFold
  <2>. QED BY <2>2, Zenon DEF Decodes, Decoder
<1>2. Sifts(e, <<>>, <<>>)
  <2>1. "EE" \in Byte /\ <<>> \in Seq(Byte)
    BY KindsOfBytes
  <2>2. PICK f : f = NothingYet
    OBVIOUS
  <2>3. SiftedAll(e, f, <<>>) = f
    BY <2>1, SiftedFold
  <2>. QED BY <2>2, <2>3, Zenon DEF Sifts, SiftedTo, NothingYet
<1>3. <<>> \in Seq(OrdinaryChar) /\ <<>> \in Seq(Plain) /\ <<>> \in Seq(Char)
  OBVIOUS
<1>4. Meanings(<<>>) = <<>>
  BY MeaningsIs
<1>5. \A t \in BOOLEAN : ReadsOn(e, t, <<>>, Meanings(<<>>), FALSE)
  BY <1>4, NothingRead, Zenon
<1>6. Understood(e, <<>>, <<>>, <<>>, <<>>)
  BY <1>1, <1>2, <1>5, Zenon DEF Understood
<1>. QED BY <1>3, <1>6, Zenon DEF Understands

\* A piece with one character more.
LEMMA CharUnderstood ==
  ASSUME NEW e \in Escapes, NEW s \in Seq(Byte), NEW ch \in OrdinaryChar, Understands(e, s)
  PROVE  Understands(e, s \o ch)
<1>1. PICK c \in Seq(OrdinaryChar), p \in Seq(Plain), d \in Seq(Char) : Understood(e, s, c, p, d)
  BY Zenon DEF Understands
<1>2. /\ Decodes(s, c) /\ Sifts(e, s, p) /\ Decodes(p, d)
      /\ \A t \in BOOLEAN : ReadsOn(e, t, d, Meanings(c), FALSE)
  BY <1>1, Zenon DEF Understood
<1>3. ch \in Char
  BY OrdinaryCharIs
<1>4. p \in Seq(Byte)
  <2>1. Plain \subseteq Byte
    BY DEF Plain
  <2>2. Includes(Byte, Plain)
    BY <2>1, SeqIncludes
  <2>. QED BY <2>2, Zenon DEF Includes
<1>5. Decodes(s \o ch, Append(c, ch))
  BY <1>2, <1>3, CharDecoded
<1>6. Sifts(e, s \o ch, p \o Image(e, ch))
  BY <1>2, <1>3, <1>4, CharSifted
<1>7. PICK g \in Seq(Char) :
        /\ Decodes(p \o Image(e, ch), g)
        /\ \A t \in BOOLEAN : ReadsOn(e, t, g, Append(Meanings(c), Referred(ch)), FALSE)
  BY <1>2, <1>4, ReadsImage, Zenon
<1>8. Append(c, ch) \in Seq(OrdinaryChar) /\ Append(c, ch) # <<>>
  BY AppendProperties
<1>9. p \o Image(e, ch) \in Seq(Plain)
  BY ImagePlain, ConcatProperties
<1>10. Meanings(Append(c, ch)) = Append(Meanings(c), Referred(ch))
  BY MeaningsIs, Zenon
<1>11. Understood(e, s \o ch, Append(c, ch), p \o Image(e, ch), g)
  BY <1>5, <1>6, <1>7, <1>8, <1>10, Zenon DEF Understood
<1>. QED BY <1>8, <1>9, <1>11, Zenon DEF Understands

\* What has been decoded of any bytes, and of a byte more.
HasDecoder(s) == \E c : \E o \in Opens : \E v \in BOOLEAN : Decoded(s) = Decoder(c, o, v)

ByteDecoded(s, b, c, o, v) ==
  /\ o = <<>> /\ b \in Lone => Decoded(Append(s, b)) = Decoder(Append(c, <<b>>), <<>>, v)
  /\ o = <<>> /\ b = "EE" => Decoded(Append(s, b)) = Decoder(c, <<"EE">>, v)
  /\ o = <<>> /\ b \in Continuations => Decoded(Append(s, b)) = Decoder(c, <<>>, FALSE)
  /\ o = <<"EE">> /\ b \in Continuations => Decoded(Append(s, b)) = Decoder(c, <<"EE", b>>, v)
  /\ o = <<"EE">> /\ b \notin Continuations => Decoded(Append(s, b)) = Decoder(c, <<"EE">>, FALSE)
  /\ \A x \in Continuations : o = <<"EE", x>> =>
       /\ b \in Continuations => Decoded(Append(s, b)) = Decoder(Append(c, <<"EE", x, b>>), <<>>, v)
       /\ b \notin Continuations => Decoded(Append(s, b)) = Decoder(c, <<"EE", x>>, FALSE)

LEMMA ByteDecodedIs ==
  ASSUME NEW s \in Seq(Byte), NEW b \in Byte, NEW c, NEW o \in Opens, NEW v,
         Decoded(s) = Decoder(c, o, v)
  PROVE  ByteDecoded(s, b, c, o, v)
<1>1. Decoded(Append(s, b)) = DecodedByte(Decoder(c, o, v), b)
  BY DecodedFold
<1>2. StepsDecoded(c, b, v)
  BY DecodedSteps
<1>. QED BY <1>1, <1>2, Zenon DEF StepsDecoded, ByteDecoded

\* Whatever has been decoded, what is open is the beginning of a character.
LEMMA DecodedType ==
  ASSUME NEW s \in Seq(Byte) PROVE HasDecoder(s)
<1> DEFINE T == {t \in Seq(Byte) : HasDecoder(t)}
<1>1. <<>> \in T
  <2>1. "EE" \in Byte /\ <<>> \in Seq(Byte)
    BY KindsOfBytes
  <2>2. Decoded(<<>>) = [chars |-> <<>>, open |-> <<>>, valid |-> TRUE]
    BY <2>1, DecodedFold
  <2>3. Decoded(<<>>) = Decoder(<<>>, <<>>, TRUE)
    BY <2>2, Zenon DEF Decoder
  <2>4. <<>> \in Opens /\ TRUE \in BOOLEAN
    BY DEF Opens
  <2>. QED BY <2>1, <2>3, <2>4, Zenon DEF HasDecoder
<1>2. ASSUME NEW t \in Seq(Byte), NEW b \in Byte, t \in T PROVE Append(t, b) \in T
  <2>1. PICK c : \E o \in Opens : \E v \in BOOLEAN : Decoded(t) = Decoder(c, o, v)
    BY <1>2, Zenon DEF HasDecoder
  <2>2. PICK o \in Opens : \E v \in BOOLEAN : Decoded(t) = Decoder(c, o, v)
    BY <2>1
  <2>3. PICK v \in BOOLEAN : Decoded(t) = Decoder(c, o, v)
    BY <2>2
  <2>4. ByteDecoded(t, b, c, o, v)
    BY <2>3, ByteDecodedIs
  <2>5. /\ <<>> \in Opens /\ <<"EE">> \in Opens /\ \A x \in Continuations : <<"EE", x>> \in Opens
        /\ FALSE \in BOOLEAN
    BY DEF Opens
  <2>6. b \in Lone \/ b = "EE" \/ b \in Continuations
    BY DEF Lone
  <2>7. o = <<>> \/ o = <<"EE">> \/ \E x \in Continuations : o = <<"EE", x>>
    BY DEF Opens
  <2>8. HasDecoder(Append(t, b))
    <3>1. CASE o = <<>>
      BY <2>4, <2>5, <2>6, <3>1, Zenon DEF ByteDecoded, HasDecoder
    <3>2. CASE o = <<"EE">>
      BY <2>4, <2>5, <3>2, Zenon DEF ByteDecoded, HasDecoder
    <3>3. CASE \E x \in Continuations : o = <<"EE", x>>
      <4>1. PICK x \in Continuations : o = <<"EE", x>>
        BY <3>3
      <4>. QED BY <2>4, <2>5, <4>1, Zenon DEF ByteDecoded, HasDecoder
    <3>. QED BY <2>7, <3>1, <3>2, <3>3
  <2>9. Append(t, b) \in Seq(Byte)
    BY AppendProperties
  <2>. QED BY <2>8, <2>9
<1>3. Seq(Byte) \subseteq T
  <2> HIDE DEF T
  <2>. QED BY <1>1, <1>2, SequenceInduction
<1>. QED BY <1>3

\* The bytes of an ordinary piece are characters, and then a beginning of one.
BeginsOrdinary(e, s) ==
  Decoded(s).valid = TRUE =>
    \E t \in Seq(OrdinaryByte) : \E o \in Opens :
      s = t \o o /\ Decoded(s).open = o /\ Understands(e, t)

LEMMA OrdinaryBegins ==
  ASSUME NEW e \in Escapes, NEW s \in Seq(OrdinaryByte) PROVE BeginsOrdinary(e, s)
<1> DEFINE T == {t \in Seq(OrdinaryByte) : BeginsOrdinary(e, t)}
<1>1. <<>> \in T
  <2>1. <<>> \in Seq(OrdinaryByte) /\ <<>> \in Opens
    BY DEF Opens
  <2>2. <<>> \o <<>> = <<>>
    BY <2>1, ConcatEmptySeq
  <2>3. Decoded(<<>>).open = <<>>
    <3>1. "EE" \in Byte /\ <<>> \in Seq(Byte)
      BY KindsOfBytes
    <3>2. Decoded(<<>>) = [chars |-> <<>>, open |-> <<>>, valid |-> TRUE]
      BY <3>1, DecodedFold
    <3>. QED BY <3>2
  <2>. QED BY <2>1, <2>2, <2>3, NothingUnderstood, Zenon DEF BeginsOrdinary
<1>2. ASSUME NEW u \in Seq(OrdinaryByte), NEW b \in OrdinaryByte, u \in T PROVE Append(u, b) \in T
  <2>1. Append(u, b) \in Seq(OrdinaryByte)
    BY AppendProperties
  <2>2. OrdinaryByte \subseteq Byte /\ b \in Byte /\ b \notin Strange
    BY DEF OrdinaryByte
  <2>3. \A v \in Seq(OrdinaryByte) : v \in Seq(Byte)
    <3>1. Includes(Byte, OrdinaryByte)
      BY <2>2, SeqIncludes
    <3>. QED BY <3>1, Zenon DEF Includes
  <2> SUFFICES ASSUME Decoded(Append(u, b)).valid = TRUE
               PROVE  \E t \in Seq(OrdinaryByte) : \E o \in Opens :
                        /\ Append(u, b) = t \o o
                        /\ Decoded(Append(u, b)).open = o
                        /\ Understands(e, t)
    BY <2>1, Zenon DEF BeginsOrdinary
  <2>4. u \in Seq(Byte) /\ HasDecoder(u)
    BY <2>3, DecodedType
  <2>5. PICK c : \E o \in Opens : \E v \in BOOLEAN : Decoded(u) = Decoder(c, o, v)
    BY <2>4, Zenon DEF HasDecoder
  <2>6. PICK o \in Opens : \E v \in BOOLEAN : Decoded(u) = Decoder(c, o, v)
    BY <2>5
  <2>7. PICK v \in BOOLEAN : Decoded(u) = Decoder(c, o, v)
    BY <2>6
  <2>8. ByteDecoded(u, b, c, o, v)
    BY <2>2, <2>4, <2>7, ByteDecodedIs
  <2>10. o = <<>> \/ o = <<"EE">> \/ \E x \in Continuations : o = <<"EE", x>>
    BY DEF Opens
  <2>11. b \in Lone \/ b = "EE" \/ b \in Continuations
    BY <2>2 DEF Lone
  <2>12. v = TRUE /\ (o = <<>> => b \notin Continuations) /\ (o # <<>> => b \in Continuations)
    <3>1. CASE o = <<>>
      <4>1. \/ b \in Lone /\ Decoded(Append(u, b)) = Decoder(Append(c, <<b>>), <<>>, v)
            \/ b = "EE" /\ Decoded(Append(u, b)) = Decoder(c, <<"EE">>, v)
            \/ Decoded(Append(u, b)) = Decoder(c, <<>>, FALSE)
        BY <2>8, <2>11, <3>1, Zenon DEF ByteDecoded
      <4>2. "EE" \notin Continuations
        BY KindsOfBytes
      <4>. QED BY <3>1, <4>1, <4>2 DEF Lone, Decoder
    <3>2. CASE o = <<"EE">>
      <4>1. \/ b \in Continuations /\ Decoded(Append(u, b)) = Decoder(c, <<"EE", b>>, v)
            \/ Decoded(Append(u, b)) = Decoder(c, <<"EE">>, FALSE)
        BY <2>8, <3>2, Zenon DEF ByteDecoded
      <4>. QED BY <3>2, <4>1 DEF Decoder
    <3>3. CASE \E x \in Continuations : o = <<"EE", x>>
      <4>1. PICK x \in Continuations : o = <<"EE", x>>
        BY <3>3
      <4>2. \/ b \in Continuations /\ Decoded(Append(u, b)) = Decoder(Append(c, <<"EE", x, b>>), <<>>, v)
            \/ Decoded(Append(u, b)) = Decoder(c, <<"EE", x>>, FALSE)
        BY <2>8, <4>1, Zenon DEF ByteDecoded
      <4>. QED BY <4>1, <4>2 DEF Decoder
    <3>. QED BY <2>10, <3>1, <3>2, <3>3
  <2>13. PICK t \in Seq(OrdinaryByte) :
           \E q \in Opens : u = t \o q /\ Decoded(u).open = q /\ Understands(e, t)
    <3>1. Decoded(u).valid = TRUE
      BY <2>7, <2>12 DEF Decoder
    <3>. QED BY <1>2, <3>1, Zenon DEF BeginsOrdinary
  <2>14. u = t \o o /\ Understands(e, t)
    BY <2>7, <2>13 DEF Decoder
  <2>15. t \in Seq(Byte) /\ "EE" \in Byte /\ Continuations \subseteq Byte
    BY <2>3, KindsOfBytes
  <2>16. /\ <<>> \in Opens /\ <<"EE">> \in Opens /\ \A x \in Continuations : <<"EE", x>> \in Opens
    BY DEF Opens
  <2>17. CASE o = <<>>
    <3>1. u = t
      <4>1. t \o <<>> = t
        BY ConcatEmptySeq
      <4>. QED BY <2>14, <2>17, <4>1, Zenon
    <3>2. Append(u, b) = t \o <<b>>
      <4>1. OneMore(t, b)
        BY <2>2, <2>15, More
      <4>. QED BY <3>1, <4>1, Zenon DEF OneMore
    <3>3. CASE b \in Lone
      <4>1. <<b>> \in OrdinaryChar
        BY <2>2, <3>3 DEF OrdinaryChar
      <4>2. Understands(e, t \o <<b>>)
        BY <2>14, <2>15, <4>1, CharUnderstood, Zenon
      <4>3. Decoded(Append(u, b)).open = <<>>
        <5>1. Decoded(Append(u, b)) = Decoder(Append(c, <<b>>), <<>>, v)
          BY <2>8, <2>17, <3>3, Zenon DEF ByteDecoded
        <5>. QED BY <5>1 DEF Decoder
      <4>4. Append(u, b) \o <<>> = Append(u, b)
        BY <2>1, ConcatEmptySeq
      <4>. QED BY <2>1, <2>16, <3>2, <4>2, <4>3, <4>4, Zenon
    <3>4. CASE b = "EE"
      <4>1. Decoded(Append(u, b)).open = <<"EE">>
        <5>1. Decoded(Append(u, b)) = Decoder(c, <<"EE">>, v)
          BY <2>8, <2>17, <3>4, Zenon DEF ByteDecoded
        <5>. QED BY <5>1 DEF Decoder
      <4>. QED BY <2>14, <2>16, <3>2, <3>4, <4>1, Zenon
    <3>. QED BY <2>11, <2>12, <2>17, <3>3, <3>4
  <2>18. CASE o = <<"EE">>
    <3>1. b \in Continuations
      <4>1. <<"EE">> # <<>>
        OBVIOUS
      <4>. QED BY <2>12, <2>18, <4>1
    <3>2. Append(u, b) = t \o <<"EE", b>>
      <4>1. PICK q \in Seq(Byte) : q = o
        <5>1. <<"EE">> \in Seq(Byte)
          BY <2>15
        <5>. QED BY <2>18, <5>1
      <4>2. t \o Append(q, b) = Append(t \o q, b)
        BY <2>2, <2>15, ConcatAppend
      <4>3. Append(<<"EE">>, b) = <<"EE", b>>
        <5>1. SecondByte(b, b, b)
          BY <2>2, Beginnings, Zenon
        <5>. QED BY <5>1, Zenon DEF SecondByte
      <4>. QED BY <2>14, <2>18, <4>1, <4>2, <4>3, Zenon
    <3>3. Decoded(Append(u, b)).open = <<"EE", b>>
      <4>1. Decoded(Append(u, b)) = Decoder(c, <<"EE", b>>, v)
        BY <2>8, <2>18, <3>1, Zenon DEF ByteDecoded
      <4>. QED BY <4>1 DEF Decoder
    <3>. QED BY <2>14, <2>16, <3>1, <3>2, <3>3, Zenon
  <2>19. CASE \E x \in Continuations : o = <<"EE", x>>
    <3>1. PICK x \in Continuations : o = <<"EE", x>>
      BY <2>19
    <3>2. b \in Continuations /\ x \in Byte
      <4>1. <<"EE", x>> # <<>>
        OBVIOUS
      <4>. QED BY <2>12, <2>15, <3>1, <4>1
    <3>3. Append(u, b) = t \o <<"EE", x, b>>
      <4>1. PICK q \in Seq(Byte) : q = o
        <5>1. <<"EE", x>> \in Seq(Byte)
          BY <2>15, <3>2
        <5>. QED BY <3>1, <5>1
      <4>2. t \o Append(q, b) = Append(t \o q, b)
        BY <2>2, <2>15, ConcatAppend
      <4>3. Append(<<"EE", x>>, b) = <<"EE", x, b>>
        <5>1. ThirdByte(b, b, x, b)
          BY <2>2, <3>2, Beginnings, Zenon
        <5>. QED BY <5>1, Zenon DEF ThirdByte
      <4>. QED BY <2>14, <3>1, <4>1, <4>2, <4>3, Zenon
    <3>4. <<"EE", x, b>> \in OrdinaryChar
      BY <3>2 DEF OrdinaryChar
    <3>5. Understands(e, t \o <<"EE", x, b>>)
      BY <2>14, <2>15, <3>4, CharUnderstood, Zenon
    <3>6. Decoded(Append(u, b)).open = <<>>
      <4>1. Decoded(Append(u, b)) = Decoder(Append(c, <<"EE", x, b>>), <<>>, v)
        BY <2>8, <3>1, <3>2, Zenon DEF ByteDecoded
      <4>. QED BY <4>1 DEF Decoder
    <3>7. Append(u, b) \o <<>> = Append(u, b)
      BY <2>1, ConcatEmptySeq
    <3>. QED BY <2>1, <2>16, <3>3, <3>5, <3>6, <3>7, Zenon
  <2>. QED BY <2>10, <2>17, <2>18, <2>19
<1>3. Seq(OrdinaryByte) \subseteq T
  <2> HIDE DEF T
  <2>. QED BY <1>1, <1>2, SequenceInduction
<1>. QED BY <1>3

\* A piece that is complete.
LEMMA OrdinaryUnderstood ==
  ASSUME NEW e \in Escapes, NEW s \in Seq(OrdinaryByte), Decoded(s).valid = TRUE,
         Decoded(s).open = <<>>
  PROVE  Understands(e, s)
<1>1. PICK t \in Seq(OrdinaryByte) :
        \E o \in Opens : s = t \o o /\ Decoded(s).open = o /\ Understands(e, t)
  BY OrdinaryBegins, Zenon DEF BeginsOrdinary
<1>2. s = t \o <<>> /\ Understands(e, t)
  BY <1>1, Zenon
<1>3. t \o <<>> = t
  BY ConcatEmptySeq
<1>. QED BY <1>2, <1>3, Zenon

(***************************************************************************)
(* What the parser makes of an ordinary source.                            *)
(***************************************************************************)

\* What is filtered apart, filtered together.
LEMMA SiftedTogether ==
  ASSUME NEW e \in Escapes, NEW s \in Seq(Byte), NEW t \in Seq(Byte), NEW p \in Seq(Byte),
         NEW q \in Seq(Byte), Sifts(e, s, p), Sifts(e, t, q)
  PROVE  Sifts(e, s \o t, p \o q)
<1>1. <<>> \in Held(e) /\ <<>> \in Seq(Byte)
  BY HeldBytes, EmptySeq
<1>2. PICK n \in Held(e), r \in Seq(Byte) :
        \A o \in Seq(Byte) :
          SiftedAll(e, [match |-> <<>>, output |-> o], t) = [match |-> n, output |-> o \o r]
  <2>1. SiftsApart(e, t)
    BY SiftedApart
  <2>. QED BY <1>1, <2>1, Zenon DEF SiftsApart
<1>3. n = <<>> /\ r = q
  <2>1. <<>> \o r = r
    BY ConcatEmptySeq
  <2>2. [match |-> <<>>, output |-> q] = [match |-> n, output |-> r]
    BY <1>1, <1>2, <2>1, Zenon DEF Sifts, SiftedTo, NothingYet
  <2>. QED BY <2>2
<1>4. SiftedAll(e, NothingYet, s \o t) = SiftedAll(e, [match |-> <<>>, output |-> p], t)
  <2>1. AsOne(e, NothingYet, s, t)
    BY SiftedOn
  <2>. QED BY <2>1, Zenon DEF AsOne, Sifts, SiftedTo
<1>. QED BY <1>2, <1>3, <1>4, Zenon DEF Sifts, SiftedTo

\* Markup is not changed by a filter.
LEMMA MarkupSifted ==
  ASSUME NEW e \in Escapes PROVE Sifts(e, <<"<">>, <<"<">>)
<1>1. /\ <<>> \in Held(e) /\ <<>> \in Seq(Byte) /\ "<" \in Byte /\ "<" # "EE" /\ "<" # "08"
      /\ <<"<">> \in Seq(Byte)
  BY HeldBytes, EmptySeq, KindsOfBytes
<1>2. PICK b \in Byte : b = "<"
  BY <1>1
<1>3. SiftedTo(e, <<>>, <<>>, <<>>)
  <2>1. PICK f : f = NothingYet
    OBVIOUS
  <2>2. SiftedAll(e, f, <<>>) = f
    BY <1>1, SiftedFold
  <2>. QED BY <2>1, <2>2, Zenon DEF SiftedTo, NothingYet
<1>4. /\ <<>> # <<"EE">> /\ <<>> # <<"EE", e.escape[2]>>
      /\ Append(<<>>, b) = <<b>>
  <2>1. FirstByte(b, b, b)
    BY Beginnings, Zenon
  <2>2. <<>> # <<"EE">> /\ <<>> # <<"EE", e.escape[2]>>
    OBVIOUS
  <2>. QED BY <2>1, <2>2, Zenon DEF FirstByte
<1>5. Holds(e, <<>>, b) = <<>> /\ Hands(e, <<>>, b) = <<>> \o <<b>>
  BY <1>1, <1>2, <1>4, Zenon DEF Holds, Hands, Single
<1>6. <<>> \o <<b>> = <<b>>
  BY <1>1, <1>2, ConcatEmptySeq
<1>7. <<>> \o Hands(e, <<>>, b) = <<b>>
  BY <1>5, <1>6, Zenon
<1>8. SiftedTo(e, Append(<<>>, b), <<>>, <<b>>)
  BY <1>1, <1>3, <1>5, <1>7, SiftsByte, Zenon
<1>. QED BY <1>2, <1>4, <1>8, Zenon DEF Sifts

\* Three pieces with markup between them.
Pieced(p, q, r) == ((((p \o <<"<">>) \o q) \o <<"<">>) \o r)

PiecesFound(p, q, r) ==
  /\ Markup(Pieced(p, q, r), 1) = Len(p) + 1
  /\ Markup(Pieced(p, q, r), 2) = Len(p) + Len(q) + 2
  /\ SubSeq(Pieced(p, q, r), 1, Len(p)) = p
  /\ SubSeq(Pieced(p, q, r), Len(p) + 2, Len(p) + Len(q) + 1) = q
  /\ SubSeq(Pieced(p, q, r), Len(p) + Len(q) + 3, Len(Pieced(p, q, r))) = r

\* Where an element of two sequences is.
Joins(s, t, u) ==
  /\ Len(u) = Len(s) + Len(t) /\ Len(s) \in Nat /\ Len(t) \in Nat
  /\ \A i \in 1..Len(s) : u[i] = s[i]
  /\ \A i \in (Len(s) + 1)..Len(u) : u[i] = t[i - Len(s)]

LEMMA ConcatIndex ==
  ASSUME NEW A, NEW s \in Seq(A), NEW t \in Seq(A), NEW u, u = s \o t
  PROVE  u \in Seq(A) /\ Joins(s, t, u)
<1>1. Len(s) \in Nat /\ Len(t) \in Nat
  BY LenProperties
<1>2. /\ s \o t \in Seq(A) /\ Len(s \o t) = Len(s) + Len(t)
      /\ \A i \in 1..(Len(s) + Len(t)) :
           (s \o t)[i] = IF i <= Len(s) THEN s[i] ELSE t[i - Len(s)]
  BY ConcatProperties
<1>3. \A i \in 1..Len(s) : u[i] = s[i]
  BY <1>1, <1>2
<1>4. \A i \in (Len(s) + 1)..Len(u) : u[i] = t[i - Len(s)]
  BY <1>1, <1>2
<1>. QED BY <1>1, <1>2, <1>3, <1>4 DEF Joins

\* Where the markup of a source is.
LEMMA PiecesAre ==
  ASSUME NEW p \in Seq(Plain), NEW q \in Seq(Plain), NEW r \in Seq(Plain)
  PROVE  PiecesFound(p, q, r)
<1> DEFINE A == Byte \cup Plain
<1>1. "<" \in A /\ "<" \notin Plain /\ Plain \subseteq A
  BY KindsOfBytes DEF Plain
<1>2. ASSUME NEW s \in Seq(Plain)
      PROVE  s \in Seq(A) /\ Len(s) \in Nat /\ \A i \in 1..Len(s) : s[i] # "<"
  <2>1. Len(s) \in Nat /\ s \in [1..Len(s) -> Plain]
    BY LenProperties
  <2>2. Includes(A, Plain)
    <3> HIDE DEF A
    <3>. QED BY <1>1, SeqIncludes
  <2>3. s \in Seq(A)
    <3> HIDE DEF A
    <3>. QED BY <2>2, Zenon DEF Includes
  <2>. QED BY <1>1, <2>1, <2>3
<1>3. PICK m \in Seq(A) : m = <<"<">>
  <2> HIDE DEF A
  <2>1. <<"<">> \in Seq(A)
    BY <1>1
  <2>. QED BY <2>1
<1>4. Len(m) = 1 /\ m[1] = "<"
  BY <1>3
<1> HIDE DEF A
<1>5. PICK a : a = p \o m
  OBVIOUS
<1>6. PICK b : b = a \o q
  OBVIOUS
<1>7. PICK c : c = b \o m
  OBVIOUS
<1>8. PICK w : w = c \o r
  OBVIOUS
<1>9. /\ a \in Seq(A) /\ Len(a) = Len(p) + 1
      /\ \A i \in 1..Len(p) : a[i] = p[i]
      /\ a[Len(p) + 1] = "<"
  <2>1. /\ a \in Seq(A) /\ Len(a) = Len(p) + Len(m) /\ Len(p) \in Nat
        /\ \A i \in 1..Len(p) : a[i] = p[i]
        /\ \A i \in (Len(p) + 1)..Len(a) : a[i] = m[i - Len(p)]
    <3>1. p \in Seq(A) /\ m \in Seq(A)
      BY <1>2
    <3>2. a \in Seq(A) /\ Joins(p, m, a)
      BY <1>5, <3>1, ConcatIndex
    <3>. QED BY <3>2 DEF Joins
  <2>2. Len(p) + 1 \in (Len(p) + 1)..Len(a) /\ (Len(p) + 1) - Len(p) = 1
    BY <1>4, <2>1
  <2>3. a[Len(p) + 1] = m[1]
    BY <2>1, <2>2
  <2>. QED BY <1>4, <2>1, <2>3
<1>10. /\ b \in Seq(A) /\ Len(b) = Len(a) + Len(q)
       /\ \A i \in 1..Len(a) : b[i] = a[i]
       /\ \A i \in (Len(a) + 1)..Len(b) : b[i] = q[i - Len(a)]
  <2>1. a \in Seq(A) /\ q \in Seq(A)
    BY <1>2, <1>9
  <2>2. b \in Seq(A) /\ Joins(a, q, b)
    BY <1>6, <2>1, ConcatIndex
  <2>. QED BY <2>2 DEF Joins
<1>11. /\ c \in Seq(A) /\ Len(c) = Len(b) + 1
       /\ \A i \in 1..Len(b) : c[i] = b[i]
       /\ c[Len(b) + 1] = "<"
  <2>1. /\ c \in Seq(A) /\ Len(c) = Len(b) + Len(m) /\ Len(b) \in Nat
        /\ \A i \in 1..Len(b) : c[i] = b[i]
        /\ \A i \in (Len(b) + 1)..Len(c) : c[i] = m[i - Len(b)]
    <3>1. b \in Seq(A) /\ m \in Seq(A)
      BY <1>10
    <3>2. c \in Seq(A) /\ Joins(b, m, c)
      BY <1>7, <3>1, ConcatIndex
    <3>. QED BY <3>2 DEF Joins
  <2>2. Len(b) + 1 \in (Len(b) + 1)..Len(c) /\ (Len(b) + 1) - Len(b) = 1
    BY <1>4, <2>1
  <2>3. c[Len(b) + 1] = m[1]
    BY <2>1, <2>2
  <2>. QED BY <1>4, <2>1, <2>3
<1>12. /\ w \in Seq(A) /\ Len(w) = Len(c) + Len(r)
       /\ \A i \in 1..Len(c) : w[i] = c[i]
       /\ \A i \in (Len(c) + 1)..Len(w) : w[i] = r[i - Len(c)]
  <2>1. c \in Seq(A) /\ r \in Seq(A)
    BY <1>2, <1>11
  <2>2. w \in Seq(A) /\ Joins(c, r, w)
    BY <1>8, <2>1, ConcatIndex
  <2>. QED BY <2>2 DEF Joins
<1>13. Len(p) \in Nat /\ Len(q) \in Nat /\ Len(r) \in Nat
  BY <1>2
<1>14. PICK x \in Nat, y \in Nat, z \in Nat : x = Len(p) /\ y = Len(q) /\ z = Len(r)
  BY <1>13
<1>15. Len(a) = x + 1 /\ Len(b) = x + y + 1 /\ Len(c) = x + y + 2 /\ Len(w) = x + y + z + 2
  BY <1>9, <1>10, <1>11, <1>12, <1>14
<1>16. \A i \in 1..x : w[i] = p[i]
  <2> TAKE i \in 1..x
  <2>1. i \in 1..Len(p) /\ i \in 1..Len(a) /\ i \in 1..Len(b) /\ i \in 1..Len(c)
    BY <1>14, <1>15
  <2>. QED BY <1>9, <1>10, <1>11, <1>12, <2>1
<1>17. w[x + 1] = "<"
  <2>1. x + 1 \in 1..Len(a) /\ x + 1 \in 1..Len(b) /\ x + 1 \in 1..Len(c)
    BY <1>14, <1>15
  <2>2. w[x + 1] = a[x + 1]
    BY <1>10, <1>11, <1>12, <2>1
  <2>. QED BY <1>9, <1>14, <2>2
<1>18. \A i \in 1..y : w[x + 1 + i] = q[i]
  <2> TAKE i \in 1..y
  <2>1. /\ x + 1 + i \in (Len(a) + 1)..Len(b) /\ (x + 1 + i) - Len(a) = i
        /\ x + 1 + i \in 1..Len(b) /\ x + 1 + i \in 1..Len(c)
    BY <1>14, <1>15
  <2>2. b[x + 1 + i] = q[(x + 1 + i) - Len(a)]
    BY <1>10, <2>1
  <2>. QED BY <1>11, <1>12, <2>1, <2>2
<1>19. w[x + y + 2] = "<"
  <2>1. x + y + 2 \in 1..Len(c) /\ x + y + 2 = Len(b) + 1
    BY <1>14, <1>15
  <2>. QED BY <1>11, <1>12, <2>1
<1>20. \A i \in 1..z : w[x + y + 2 + i] = r[i]
  <2> TAKE i \in 1..z
  <2>1. x + y + 2 + i \in (Len(c) + 1)..Len(w) /\ (x + y + 2 + i) - Len(c) = i
    BY <1>14, <1>15
  <2>. QED BY <1>12, <2>1
<1>21. Pieced(p, q, r) = w
  BY <1>3, <1>5, <1>6, <1>7, <1>8, Zenon DEF Pieced
<1>22. DOMAIN w = 1..(x + y + z + 2)
  BY <1>12, <1>15, LenProperties
<1>23. /\ \A i \in 1..x : w[i] # "<"
       /\ \A i \in (x + 2)..(x + y + 1) : w[i] # "<"
       /\ \A i \in (x + y + 3)..(x + y + z + 2) : w[i] # "<"
  <2>1. ASSUME NEW i \in 1..x PROVE w[i] # "<"
    BY <1>2, <1>14, <1>16
  <2>2. ASSUME NEW i \in (x + 2)..(x + y + 1) PROVE w[i] # "<"
    <3>1. i - (x + 1) \in 1..y /\ x + 1 + (i - (x + 1)) = i
      OBVIOUS
    <3>2. w[i] = q[i - (x + 1)]
      BY <1>18, <3>1
    <3>. QED BY <1>2, <1>14, <3>1, <3>2
  <2>3. ASSUME NEW i \in (x + y + 3)..(x + y + z + 2) PROVE w[i] # "<"
    <3>1. i - (x + y + 2) \in 1..z /\ x + y + 2 + (i - (x + y + 2)) = i
      OBVIOUS
    <3>2. w[i] = r[i - (x + y + 2)]
      BY <1>20, <3>1
    <3>. QED BY <1>2, <1>14, <3>1, <3>2
  <2>. QED BY <2>1, <2>2, <2>3
<1>24. \A i \in DOMAIN w : w[i] = "<" <=> i = x + 1 \/ i = x + y + 2
  <2> SUFFICES ASSUME NEW i \in 1..(x + y + z + 2)
               PROVE  w[i] = "<" <=> i = x + 1 \/ i = x + y + 2
    BY <1>22
  <2>1. CASE i = x + 1
    BY <1>17, <2>1
  <2>2. CASE i = x + y + 2
    BY <1>19, <2>2
  <2>3. CASE i # x + 1 /\ i # x + y + 2
    <3>1. i \in 1..x \/ i \in (x + 2)..(x + y + 1) \/ i \in (x + y + 3)..(x + y + z + 2)
      BY <2>3
    <3>2. w[i] # "<"
      BY <1>23, <3>1
    <3>. QED BY <2>3, <3>2
  <2>. QED BY <2>1, <2>2, <2>3
<1>25. Markup(w, 1) = x + 1
  <2> DEFINE P(i) == w[i] = "<" /\ (1 = 1 <=> \A j \in 1..(i - 1) : w[j] # "<")
  <2>1. x + 1 \in DOMAIN w /\ P(x + 1)
    <3>1. (x + 1) - 1 = x /\ x + 1 \in DOMAIN w
      BY <1>22
    <3>. QED BY <1>17, <1>23, <3>1
  <2>2. ASSUME NEW i \in DOMAIN w, P(i) PROVE i = x + 1
    <3>1. ~(i = x + y + 2)
      <4> SUFFICES ASSUME i = x + y + 2 PROVE FALSE
        OBVIOUS
      <4>1. x + 1 \in 1..(i - 1)
        OBVIOUS
      <4>. QED BY <1>17, <2>2, <4>1
    <3>. QED BY <1>24, <2>2, <3>1
  <2>3. Markup(w, 1) = CHOOSE i \in DOMAIN w : P(i)
    BY Zenon DEF Markup
  <2> HIDE DEF P
  <2>. QED BY <2>1, <2>2, <2>3
<1>26. Markup(w, 2) = x + y + 2
  <2> DEFINE P(i) == w[i] = "<" /\ (2 = 1 <=> \A j \in 1..(i - 1) : w[j] # "<")
  <2>1. x + y + 2 \in DOMAIN w /\ P(x + y + 2)
    <3>1. x + 1 \in 1..((x + y + 2) - 1) /\ x + y + 2 \in DOMAIN w
      BY <1>22
    <3>. QED BY <1>17, <1>19, <3>1
  <2>2. ASSUME NEW i \in DOMAIN w, P(i) PROVE i = x + y + 2
    <3>1. ~(i = x + 1)
      <4> SUFFICES ASSUME i = x + 1 PROVE FALSE
        OBVIOUS
      <4>1. i - 1 = x
        OBVIOUS
      <4>. QED BY <1>23, <2>2, <4>1
    <3>. QED BY <1>24, <2>2, <3>1
  <2>3. Markup(w, 2) = CHOOSE i \in DOMAIN w : P(i)
    BY Zenon DEF Markup
  <2> HIDE DEF P
  <2>. QED BY <2>1, <2>2, <2>3
<1>27. \A i \in 1..Len(w) : w[i] \in A
  BY <1>12, ElementOfSeq
<1>28. SubSeq(w, 1, x) = p
  <2>1. \A i \in 1..x : w[i] \in A
    BY <1>15, <1>27
  <2>2. /\ SubSeq(w, 1, x) \in Seq(A) /\ Len(SubSeq(w, 1, x)) = x
        /\ \A i \in 1..x : SubSeq(w, 1, x)[i] = w[1 + i - 1]
    BY <2>1, SubSeqProperties
  <2>3. \A i \in 1..x : SubSeq(w, 1, x)[i] = p[i]
    BY <1>16, <2>2
  <2>. QED BY <1>2, <1>14, <2>2, <2>3, SeqEqual
<1>29. SubSeq(w, x + 2, x + y + 1) = q
  <2>1. \A i \in (x + 2)..(x + y + 1) : w[i] \in A
    BY <1>15, <1>27
  <2>2. /\ SubSeq(w, x + 2, x + y + 1) \in Seq(A) /\ Len(SubSeq(w, x + 2, x + y + 1)) = y
        /\ \A i \in 1..y : SubSeq(w, x + 2, x + y + 1)[i] = w[x + 2 + i - 1]
    BY <2>1, SubSeqProperties
  <2>3. \A i \in 1..y : x + 2 + i - 1 = x + 1 + i
    OBVIOUS
  <2>4. \A i \in 1..y : SubSeq(w, x + 2, x + y + 1)[i] = q[i]
    BY <1>18, <2>2, <2>3
  <2>. QED BY <1>2, <1>14, <2>2, <2>4, SeqEqual
<1>30. SubSeq(w, x + y + 3, Len(w)) = r
  <2>1. \A i \in (x + y + 3)..Len(w) : w[i] \in A
    BY <1>15, <1>27
  <2>2. /\ SubSeq(w, x + y + 3, Len(w)) \in Seq(A) /\ Len(SubSeq(w, x + y + 3, Len(w))) = z
        /\ \A i \in 1..z : SubSeq(w, x + y + 3, Len(w))[i] = w[x + y + 3 + i - 1]
    BY <1>15, <2>1, SubSeqProperties
  <2>3. \A i \in 1..z : x + y + 3 + i - 1 = x + y + 2 + i
    OBVIOUS
  <2>4. \A i \in 1..z : SubSeq(w, x + y + 3, Len(w))[i] = r[i]
    BY <1>20, <2>2, <2>3
  <2>. QED BY <1>2, <1>14, <2>2, <2>4, SeqEqual
<1>31. /\ Markup(w, 1) = Len(p) + 1 /\ Markup(w, 2) = Len(p) + Len(q) + 2
       /\ SubSeq(w, 1, Len(p)) = p
       /\ SubSeq(w, Len(p) + 2, Len(p) + Len(q) + 1) = q
       /\ SubSeq(w, Len(p) + Len(q) + 3, Len(w)) = r
  BY <1>14, <1>25, <1>26, <1>28, <1>29, <1>30, Zenon
<1>. QED BY <1>21, <1>31, Zenon DEF PiecesFound

OrdinarySource(s) == \A bytes \in {s.name, s.value, s.text} : Ordinary(bytes)

\* The bytes of an ordinary piece.
LEMMA OrdinaryPiece ==
  ASSUME NEW b \in Seq(STRING \ {"<", "0D"}), Ordinary(b)
  PROVE  b \in Seq(OrdinaryByte) /\ b \in Seq(Byte) /\ Decoded(b).valid = TRUE /\ Decoded(b).open = <<>>
<1>1. Len(b) \in Nat /\ b \in [1..Len(b) -> STRING \ {"<", "0D"}] /\ DOMAIN b = 1..Len(b)
  BY LenProperties
<1>2. \A i \in 1..Len(b) : b[i] \notin {"&#xE000;", "&#xE100;", "&#13;"}
  BY <1>1, Zenon DEF Ordinary, Refers
<1>3. \A i \in 1..Len(b) : b[i] \in OrdinaryByte /\ b[i] \in Byte
  BY <1>1, <1>2, Zenon DEF OrdinaryByte, Strange, Byte
<1>4. b \in [1..Len(b) -> OrdinaryByte] /\ b \in [1..Len(b) -> Byte]
  BY <1>1, <1>3
<1>5. b \in Seq(OrdinaryByte) /\ b \in Seq(Byte)
  BY <1>1, <1>4, IsSequence, Zenon
<1>6. HasDecoder(b)
  BY <1>5, DecodedType
<1>7. Decoded(b).valid \in BOOLEAN
  BY <1>6 DEF HasDecoder, Decoder
<1>. QED BY <1>5, <1>7, Zenon DEF Ordinary

\* A reader that has read these characters.
ReadsPiece(e, inText, p, k) ==
  (IF inText THEN TextRead(e, p) ELSE AttributeRead(e, p)) = Reader(k, FALSE)

LEMMA PieceRead ==
  ASSUME NEW e, NEW t \in BOOLEAN, NEW p, NEW d, NEW k, Decodes(p, d), ReadsOn(e, t, d, k, FALSE)
  PROVE  ReadsPiece(e, t, p, k)
<1>1. PICK g : g = Decoded(p)
  OBVIOUS
<1>2. g = Decoder(d, <<>>, TRUE)
  BY <1>1, Zenon DEF Decodes
<1>3. g.chars = d /\ g.open = <<>> /\ g.valid = TRUE
  BY <1>2 DEF Decoder
<1>4. PICK r : r = Reader(k, FALSE)
  OBVIOUS
<1>5. r.valid = TRUE
  BY <1>4 DEF Reader
<1>6. Read(g, r) = [r EXCEPT !.valid = r.valid /\ g.valid /\ g.open = <<>>]
  BY DEF Read
<1>7. PICK v : v = (r.valid /\ g.valid /\ g.open = <<>>)
  OBVIOUS
<1>8. v = TRUE
  BY <1>3, <1>5, <1>7
<1>9. Read(g, r) = [r EXCEPT !.valid = TRUE]
  BY <1>3, <1>5, <1>6
<1>10. [r EXCEPT !.valid = TRUE] = r
  <2>1. ReaderWith(k, FALSE, TRUE, TRUE)
    BY ReaderWithIs, Zenon
  <2>. QED BY <1>4, <2>1, Zenon DEF ReaderWith, Reader
<1>11. ReadsAll(e, t, g.chars) = r
  BY <1>3, <1>4, Zenon DEF ReadsOn
<1>12. CASE t
  <2>1. TextRead(e, p) = Read(g, TextChars(e, g.chars))
    BY <1>1, Zenon DEF TextRead
  <2>. QED BY <1>4, <1>9, <1>10, <1>11, <1>12, <2>1, Zenon DEF ReadsAll, ReadsPiece
<1>13. CASE ~t
  <2>1. AttributeRead(e, p) = Read(g, AttributeChars(e, g.chars))
    BY <1>1, Zenon DEF AttributeRead
  <2>. QED BY <1>4, <1>9, <1>10, <1>11, <1>13, <2>1, Zenon DEF ReadsAll, ReadsPiece
<1>. QED BY <1>12, <1>13

\* A piece is handed out without "<" and read as it is meant.
PieceMeant(e, b, p) ==
  /\ Sifts(e, b, p)
  /\ \A t \in BOOLEAN : ReadsPiece(e, t, p, Meant(b))
  /\ Meant(b) \in Seq(Letter) /\ (b # <<>> => Meant(b) # <<>>)

LEMMA PieceIsMeant ==
  ASSUME NEW e \in Escapes, NEW b \in Seq(STRING \ {"<", "0D"}), Ordinary(b)
  PROVE  \E p \in Seq(Plain) : PieceMeant(e, b, p)
<1>1. Understands(e, b)
  BY OrdinaryPiece, OrdinaryUnderstood
<1>2. PICK c \in Seq(OrdinaryChar), p \in Seq(Plain), d \in Seq(Char) : Understood(e, b, c, p, d)
  BY <1>1, Zenon DEF Understands
<1>3. /\ Decodes(b, c) /\ (c = <<>> => b = <<>>) /\ Sifts(e, b, p) /\ Decodes(p, d)
      /\ \A t \in BOOLEAN : ReadsOn(e, t, d, Meanings(c), FALSE)
  BY <1>2, Zenon DEF Understood
<1>4. Meant(b) = Meanings(c)
  <2>1. PICK g : g = Decoded(b)
    OBVIOUS
  <2>2. g = Decoder(c, <<>>, TRUE)
    BY <1>3, <2>1, Zenon DEF Decodes
  <2>3. g.chars = c
    BY <2>2 DEF Decoder
  <2>. QED BY <2>1, <2>3 DEF Meant, Meanings
<1>5. Meanings(c) \in Seq(Letter)
  BY MeaningsIs
<1>6. c # <<>> => Meanings(c) # <<>>
  <2>1. DOMAIN Meanings(c) = DOMAIN c
    BY DEF Meanings
  <2>2. DOMAIN <<>> = {}
    OBVIOUS
  <2>3. DOMAIN c = 1..Len(c) /\ Len(c) \in Nat
    BY LenProperties
  <2>4. c # <<>> => Len(c) # 0
    BY EmptySeq
  <2>5. c # <<>> => 1 \in DOMAIN Meanings(c)
    BY <2>1, <2>3, <2>4
  <2>. QED BY <2>2, <2>5
<1>7. \A t \in BOOLEAN : ReadsPiece(e, t, p, Meanings(c))
  BY <1>3, PieceRead, Zenon
<1>. QED BY <1>3, <1>4, <1>5, <1>6, <1>7, Zenon DEF PieceMeant

\* The parser reads an ordinary source as XML means it, behind either filter.
ParsedMeans(e, s) ==
  /\ Parsed(e, Whole(e, Bytes(s))) = [name |-> Reader(Meant(s.name), FALSE),
                                      value |-> Reader(Meant(s.value), FALSE),
                                      text |-> Reader(Meant(s.text), FALSE)]
  /\ Meant(s.name) \in Seq(Letter) /\ Meant(s.value) \in Seq(Letter)
  /\ Meant(s.text) \in Seq(Letter) /\ Meant(s.name) # <<>>

LEMMA OrdinaryParsed ==
  ASSUME NEW e \in Escapes, NEW s \in Sources, OrdinarySource(s)
  PROVE  ParsedMeans(e, s)
<1> DEFINE Piece == Seq(STRING \ {"<", "0D"})
<1>1. s.name \in Piece /\ s.name # <<>> /\ s.value \in Piece /\ s.text \in Piece
  BY SourcesAssumption
<1>2. Ordinary(s.name) /\ Ordinary(s.value) /\ Ordinary(s.text)
  BY DEF OrdinarySource
<1>3. PICK p \in Seq(Plain) : PieceMeant(e, s.name, p)
  BY <1>1, <1>2, PieceIsMeant
<1>4. PICK q \in Seq(Plain) : PieceMeant(e, s.value, q)
  BY <1>1, <1>2, PieceIsMeant
<1>5. PICK r \in Seq(Plain) : PieceMeant(e, s.text, r)
  BY <1>1, <1>2, PieceIsMeant
<1>6. s.name \in Seq(Byte) /\ s.value \in Seq(Byte) /\ s.text \in Seq(Byte)
  BY <1>1, <1>2, OrdinaryPiece
<1>7. p \in Seq(Byte) /\ q \in Seq(Byte) /\ r \in Seq(Byte)
  <2>1. Plain \subseteq Byte
    BY DEF Plain
  <2>2. Includes(Byte, Plain)
    BY <2>1, SeqIncludes
  <2>. QED BY <2>2, Zenon DEF Includes
<1>8. Sifts(e, s.name, p) /\ Sifts(e, s.value, q) /\ Sifts(e, s.text, r)
  BY <1>3, <1>4, <1>5, Zenon DEF PieceMeant
<1>9. PICK m \in Seq(Byte) : m = <<"<">>
  <2>1. "<" \in Byte
    BY KindsOfBytes
  <2>2. <<"<">> \in Seq(Byte)
    BY <2>1
  <2>. QED BY <2>2
<1>10. Sifts(e, m, m)
  BY <1>9, MarkupSifted, Zenon
<1>11. ASSUME NEW a \in Seq(Byte), NEW b \in Seq(Byte) PROVE a \o b \in Seq(Byte)
  BY ConcatProperties
<1>12. PICK a1 \in Seq(Byte) : a1 = s.name \o m
  BY <1>6, <1>11
<1>13. PICK b1 \in Seq(Byte) : b1 = p \o m
  BY <1>7, <1>11
<1>14. PICK a2 \in Seq(Byte) : a2 = a1 \o s.value
  BY <1>6, <1>11
<1>15. PICK b2 \in Seq(Byte) : b2 = b1 \o q
  BY <1>7, <1>11
<1>16. PICK a3 \in Seq(Byte) : a3 = a2 \o m
  BY <1>11
<1>17. PICK b3 \in Seq(Byte) : b3 = b2 \o m
  BY <1>11
<1>18. PICK a4 \in Seq(Byte) : a4 = a3 \o s.text
  BY <1>6, <1>11
<1>19. PICK b4 \in Seq(Byte) : b4 = b3 \o r
  BY <1>7, <1>11
<1>20. Sifts(e, a1, b1)
  BY <1>6, <1>7, <1>8, <1>10, <1>12, <1>13, SiftedTogether, Zenon
<1>21. Sifts(e, a2, b2)
  BY <1>6, <1>7, <1>8, <1>14, <1>15, <1>20, SiftedTogether, Zenon
<1>22. Sifts(e, a3, b3)
  BY <1>10, <1>16, <1>17, <1>21, SiftedTogether, Zenon
<1>23. Sifts(e, a4, b4)
  BY <1>6, <1>7, <1>8, <1>18, <1>19, <1>22, SiftedTogether, Zenon
<1>24. Bytes(s) = a4
  BY <1>9, <1>12, <1>14, <1>16, <1>18, Zenon DEF Bytes
<1>25. Pieced(p, q, r) = b4
  BY <1>9, <1>13, <1>15, <1>17, <1>19, Zenon DEF Pieced
<1>26. Whole(e, Bytes(s)) = b4
  <2>1. PICK f : f = SiftedAll(e, NothingYet, a4)
    OBVIOUS
  <2>2. f = [match |-> <<>>, output |-> b4]
    BY <1>23, <2>1, Zenon DEF Sifts, SiftedTo
  <2>3. f.match = <<>> /\ f.output = b4
    BY <2>2
  <2>4. b4 \o <<>> = b4
    BY ConcatEmptySeq
  <2>. QED BY <1>24, <2>1, <2>3, <2>4, Zenon DEF Whole
<1>27. /\ Markup(b4, 1) = Len(p) + 1 /\ Markup(b4, 2) = Len(p) + Len(q) + 2
       /\ SubSeq(b4, 1, Len(p)) = p
       /\ SubSeq(b4, Len(p) + 2, Len(p) + Len(q) + 1) = q
       /\ SubSeq(b4, Len(p) + Len(q) + 3, Len(b4)) = r
  <2>1. PiecesFound(p, q, r)
    BY PiecesAre
  <2>. QED BY <1>25, <2>1, Zenon DEF PiecesFound
<1>28. /\ SubSeq(b4, 1, Markup(b4, 1) - 1) = p
       /\ SubSeq(b4, Markup(b4, 1) + 1, Markup(b4, 2) - 1) = q
       /\ SubSeq(b4, Markup(b4, 2) + 1, Len(b4)) = r
  <2>1. Len(p) \in Nat /\ Len(q) \in Nat
    BY LenProperties
  <2>2. PICK x \in Nat, y \in Nat : x = Len(p) /\ y = Len(q)
    BY <2>1
  <2>3. PICK k : k = Markup(b4, 1)
    OBVIOUS
  <2>4. PICK l : l = Markup(b4, 2)
    OBVIOUS
  <2>5. k = x + 1 /\ l = x + y + 2
    BY <1>27, <2>2, <2>3, <2>4, Zenon
  <2>6. k - 1 = x /\ k + 1 = x + 2 /\ l - 1 = x + y + 1 /\ l + 1 = x + y + 3
    BY <2>5
  <2>. QED BY <1>27, <2>2, <2>3, <2>4, <2>6, Zenon
<1>29. Parsed(e, b4) = [name |-> AttributeRead(e, p), value |-> AttributeRead(e, q),
                        text |-> TextRead(e, r)]
  BY <1>28, Zenon DEF Parsed
<1>30. /\ AttributeRead(e, p) = Reader(Meant(s.name), FALSE)
       /\ AttributeRead(e, q) = Reader(Meant(s.value), FALSE)
       /\ TextRead(e, r) = Reader(Meant(s.text), FALSE)
  <2>1. TRUE \in BOOLEAN /\ FALSE \in BOOLEAN
    OBVIOUS
  <2>2. ReadsPiece(e, FALSE, p, Meant(s.name)) /\ ReadsPiece(e, FALSE, q, Meant(s.value))
        /\ ReadsPiece(e, TRUE, r, Meant(s.text))
    BY <1>3, <1>4, <1>5, <2>1, Zenon DEF PieceMeant
  <2>. QED BY <2>2 DEF ReadsPiece
<1>31. /\ Meant(s.name) \in Seq(Letter) /\ Meant(s.value) \in Seq(Letter)
       /\ Meant(s.text) \in Seq(Letter) /\ Meant(s.name) # <<>>
  BY <1>1, <1>3, <1>4, <1>5, Zenon DEF PieceMeant
<1>. QED BY <1>26, <1>29, <1>30, <1>31, Zenon DEF ParsedMeans

(***************************************************************************)
(* The audit reads a page event by event: as a function of its state.      *)
(***************************************************************************)

St(s, r, h, f) == [stack |-> s, record |-> r, heading |-> h, found |-> f, ok |-> TRUE]
Failed == [stack |-> <<>>, record |-> <<>>, heading |-> <<>>, found |-> NoSummary, ok |-> FALSE]

CapturedBy(r, e) ==
  CASE r = <<>> /\ e.class = "record" ->
         <<[kind |-> e.kind, depth |-> e.depth, name |-> <<>>, attributes |-> <<>>,
            current |-> <<>>, value |-> <<>>]>>
    [] r # <<>> /\ e.class = "xml-attribute" ->
         [r EXCEPT ![1].current = <<[name |-> <<>>, value |-> <<>>]>>]
    [] OTHER -> r

ContextOf(r, h, e) ==
  [recordRoot |-> r = <<>> /\ e.class = "record",
   attributeRoot |-> r # <<>> /\ e.class = "xml-attribute",
   headingRoot |-> h = <<>> /\ e.class = "entry-heading",
   target |-> IF r # <<>> /\ e.class \in Targets THEN e.class ELSE "",
   control |-> e.class = "xml-control"]

StartFails(s, r, h, e) ==
  \/ e.class = "xml-attribute" /\ r # <<>> /\ r[1].current # <<>>
  \/ /\ e.class = "xml-control"
     /\ Misplaced(CapturedBy(r, e), TargetOf(Append(s, ContextOf(r, h, e))))

StartStep(s, r, h, f, e) ==
  IF StartFails(s, r, h, e) THEN Failed
  ELSE St(Append(s, ContextOf(r, h, e)),
          IF e.class = "xml-control"
            THEN Appended(CapturedBy(r, e), TargetOf(Append(s, ContextOf(r, h, e))), e.char)
            ELSE CapturedBy(r, e),
          IF ContextOf(r, h, e).headingRoot THEN <<<<>>>>
          ELSE IF e.class = "xml-control" /\ h # <<>> THEN <<Append(h[1], e.char)>>
          ELSE h,
          [f EXCEPT !.entries = IF e.class = "entry" THEN @ + 1 ELSE @])

Controlled(s) == \E i \in DOMAIN s : s[i].control
TextTarget(s, r) == IF r = <<>> \/ Controlled(s) THEN "" ELSE TargetOf(s)

TextStep(s, r, h, f, e) ==
  IF Misplaced(r, TextTarget(s, r)) THEN Failed
  ELSE St(s, Appended(r, TextTarget(s, r), Normalized(e.char)),
          IF h # <<>> /\ ~Controlled(s) THEN <<Append(h[1], Normalized(e.char))>> ELSE h, f)

EndFails(r, c) ==
  \/ c.attributeRoot /\ r[1].current[1].name = <<>>
  \/ c.recordRoot /\ Unfinished(r[1])

EndStep(s, r, h, f, c) ==
  IF EndFails(r, c) THEN Failed
  ELSE St(SubSeq(s, 1, Len(s) - 1),
          CASE c.attributeRoot -> [r EXCEPT ![1].attributes = @ \o r[1].current, ![1].current = <<>>]
            [] c.recordRoot -> <<>>
            [] OTHER -> r,
          IF c.headingRoot THEN <<>> ELSE h,
          [f EXCEPT !.records = IF c.recordRoot THEN Append(@, Finished(r[1])) ELSE @,
                    !.headwords = IF c.headingRoot THEN Append(@, Trim(h[1])) ELSE @])

Step(st, e) ==
  IF ~st.ok THEN Failed
  ELSE IF e.type = "start" THEN StartStep(st.stack, st.record, st.heading, st.found, e)
  ELSE IF e.type = "text" THEN TextStep(st.stack, st.record, st.heading, st.found, e)
  ELSE EndStep(st.stack, st.record, st.heading, st.found, st.stack[Len(st.stack)])

Run(st, events) ==
  LET Upto[n \in 0..Len(events)] == IF n = 0 THEN st ELSE Step(Upto[n - 1], events[n])
  IN Upto[Len(events)]

\* One event more.
LEMMA RunFold ==
  ASSUME NEW st, NEW A, NEW s \in Seq(A), NEW a \in A
  PROVE  /\ Run(st, <<>>) = st
         /\ Run(st, Append(s, a)) = Step(Run(st, s), a)
<1> DEFINE E(f, t, n) == IF n = 0 THEN st ELSE Step(f[n - 1], t[n])
           Solves(f, t, m) == f = [n \in 0..m |-> E(f, t, n)]
           F(t) == CHOOSE f : Solves(f, t, Len(t))
<1>1. ASSUME NEW t, NEW m \in Nat PROVE \E f : Solves(f, t, m)
  <2> DEFINE N == {n \in Nat : \E f : Solves(f, t, n)}
  <2>1. 0 \in N
    <3>1. Solves([n \in 0..0 |-> st], t, 0)
      OBVIOUS
    <3>. QED BY <3>1, Zenon
  <2>2. ASSUME NEW n \in Nat, n \in N PROVE n + 1 \in N
    <3>1. PICK f : Solves(f, t, n)
      BY <2>2
    <3>2. \A k \in 0..n : f[k] = E(f, t, k)
      <4> HIDE DEF E
      <4>. QED BY <3>1
    <3> DEFINE g == [k \in 0..(n + 1) |-> IF k = n + 1 THEN Step(f[n], t[n + 1]) ELSE f[k]]
    <3>3. \A k \in 0..(n + 1) : g[k] = E(g, t, k)
      <4> TAKE k \in 0..(n + 1)
      <4>1. CASE k = 0
        <5>1. k # n + 1 /\ k \in 0..n
          BY <4>1
        <5>. QED BY <3>2, <4>1, <5>1
      <4>2. CASE k \in 1..n
        <5>1. k - 1 \in 0..(n + 1) /\ k - 1 # n + 1 /\ k # n + 1 /\ k # 0 /\ k \in 0..n
          BY <4>2
        <5>2. g[k - 1] = f[k - 1] /\ g[k] = f[k]
          BY <5>1
        <5>3. f[k] = Step(f[k - 1], t[k])
          BY <3>2, <5>1
        <5> HIDE DEF g
        <5>. QED BY <5>1, <5>2, <5>3
      <4>3. CASE k = n + 1
        <5>1. k - 1 = n /\ n \in 0..(n + 1) /\ n # n + 1 /\ k # 0
          BY <4>3
        <5>2. g[n] = f[n] /\ g[k] = Step(f[n], t[n + 1])
          BY <4>3, <5>1
        <5> HIDE DEF g
        <5>. QED BY <4>3, <5>1, <5>2
      <4>. QED BY <4>1, <4>2, <4>3
    <3>4. Solves(g, t, n + 1)
      <4>1. g = [k \in 0..(n + 1) |-> g[k]]
        OBVIOUS
      <4> HIDE DEF g, E
      <4>. QED BY <3>3, <4>1
    <3>5. n + 1 \in Nat
      OBVIOUS
    <3> HIDE DEF Solves, g
    <3>. QED BY <3>4, <3>5, Zenon
  <2>3. Nat \subseteq N
    <3> HIDE DEF N
    <3>. QED BY <2>1, <2>2, SetInduction
  <2>. QED BY <2>3
<1>2. ASSUME NEW t, Len(t) \in Nat
      PROVE  /\ F(t)[0] = st
             /\ \A n \in 1..Len(t) : F(t)[n] = Step(F(t)[n - 1], t[n])
  <2>1. PICK f : f = F(t)
    OBVIOUS
  <2>2. Solves(f, t, Len(t))
    <3> HIDE DEF Solves
    <3>. QED BY <1>1, <1>2, <2>1
  <2>3. \A n \in 0..Len(t) : f[n] = E(f, t, n)
    <3> HIDE DEF E
    <3>. QED BY <2>2
  <2> HIDE DEF F
  <2>. QED BY <1>2, <2>1, <2>3
<1>3. ASSUME NEW t PROVE Run(st, t) = F(t)[Len(t)]
  BY Zenon DEF Run
<1>4. /\ Len(<<>>) = 0 /\ Len(s) \in Nat /\ Len(Append(s, a)) = Len(s) + 1
      /\ \A n \in 1..Len(s) : Append(s, a)[n] = s[n]
      /\ Append(s, a)[Len(s) + 1] = a
  BY AppendProperties, EmptySeq, LenProperties
<1> HIDE DEF F, E
<1>5. Run(st, <<>>) = st
  BY <1>2, <1>3, <1>4
<1>6. PICK f : f = F(s)
  OBVIOUS
<1>7. PICK g : g = F(Append(s, a))
  OBVIOUS
<1>8. /\ f[0] = st
      /\ \A n \in 1..Len(s) : f[n] = Step(f[n - 1], s[n])
  <2>1. Len(s) \in Nat
    BY <1>4
  <2>2. /\ F(s)[0] = st
        /\ \A n \in 1..Len(s) : F(s)[n] = Step(F(s)[n - 1], s[n])
    BY <1>2, <2>1, Zenon
  <2>. QED BY <1>4, <1>6, <2>2
<1>9. /\ g[0] = st
      /\ \A n \in 1..(Len(s) + 1) : g[n] = Step(g[n - 1], Append(s, a)[n])
  <2>1. Len(Append(s, a)) \in Nat
    BY <1>4
  <2>2. /\ F(Append(s, a))[0] = st
        /\ \A n \in 1..Len(Append(s, a)) : F(Append(s, a))[n] = Step(F(Append(s, a))[n - 1], Append(s, a)[n])
    BY <1>2, <2>1, Zenon
  <2>. QED BY <1>4, <1>7, <2>2
<1> DEFINE N == {n \in 0..Len(s) : g[n] = f[n]}
<1>10. 0 \in N
  BY <1>4, <1>8, <1>9
<1>11. \A n \in 0..(Len(s) - 1) : n \in N => n + 1 \in N
  <2> TAKE n \in 0..(Len(s) - 1)
  <2> HAVE n \in N
  <2>1. /\ n + 1 \in 1..Len(s) /\ n + 1 \in 1..(Len(s) + 1) /\ (n + 1) - 1 = n
        /\ n + 1 \in 0..Len(s)
    BY <1>4
  <2>2. f[n + 1] = Step(f[n], s[n + 1])
    BY <1>8, <2>1
  <2>3. g[n + 1] = Step(g[n], Append(s, a)[n + 1])
    BY <1>9, <2>1
  <2>4. g[n] = f[n] /\ Append(s, a)[n + 1] = s[n + 1]
    BY <1>4, <2>1
  <2>. QED BY <2>1, <2>2, <2>3, <2>4
<1>12. g[Len(s)] = f[Len(s)]
  <2>1. Len(s) \in 0..Len(s) /\ 0 \in Int /\ Len(s) \in Int
    BY <1>4
  <2> HIDE DEF N
  <2>2. 0..Len(s) \subseteq N
    BY <1>10, <1>11, <2>1, IntervalInduction, Zenon
  <2> USE DEF N
  <2>. QED BY <2>1, <2>2
<1>13. g[Len(s) + 1] = Step(g[Len(s)], a)
  <2>1. Len(s) + 1 \in 1..(Len(s) + 1) /\ (Len(s) + 1) - 1 = Len(s)
    BY <1>4
  <2>2. g[Len(s) + 1] = Step(g[(Len(s) + 1) - 1], Append(s, a)[Len(s) + 1])
    BY <1>9, <2>1
  <2>. QED BY <1>4, <2>1, <2>2
<1>14. Run(st, s) = f[Len(s)]
  BY <1>3, <1>6
<1>15. Run(st, Append(s, a)) = g[Len(s) + 1]
  BY <1>3, <1>4, <1>7
<1>16. Run(st, Append(s, a)) = Step(Run(st, s), a)
  BY <1>12, <1>13, <1>14, <1>15
<1>. QED BY <1>5, <1>16

\* Events in two pieces; a failure stays.
RunsOn(st, s, t) == Run(st, s \o t) = Run(Run(st, s), t)

LEMMA RunOn ==
  ASSUME NEW st, NEW A, NEW s \in Seq(A), NEW t \in Seq(A) PROVE RunsOn(st, s, t)
<1> DEFINE T == {u \in Seq(A) : Run(st, s \o u) = Run(Run(st, s), u)}
<1>1. <<>> \in T
  <2>1. <<>> \in Seq(A \cup {0}) /\ <<>> \in Seq(A) /\ 0 \in A \cup {0}
    OBVIOUS
  <2>2. s \o <<>> = s
    BY ConcatEmptySeq
  <2>3. PICK g : g = Run(st, s)
    OBVIOUS
  <2>4. Run(g, <<>>) = g
    BY <2>1, RunFold
  <2>. QED BY <2>1, <2>2, <2>3, <2>4, Zenon
<1>2. ASSUME NEW u \in Seq(A), NEW b \in A, u \in T PROVE Append(u, b) \in T
  <2>1. Append(u, b) \in Seq(A) /\ s \o u \in Seq(A)
    BY AppendProperties, ConcatProperties
  <2>2. s \o Append(u, b) = Append(s \o u, b)
    BY ConcatAppend
  <2>3. PICK v \in Seq(A) : v = s \o u
    BY <2>1
  <2>4. PICK g : g = Run(st, s)
    OBVIOUS
  <2>5. Run(st, Append(v, b)) = Step(Run(st, v), b)
    BY RunFold
  <2>6. Run(g, Append(u, b)) = Step(Run(g, u), b)
    BY RunFold
  <2>7. Run(st, v) = Run(g, u)
    BY <1>2, <2>3, <2>4
  <2>8. Run(st, s \o Append(u, b)) = Run(g, Append(u, b))
    BY <2>2, <2>3, <2>5, <2>6, <2>7, Zenon
  <2>. QED BY <2>1, <2>4, <2>8, Zenon
<1>3. Seq(A) \subseteq T
  <2> HIDE DEF T
  <2>. QED BY <1>1, <1>2, SequenceInduction
<1>. QED BY <1>3 DEF RunsOn

\* One event.
LEMMA RunOne ==
  ASSUME NEW st, NEW e PROVE Run(st, <<e>>) = Step(st, e)
<1>1. <<>> \in Seq({e}) /\ e \in {e}
  OBVIOUS
<1>2. Run(st, <<>>) = st /\ Run(st, Append(<<>>, e)) = Step(Run(st, <<>>), e)
  <2>1. PICK A : A = {e}
    BY Zenon
  <2>2. PICK s \in Seq(A) : s = <<>>
    BY <1>1, <2>1
  <2>3. e \in A
    BY <2>1
  <2>4. Run(st, <<>>) = st /\ Run(st, Append(s, e)) = Step(Run(st, s), e)
    BY <2>3, RunFold
  <2>. QED BY <2>2, <2>4, Zenon
<1>3. Append(<<>>, e) = <<e>>
  <2>1. Tuples(e, e, e)
    BY <1>1, TuplesAppended
  <2>. QED BY <2>1, Zenon DEF Tuples
<1>. QED BY <1>2, <1>3

\* A failure is final.
LEMMA FailedStays ==
  ASSUME NEW A, NEW s \in Seq(A) PROVE Run(Failed, s) = Failed
<1> DEFINE T == {u \in Seq(A) : Run(Failed, u) = Failed}
<1>1. PICK z : z = Failed
  OBVIOUS
<1>2. \A e : Step(z, e) = z
  BY <1>1 DEF Step, Failed
<1>3. <<>> \in T
  <2>1. <<>> \in Seq(A \cup {0}) /\ <<>> \in Seq(A) /\ 0 \in A \cup {0}
    OBVIOUS
  <2>2. Run(z, <<>>) = z
    BY <2>1, RunFold
  <2>. QED BY <1>1, <2>1, <2>2
<1>4. ASSUME NEW u \in Seq(A), NEW b \in A, u \in T PROVE Append(u, b) \in T
  <2>1. Append(u, b) \in Seq(A)
    BY AppendProperties
  <2>2. Run(z, Append(u, b)) = Step(Run(z, u), b)
    BY RunFold
  <2>. QED BY <1>1, <1>2, <1>4, <2>1, <2>2
<1>5. Seq(A) \subseteq T
  <2> HIDE DEF T
  <2>. QED BY <1>3, <1>4, SequenceInduction
<1>. QED BY <1>5

\* The state is what the events make of it.
LEMMA StepIs ==
  ASSUME NEW s, NEW r, NEW h, NEW f, NEW e
  PROVE  /\ e.type = "start" => Step(St(s, r, h, f), e) = StartStep(s, r, h, f, e)
         /\ e.type = "text" => Step(St(s, r, h, f), e) = TextStep(s, r, h, f, e)
         /\ e.type = "end" => Step(St(s, r, h, f), e) = EndStep(s, r, h, f, s[Len(s)])
<1>1. PICK st : st = St(s, r, h, f)
  OBVIOUS
<1>2. st.stack = s /\ st.record = r /\ st.heading = h /\ st.found = f /\ st.ok
  BY <1>1 DEF St
<1>3. "start" # "text" /\ "start" # "end" /\ "text" # "end"
  OBVIOUS
<1>. QED BY <1>1, <1>2, <1>3, Zenon DEF Step

(***************************************************************************)
(* Flattened pieces.                                                       *)
(***************************************************************************)

Flattens(t, x) == FlattenSeq(Append(t, x)) = IF t = <<>> THEN x ELSE FlattenSeq(t) \o x

LEMMA FlattenAppend ==
  ASSUME NEW A, NEW s \in Seq(A), NEW a \in A
  PROVE  FlattenSeq(<<>>) = <<>> /\ Flattens(s, a)
<1> DEFINE E(f, t, n) == IF n = 1 THEN t[n] ELSE f[n - 1] \o t[n]
           Solves(f, t, m) == f = [n \in 1..m |-> E(f, t, n)]
           F(t) == CHOOSE f : Solves(f, t, Len(t))
<1>1. ASSUME NEW t, NEW m \in Nat PROVE \E f : Solves(f, t, m)
  <2> DEFINE N == {n \in Nat : \E f : Solves(f, t, n)}
  <2>1. 0 \in N
    <3>1. Solves([n \in 1..0 |-> 0], t, 0)
      OBVIOUS
    <3>. QED BY <3>1, Zenon
  <2>2. ASSUME NEW n \in Nat, n \in N PROVE n + 1 \in N
    <3>1. PICK f : Solves(f, t, n)
      BY <2>2
    <3>2. \A k \in 1..n : f[k] = E(f, t, k)
      <4> HIDE DEF E
      <4>. QED BY <3>1
    <3> DEFINE g == [k \in 1..(n + 1) |-> IF k = n + 1 THEN IF n = 0 THEN t[1] ELSE f[n] \o t[n + 1] ELSE f[k]]
    <3>3. \A k \in 1..(n + 1) : g[k] = E(g, t, k)
      <4> TAKE k \in 1..(n + 1)
      <4>1. CASE k \in 1..n /\ k # 1
        <5>1. k - 1 \in 1..(n + 1) /\ k - 1 # n + 1 /\ k # n + 1 /\ k \in 1..n
          BY <4>1
        <5>2. g[k - 1] = f[k - 1] /\ g[k] = f[k]
          BY <5>1
        <5>3. f[k] = f[k - 1] \o t[k]
          BY <3>2, <4>1
        <5> HIDE DEF g
        <5>. QED BY <4>1, <5>1, <5>2, <5>3
      <4>2. CASE k = 1 /\ n # 0
        <5>1. k \in 1..n /\ k # n + 1
          BY <4>2
        <5>2. g[k] = f[k]
          BY <5>1
        <5>3. f[k] = t[k]
          BY <3>2, <4>2, <5>1
        <5> HIDE DEF g
        <5>. QED BY <4>2, <5>2, <5>3
      <4>3. CASE k = n + 1 /\ n # 0
        <5>1. k - 1 = n /\ n \in 1..(n + 1) /\ n # n + 1 /\ k # 1
          BY <4>3
        <5>2. g[n] = f[n] /\ g[k] = f[n] \o t[n + 1]
          BY <4>3, <5>1
        <5> HIDE DEF g
        <5>. QED BY <4>3, <5>1, <5>2
      <4>4. CASE n = 0
        <5>1. k = 1 /\ k = n + 1
          BY <4>4
        <5>. QED BY <4>4, <5>1
      <4>. QED BY <4>1, <4>2, <4>3, <4>4
    <3>4. Solves(g, t, n + 1)
      <4>1. g = [k \in 1..(n + 1) |-> g[k]]
        OBVIOUS
      <4> HIDE DEF g, E
      <4>. QED BY <3>3, <4>1
    <3>5. n + 1 \in Nat
      OBVIOUS
    <3> HIDE DEF Solves, g
    <3>. QED BY <3>4, <3>5, Zenon
  <2>3. Nat \subseteq N
    <3> HIDE DEF N
    <3>. QED BY <2>1, <2>2, SetInduction
  <2>. QED BY <2>3
<1>2. ASSUME NEW t, Len(t) \in Nat
      PROVE  /\ Len(t) # 0 => F(t)[1] = t[1]
             /\ \A n \in 2..Len(t) : F(t)[n] = F(t)[n - 1] \o t[n]
  <2>1. PICK f : f = F(t)
    OBVIOUS
  <2>2. Solves(f, t, Len(t))
    <3> HIDE DEF Solves
    <3>. QED BY <1>1, <1>2, <2>1
  <2>3. \A n \in 1..Len(t) : f[n] = E(f, t, n)
    <3> HIDE DEF E
    <3>. QED BY <2>2
  <2> HIDE DEF F
  <2>4. Len(t) # 0 => f[1] = t[1]
    <3>1. Len(t) # 0 => 1 \in 1..Len(t)
      BY <1>2
    <3>. QED BY <2>3, <3>1
  <2>5. \A n \in 2..Len(t) : f[n] = f[n - 1] \o t[n]
    <3> TAKE n \in 2..Len(t)
    <3>1. n \in 1..Len(t) /\ n # 1
      BY <1>2
    <3>. QED BY <2>3, <3>1
  <2>. QED BY <2>1, <2>4, <2>5
<1>3. ASSUME NEW t PROVE FlattenSeq(t) = IF Len(t) = 0 THEN t ELSE F(t)[Len(t)]
  BY Zenon DEF FlattenSeq
<1>4. /\ Len(<<>>) = 0 /\ Len(s) \in Nat /\ Len(Append(s, a)) = Len(s) + 1
      /\ \A n \in 1..Len(s) : Append(s, a)[n] = s[n]
      /\ Append(s, a)[Len(s) + 1] = a
      /\ Len(s) = 0 <=> s = <<>>
  BY AppendProperties, EmptySeq, LenProperties
<1> HIDE DEF F, E
<1>5. FlattenSeq(<<>>) = <<>>
  BY <1>3, <1>4
<1>6. PICK f : f = F(s)
  OBVIOUS
<1>7. PICK g : g = F(Append(s, a))
  OBVIOUS
<1>8. /\ Len(s) # 0 => f[1] = s[1]
      /\ \A n \in 2..Len(s) : f[n] = f[n - 1] \o s[n]
  <2>1. Len(s) \in Nat
    BY <1>4
  <2>2. /\ Len(s) # 0 => F(s)[1] = s[1]
        /\ \A n \in 2..Len(s) : F(s)[n] = F(s)[n - 1] \o s[n]
    BY <1>2, <2>1, Zenon
  <2>. QED BY <1>6, <2>2
<1>9. /\ g[1] = Append(s, a)[1]
      /\ \A n \in 2..(Len(s) + 1) : g[n] = g[n - 1] \o Append(s, a)[n]
  <2>1. Len(Append(s, a)) \in Nat /\ Len(Append(s, a)) # 0
    BY <1>4
  <2>2. /\ Len(Append(s, a)) # 0 => F(Append(s, a))[1] = Append(s, a)[1]
        /\ \A n \in 2..Len(Append(s, a)) : F(Append(s, a))[n] = F(Append(s, a))[n - 1] \o Append(s, a)[n]
    BY <1>2, <2>1, Zenon
  <2>. QED BY <1>4, <1>7, <2>1, <2>2
<1> DEFINE N == {n \in 1..Len(s) : g[n] = f[n]}
<1>10. CASE Len(s) = 0
  <2>1. FlattenSeq(Append(s, a)) = g[1]
    <3>1. PICK t : t = Append(s, a)
      OBVIOUS
    <3>2. Len(t) = 1 /\ 1 # 0
      BY <1>4, <1>10, <3>1
    <3>3. FlattenSeq(t) = F(t)[1]
      BY <1>3, <3>2
    <3>. QED BY <1>7, <3>1, <3>3, Zenon
  <2>2. g[1] = a
    BY <1>4, <1>9, <1>10
  <2>. QED BY <1>4, <1>5, <1>10, <2>1, <2>2 DEF Flattens
<1>11. CASE Len(s) # 0
  <2>1. 1 \in N
    <3>1. 1 \in 1..Len(s)
      BY <1>4, <1>11
    <3>. QED BY <1>4, <1>8, <1>9, <1>11, <3>1
  <2>2. \A n \in 1..(Len(s) - 1) : n \in N => n + 1 \in N
    <3> TAKE n \in 1..(Len(s) - 1)
    <3> HAVE n \in N
    <3>1. /\ n + 1 \in 2..Len(s) /\ n + 1 \in 2..(Len(s) + 1) /\ (n + 1) - 1 = n
          /\ n + 1 \in 1..Len(s)
      BY <1>4
    <3>2. f[n + 1] = f[n] \o s[n + 1]
      BY <1>8, <3>1
    <3>3. g[n + 1] = g[n] \o Append(s, a)[n + 1]
      BY <1>9, <3>1
    <3>4. g[n] = f[n] /\ Append(s, a)[n + 1] = s[n + 1]
      BY <1>4, <3>1
    <3>. QED BY <3>1, <3>2, <3>3, <3>4
  <2>3. g[Len(s)] = f[Len(s)]
    <3>1. Len(s) \in 1..Len(s) /\ 1 \in Int /\ Len(s) \in Int
      BY <1>4, <1>11
    <3> HIDE DEF N
    <3>2. 1..Len(s) \subseteq N
      BY <2>1, <2>2, <3>1, IntervalInduction, Zenon
    <3> USE DEF N
    <3>. QED BY <3>1, <3>2
  <2>4. g[Len(s) + 1] = g[Len(s)] \o a
    <3>1. Len(s) + 1 \in 2..(Len(s) + 1) /\ (Len(s) + 1) - 1 = Len(s)
      BY <1>4, <1>11
    <3>2. g[Len(s) + 1] = g[(Len(s) + 1) - 1] \o Append(s, a)[Len(s) + 1]
      BY <1>9, <3>1
    <3>. QED BY <1>4, <3>1, <3>2
  <2>5. FlattenSeq(s) = f[Len(s)]
    BY <1>3, <1>6, <1>11
  <2>6. FlattenSeq(Append(s, a)) = g[Len(s) + 1]
    <3>1. Len(Append(s, a)) # 0
      BY <1>4
    <3>. QED BY <1>3, <1>4, <1>7, <3>1
  <2>. QED BY <1>4, <1>5, <1>11, <2>3, <2>4, <2>5, <2>6 DEF Flattens
<1>. QED BY <1>4, <1>10, <1>11

(***************************************************************************)
(* What a run of events does, whatever the events are.                     *)
(***************************************************************************)

IsSeq(s) == \E A : s \in Seq(A)

\* Two sequences are over one set, and an element more keeps a sequence one.
LEMMA OneSet ==
  ASSUME NEW s, NEW t, IsSeq(s), IsSeq(t)
  PROVE  \E A : s \in Seq(A) /\ t \in Seq(A)
<1>1. PICK A : s \in Seq(A)
  BY DEF IsSeq
<1>2. PICK B : t \in Seq(B)
  BY DEF IsSeq
<1>3. ASSUME NEW C, NEW D, NEW u \in Seq(C) PROVE u \in Seq(C \cup D) /\ u \in Seq(D \cup C)
  <2>1. Len(u) \in Nat /\ u \in [1..Len(u) -> C]
    BY LenProperties
  <2>2. u \in [1..Len(u) -> C \cup D] /\ u \in [1..Len(u) -> D \cup C]
    BY <2>1
  <2>. QED BY <2>1, <2>2, IsSequence, Zenon
<1>4. s \in Seq(A \cup B) /\ t \in Seq(A \cup B)
  BY <1>1, <1>2, <1>3
<1>. QED BY <1>4

Extends(s, c) ==
  /\ IsSeq(Append(s, c))
  /\ Len(s) \in Nat /\ Len(Append(s, c)) = Len(s) + 1
  /\ DOMAIN s = 1..Len(s) /\ DOMAIN Append(s, c) = 1..(Len(s) + 1)
  /\ \A i \in 1..Len(s) : Append(s, c)[i] = s[i]
  /\ Append(s, c)[Len(s) + 1] = c
  /\ SubSeq(Append(s, c), 1, Len(Append(s, c)) - 1) = s

\* The stack with one context more.
LEMMA Extended ==
  ASSUME NEW s, NEW c, IsSeq(s) PROVE Extends(s, c)
<1>1. IsSeq(<<c>>)
  <2>1. c \in {c}
    OBVIOUS
  <2>2. <<c>> \in Seq({c})
    BY <2>1
  <2>. QED BY <2>2 DEF IsSeq
<1>2. PICK A : s \in Seq(A) /\ <<c>> \in Seq(A)
  BY <1>1, OneSet
<1>3. c \in A
  <2>1. PICK u : u = <<c>>
    OBVIOUS
  <2>2. Len(u) = 1 /\ u[1] = c
    BY <2>1
  <2>3. u \in Seq(A)
    BY <1>2, <2>1
  <2>. QED BY <2>2, <2>3, ElementOfSeq
<1>4. PICK t \in Seq(A) : t = Append(s, c)
  BY <1>2, <1>3, AppendProperties
<1>5. /\ Len(s) \in Nat /\ Len(t) = Len(s) + 1
      /\ DOMAIN s = 1..Len(s) /\ DOMAIN t = 1..Len(t)
      /\ \A i \in 1..Len(s) : t[i] = s[i]
      /\ t[Len(s) + 1] = c
  BY <1>2, <1>3, <1>4, AppendProperties, LenProperties
<1>6. SubSeq(t, 1, Len(t) - 1) = s
  <2>1. PICK u : u = SubSeq(t, 1, Len(t) - 1)
    OBVIOUS
  <2>2. Len(t) - 1 = Len(s) /\ Len(s) <= Len(t) /\ 1 \in Nat
    BY <1>5
  <2>3. \A i \in 1..Len(s) : t[i] \in A
    BY <1>2, <1>5, ElementOfSeq
  <2>4. u \in Seq(A) /\ Len(u) = Len(s) /\ \A i \in 1..Len(s) : u[i] = t[i]
    BY <1>5, <2>1, <2>2, <2>3, SubSeqProperties
  <2>5. \A i \in 1..Len(s) : u[i] = s[i]
    BY <1>5, <2>4
  <2>6. u = s
    BY <1>2, <2>4, <2>5, SeqEqual
  <2>. QED BY <2>1, <2>6, Zenon
<1>. QED BY <1>4, <1>5, <1>6 DEF Extends, IsSeq

\* A run of events takes the audit from one state to another.
Turns(a, s, b) == IsSeq(s) /\ Run(a, s) = b

LEMMA TurnsOn ==
  ASSUME NEW a, NEW s, NEW b, NEW t, NEW c, Turns(a, s, b), Turns(b, t, c)
  PROVE  Turns(a, s \o t, c)
<1>1. PICK A : s \in Seq(A) /\ t \in Seq(A)
  BY OneSet DEF Turns
<1>2. RunsOn(a, s, t)
  BY <1>1, RunOn
<1>3. s \o t \in Seq(A)
  BY <1>1, ConcatProperties
<1>4. IsSeq(s \o t)
  BY <1>3 DEF IsSeq
<1>. QED BY <1>2, <1>4, Zenon DEF Turns, RunsOn

\* One event.
LEMMA TurnsOne ==
  ASSUME NEW a, NEW e, NEW b, Step(a, e) = b
  PROVE  Turns(a, <<e>>, b)
<1>1. Run(a, <<e>>) = b
  BY RunOne
<1>2. e \in {e}
  OBVIOUS
<1>3. <<e>> \in Seq({e})
  BY <1>2
<1>4. IsSeq(<<e>>)
  BY <1>3 DEF IsSeq
<1>. QED BY <1>1, <1>4 DEF Turns

\* No event.
LEMMA TurnsNone ==
  ASSUME NEW a PROVE Turns(a, <<>>, a)
<1>1. <<>> \in Seq({0}) /\ 0 \in {0}
  OBVIOUS
<1>2. Run(a, <<>>) = a
  <2>1. PICK A : A = {0}
    OBVIOUS
  <2>2. 0 \in A /\ <<>> \in Seq(A)
    BY <2>1
  <2>. QED BY <2>2, RunFold
<1>3. IsSeq(<<>>)
  BY <1>1 DEF IsSeq
<1>. QED BY <1>2, <1>3 DEF Turns

\* An event, what is inside, and an event.
LEMMA TurnsAround ==
  ASSUME NEW a, NEW e, NEW b, NEW s, NEW c, NEW g, NEW d,
         Step(a, e) = b, Turns(b, s, c), Step(c, g) = d
  PROVE  Turns(a, <<e>> \o s \o <<g>>, d)
<1>1. Turns(a, <<e>>, b)
  BY TurnsOne
<1>2. Turns(a, <<e>> \o s, c)
  BY <1>1, TurnsOn
<1>3. Turns(c, <<g>>, d)
  BY TurnsOne
<1>. QED BY <1>2, <1>3, TurnsOn

(***************************************************************************)
(* What is rendered piece by piece is read piece by piece.                 *)
(***************************************************************************)

Mapped(G, x) == [i \in DOMAIN x |-> G[x[i]]]

MapsAppended(G, x, a) == Mapped(G, Append(x, a)) = Append(Mapped(G, x), G[a])

LEMMA MappedAppended ==
  ASSUME NEW R, NEW S, NEW G \in [R -> S], NEW x \in Seq(R), NEW a \in R
  PROVE  MapsAppended(G, x, a) /\ Mapped(G, x) \in Seq(S)
<1>1. PICK y \in Seq(R) : y = Append(x, a)
  BY AppendProperties
<1>2. /\ Len(x) \in Nat /\ Len(y) = Len(x) + 1
      /\ \A i \in 1..Len(x) : y[i] = x[i]
      /\ y[Len(x) + 1] = a
  BY <1>1, AppendProperties, LenProperties
<1>3. ASSUME NEW z \in Seq(R)
      PROVE  Mapped(G, z) \in Seq(S) /\ Len(Mapped(G, z)) = Len(z)
             /\ \A i \in 1..Len(z) : Mapped(G, z)[i] = G[z[i]]
  <2>1. Len(z) \in Nat /\ DOMAIN z = 1..Len(z) /\ \A i \in 1..Len(z) : z[i] \in R
    BY LenProperties, ElementOfSeq
  <2>2. Mapped(G, z) = [i \in 1..Len(z) |-> G[z[i]]]
    BY <2>1, Zenon DEF Mapped
  <2>3. PICK n \in Nat : n = Len(z)
    BY <2>1, Zenon
  <2>4. PICK g : g = Mapped(G, z)
    OBVIOUS
  <2>5. g = [i \in 1..n |-> G[z[i]]] /\ \A i \in 1..n : G[z[i]] \in S
    BY <2>1, <2>2, <2>3, <2>4
  <2>6. g \in [1..n -> S] /\ \A i \in 1..n : g[i] = G[z[i]]
    BY <2>5
  <2>7. g \in Seq(S) /\ Len(g) = n
    <3>1. g \in Seq(S)
      BY <2>6, IsSequence, Zenon
    <3>2. DOMAIN g = 1..n /\ DOMAIN g = 1..Len(g) /\ Len(g) \in Nat
      BY <2>6, <3>1, LenProperties
    <3>. QED BY <3>1, <3>2
  <2>. QED BY <2>3, <2>4, <2>6, <2>7
<1>4. PICK g \in Seq(S) : g = Mapped(G, x)
  BY <1>3
<1>5. PICK h \in Seq(S) : h = Mapped(G, y)
  BY <1>3
<1>6. PICK c \in S : c = G[a]
  OBVIOUS
<1>7. Len(g) = Len(x) /\ Len(h) = Len(x) + 1
  BY <1>2, <1>3, <1>4, <1>5
<1>8. \A i \in 1..Len(x) : g[i] = h[i]
  <2> TAKE i \in 1..Len(x)
  <2>1. i \in 1..Len(y)
    BY <1>2
  <2>2. h[i] = G[y[i]] /\ g[i] = G[x[i]] /\ y[i] = x[i]
    BY <1>2, <1>3, <1>4, <1>5, <2>1
  <2>. QED BY <2>2
<1>9. h[Len(x) + 1] = c
  <2>1. Len(x) + 1 \in 1..Len(y)
    BY <1>2
  <2>2. h[Len(x) + 1] = G[y[Len(x) + 1]]
    BY <1>3, <1>5, <2>1
  <2>. QED BY <1>2, <1>6, <2>2
<1>10. Append(g, c) = h
  BY <1>7, <1>8, <1>9, AppendTo
<1>. QED BY <1>1, <1>4, <1>5, <1>6, <1>10, Zenon DEF MapsAppended

\* If each piece takes the audit to the state that F has for one element more, then
\* all of them take it to the state that F has for the sequence.
LEMMA TurnsEach ==
  ASSUME NEW R, NEW G, NEW F,
         \A x \in Seq(R) : \A a \in R : Turns(F[x], G[a], F[Append(x, a)]),
         NEW y \in Seq(R)
  PROVE  Turns(F[<<>>], FlattenSeq(Mapped(G, y)), F[y])
<1> DEFINE T == {x \in Seq(R) : Turns(F[<<>>], FlattenSeq(Mapped(G, x)), F[x])}
           S == {G[a] : a \in R}
<1>1. <<>> \in T
  <2>1. <<>> \in Seq(R) /\ DOMAIN <<>> = {}
    OBVIOUS
  <2>2. Mapped(G, <<>>) = <<>>
    BY <2>1 DEF Mapped
  <2>3. FlattenSeq(<<>>) = <<>>
    <3>1. PICK A : A = {0}
      OBVIOUS
    <3>2. 0 \in A /\ <<>> \in Seq(A)
      BY <3>1
    <3>. QED BY <3>2, FlattenAppend
  <2>4. Turns(F[<<>>], <<>>, F[<<>>])
    BY TurnsNone
  <2>. QED BY <2>1, <2>2, <2>3, <2>4, Zenon
<1>2. ASSUME NEW x \in Seq(R), NEW a \in R, x \in T PROVE Append(x, a) \in T
  <2>1. PICK z \in Seq(R) : z = Append(x, a)
    BY AppendProperties
  <2>2. PICK c \in S : c = G[a]
    OBVIOUS
  <2>3. PICK g \in Seq(S) : g = Mapped(G, x)
    <3>2. Mapped(G, x) = Mapped([b \in R |-> G[b]], x)
      <4>1. \A i \in DOMAIN x : x[i] \in R
        BY LenProperties, ElementOfSeq
      <4>. QED BY <4>1 DEF Mapped
    <3>3. [b \in R |-> G[b]] \in [R -> S]
      OBVIOUS
    <3>4. Mapped([b \in R |-> G[b]], x) \in Seq(S)
      BY <3>3, MappedAppended
    <3>. QED BY <3>2, <3>4
  <2>4. Mapped(G, z) = Append(g, c)
    <3>1. PICK H \in [R -> S] : H = [b \in R |-> G[b]]
      OBVIOUS
    <3>2. \A u \in Seq(R) : Mapped(G, u) = Mapped(H, u)
      <4> TAKE u \in Seq(R)
      <4>1. \A i \in DOMAIN u : u[i] \in R
        BY LenProperties, ElementOfSeq
      <4>. QED BY <3>1, <4>1 DEF Mapped
    <3>3. MapsAppended(H, x, a)
      BY MappedAppended
    <3>4. H[a] = c
      BY <2>2, <3>1
    <3>. QED BY <2>1, <2>3, <3>2, <3>3, <3>4, Zenon DEF MapsAppended
  <2>5. Flattens(g, c)
    BY FlattenAppend
  <2>6. Turns(F[<<>>], FlattenSeq(g), F[x])
    BY <1>2, <2>3
  <2>7. Turns(F[x], c, F[z])
    BY <2>1, <2>2
  <2>8. Turns(F[<<>>], FlattenSeq(g) \o c, F[z])
    BY <2>6, <2>7, TurnsOn
  <2>9. CASE g = <<>>
    <3>1. FlattenSeq(Append(g, c)) = c
      BY <2>5, <2>9 DEF Flattens
    <3>2. x = <<>>
      <4>1. DOMAIN g = DOMAIN x
        BY <2>3 DEF Mapped
      <4>2. Len(x) \in Nat /\ DOMAIN x = 1..Len(x) /\ DOMAIN g = {}
        BY <2>9, LenProperties
      <4>3. Len(x) = 0
        <5>1. PICK n \in Nat : n = Len(x)
          BY <4>2, Zenon
        <5>2. 1..n = {}
          BY <4>1, <4>2, <5>1
        <5>3. n # 0 => 1 \in 1..n
          OBVIOUS
        <5>4. n = 0
          BY <5>2, <5>3
        <5>. QED BY <5>1, <5>4
      <4>. QED BY <4>3, EmptySeq
    <3>. QED BY <2>1, <2>4, <2>7, <3>1, <3>2, Zenon
  <2>10. CASE g # <<>>
    <3>1. FlattenSeq(Append(g, c)) = FlattenSeq(g) \o c
      BY <2>5, <2>10 DEF Flattens
    <3>. QED BY <2>1, <2>4, <2>8, <3>1, Zenon
  <2>. QED BY <2>9, <2>10
<1>3. Seq(R) \subseteq T
  <2> HIDE DEF T
  <2>. QED BY <1>1, <1>2, SequenceInduction
<1>. QED BY <1>3

(***************************************************************************)
(* The events of a page, and the elements around them.                     *)
(***************************************************************************)

ControlStart(ch) == [Start("xml-control") EXCEPT !.char = ch]
RecordStart(k, d) == [Start("record") EXCEPT !.kind = k, !.depth = d]

LEMMA EventsAre ==
  ASSUME NEW k, NEW d, NEW ch
  PROVE  /\ Start(k).type = "start" /\ Start(k).class = k
         /\ Text(ch).type = "text" /\ Text(ch).char = ch
         /\ End.type = "end"
         /\ ControlStart(ch).type = "start" /\ ControlStart(ch).class = "xml-control"
         /\ ControlStart(ch).char = ch
         /\ RecordStart(k, d).type = "start" /\ RecordStart(k, d).class = "record"
         /\ RecordStart(k, d).kind = k /\ RecordStart(k, d).depth = d
BY DEF Start, Text, End, ControlStart, RecordStart, PageEvent

\* The context of an element.
LEMMA ContextIs ==
  ASSUME NEW r, NEW h, NEW e
  PROVE  /\ ContextOf(r, h, e).recordRoot <=> r = <<>> /\ e.class = "record"
         /\ ContextOf(r, h, e).attributeRoot <=> r # <<>> /\ e.class = "xml-attribute"
         /\ ContextOf(r, h, e).headingRoot <=> h = <<>> /\ e.class = "entry-heading"
         /\ ContextOf(r, h, e).target = IF r # <<>> /\ e.class \in Targets THEN e.class ELSE ""
         /\ ContextOf(r, h, e).control <=> e.class = "xml-control"
BY Zenon DEF ContextOf

\* The innermost context comes first.
InnerContext(s, c) ==
  /\ TargetOf(Append(s, c)) = IF c.target # "" THEN c.target ELSE TargetOf(s)
  /\ Controlled(Append(s, c)) <=> Controlled(s) \/ c.control

LEMMA InnerContextIs ==
  ASSUME NEW s, NEW c, IsSeq(s) PROVE InnerContext(s, c)
<1>1. Extends(s, c)
  BY Extended
<1>2. PICK t : t = Append(s, c)
  OBVIOUS
<1>3. PICK n \in Nat : n = Len(s)
  BY <1>1, Zenon DEF Extends
<1>4. /\ DOMAIN s = 1..n /\ DOMAIN t = 1..(n + 1)
      /\ \A i \in 1..n : t[i] = s[i]
      /\ t[n + 1] = c
  BY <1>1, <1>2, <1>3, Zenon DEF Extends
<1>5. Controlled(t) <=> Controlled(s) \/ c.control
  BY <1>4 DEF Controlled
<1>6. PICK z : z = ""
  BY Zenon
<1> DEFINE P == {i \in DOMAIN s : s[i].target # ""}
           Q == {i \in DOMAIN t : t[i].target # ""}
<1>7. TargetOf(s) = IF P = {} THEN "" ELSE s[CHOOSE i \in P : \A j \in P : i >= j].target
  BY Zenon DEF TargetOf
<1>8. TargetOf(t) = IF Q = {} THEN "" ELSE t[CHOOSE i \in Q : \A j \in Q : i >= j].target
  BY Zenon DEF TargetOf
<1>9. /\ \A i : i \in P <=> i \in DOMAIN s /\ s[i].target # z
      /\ \A i : i \in Q <=> i \in DOMAIN t /\ t[i].target # z
  BY <1>6, Zenon
<1> HIDE DEF P, Q
<1>10. /\ TargetOf(s) = IF P = {} THEN z ELSE s[CHOOSE i \in P : \A j \in P : i >= j].target
       /\ TargetOf(t) = IF Q = {} THEN z ELSE t[CHOOSE i \in Q : \A j \in Q : i >= j].target
  BY <1>6, <1>7, <1>8, Zenon
<1>11. TargetOf(t) = IF c.target # z THEN c.target ELSE TargetOf(s)
  <2>1. CASE c.target # z
    <3>1. n + 1 \in Q /\ \A j \in Q : j \in 1..(n + 1)
      BY <1>4, <1>9, <2>1
    <3>2. PICK m : m = CHOOSE i \in Q : \A j \in Q : i >= j
      OBVIOUS
    <3>3. m \in Q /\ m >= n + 1
      BY <3>1, <3>2
    <3>4. m = n + 1 /\ Q # {}
      BY <3>1, <3>3
    <3>. QED BY <1>4, <1>10, <2>1, <3>2, <3>4
  <2>2. CASE c.target = z
    <3>1. P = Q
      BY <1>4, <1>9, <2>2
    <3>2. CASE P = {}
      BY <1>10, <2>2, <3>1, <3>2
    <3>3. CASE P # {}
      <4>1. PICK m : m = CHOOSE i \in P : \A j \in P : i >= j
        OBVIOUS
      <4>2. P \in SUBSET (1..n)
        BY <1>4, <1>9
      <4>3. \E i \in P : \A j \in P : i >= j
        <5>1. PICK D : D = {n - i : i \in P}
          OBVIOUS
        <5>2. D \in SUBSET Nat /\ D # {}
          <6>1. \A i \in P : n - i \in Nat
            BY <4>2
          <6>. QED BY <3>3, <5>1, <6>1
        <5>3. PICK x \in D : \A y \in D : x <= y
          BY <5>2, LeastNatural
        <5>4. PICK i \in P : x = n - i
          BY <5>1, <5>3
        <5>5. \A j \in P : i >= j
          BY <4>2, <5>1, <5>3, <5>4
        <5>. QED BY <5>5
      <4>4. m \in P
        BY <4>1, <4>3
      <4>5. t[m] = s[m]
        BY <1>4, <4>2, <4>4
      <4>. QED BY <1>10, <2>2, <3>1, <3>3, <4>1, <4>5
    <3>. QED BY <3>2, <3>3
  <2>. QED BY <2>1, <2>2
<1>. QED BY <1>2, <1>5, <1>6, <1>11, Zenon DEF InnerContext

\* What has been found in the page.
Found(rs, n, hs) == [records |-> rs, entries |-> n, headwords |-> hs]

FoundWith(rs, n, hs, x, m, y) ==
  /\ [Found(rs, n, hs) EXCEPT !.entries = m] = Found(rs, m, hs)
  /\ [Found(rs, n, hs) EXCEPT !.records = x, !.headwords = y] = Found(x, n, y)
  /\ Found(rs, n, hs).records = rs /\ Found(rs, n, hs).entries = n
  /\ Found(rs, n, hs).headwords = hs

LEMMA FoundWithIs ==
  ASSUME NEW rs, NEW n, NEW hs, NEW x, NEW m, NEW y PROVE FoundWith(rs, n, hs, x, m, y)
<1>1. PICK f : f = [records |-> rs, entries |-> n, headwords |-> hs]
  OBVIOUS
<1>2. f.records = rs /\ f.entries = n /\ f.headwords = hs
  BY <1>1
<1>3. [f EXCEPT !.entries = m] = [records |-> rs, entries |-> m, headwords |-> hs]
  BY <1>1
<1>4. PICK g : g = [f EXCEPT !.records = x]
  BY Zenon
<1>5. g = [records |-> x, entries |-> n, headwords |-> hs]
  BY <1>1, <1>4
<1>6. [g EXCEPT !.headwords = y] = [records |-> x, entries |-> n, headwords |-> y]
  BY <1>5
<1>. QED BY <1>1, <1>2, <1>3, <1>4, <1>6, Zenon DEF FoundWith, Found

\* An element that is no control begins.
Opened(s, r, h, rs, n, hs, e) ==
  St(Append(s, ContextOf(r, h, e)), CapturedBy(r, e),
     IF h = <<>> /\ e.class = "entry-heading" THEN <<<<>>>> ELSE h,
     Found(rs, IF e.class = "entry" THEN n + 1 ELSE n, hs))

Element(r, e) ==
  /\ e.type = "start" /\ e.class # "xml-control"
  /\ e.class = "xml-attribute" /\ r # <<>> => r[1].current = <<>>

LEMMA ElementOpens ==
  ASSUME NEW s, NEW r, NEW h, NEW rs, NEW n, NEW hs, NEW e, Element(r, e)
  PROVE  Step(St(s, r, h, Found(rs, n, hs)), e) = Opened(s, r, h, rs, n, hs, e)
<1>1. PICK f : f = Found(rs, n, hs)
  OBVIOUS
<1>2. Step(St(s, r, h, f), e) = StartStep(s, r, h, f, e)
  BY StepIs DEF Element
<1>3. ~StartFails(s, r, h, e)
  BY Zenon DEF StartFails, Element
<1>4. PICK m : m = IF e.class = "entry" THEN n + 1 ELSE n
  OBVIOUS
<1>5. f.entries = n /\ [f EXCEPT !.entries = m] = Found(rs, m, hs)
  <2>1. FoundWith(rs, n, hs, rs, m, hs)
    BY FoundWithIs
  <2>. QED BY <1>1, <2>1, Zenon DEF FoundWith
<1>6. [f EXCEPT !.entries = IF e.class = "entry" THEN @ + 1 ELSE @] = [f EXCEPT !.entries = m]
  BY <1>4, <1>5
<1>7. ContextOf(r, h, e).headingRoot <=> h = <<>> /\ e.class = "entry-heading"
  BY ContextIs, Zenon
<1>8. PICK c : c = ContextOf(r, h, e)
  OBVIOUS
<1>9. StartStep(s, r, h, f, e) =
        St(Append(s, c), CapturedBy(r, e), IF c.headingRoot THEN <<<<>>>> ELSE h, Found(rs, m, hs))
  <2>1. StartStep(s, r, h, f, e) =
          St(Append(s, ContextOf(r, h, e)),
             IF e.class = "xml-control"
               THEN Appended(CapturedBy(r, e), TargetOf(Append(s, ContextOf(r, h, e))), e.char)
               ELSE CapturedBy(r, e),
             IF ContextOf(r, h, e).headingRoot THEN <<<<>>>>
             ELSE IF e.class = "xml-control" /\ h # <<>> THEN <<Append(h[1], e.char)>>
             ELSE h,
             [f EXCEPT !.entries = IF e.class = "entry" THEN @ + 1 ELSE @])
    BY <1>3, Zenon DEF StartStep
  <2>. QED BY <1>5, <1>6, <1>8, <2>1, Zenon DEF Element
<1>. QED BY <1>1, <1>2, <1>4, <1>7, <1>8, <1>9, Zenon DEF Opened

\* An element ends.
LEMMA Closes ==
  ASSUME NEW s, NEW c, IsSeq(s), NEW r, NEW h, NEW f
  PROVE  Step(St(Append(s, c), r, h, f), End) = EndStep(Append(s, c), r, h, f, c)
<1>1. Extends(s, c)
  BY Extended
<1>2. PICK t : t = Append(s, c)
  OBVIOUS
<1>3. t[Len(t)] = c
  BY <1>1, <1>2 DEF Extends
<1>4. Step(St(t, r, h, f), End) = EndStep(t, r, h, f, t[Len(t)])
  BY StepIs, EventsAre
<1>. QED BY <1>2, <1>3, <1>4, Zenon

\* It leaves the rest as it was unless it is a record, an attribute or a heading.
Bare(c) == ~c.recordRoot /\ ~c.attributeRoot /\ ~c.headingRoot

Leaves(s, c, r, h, rs, n, hs) ==
  Step(St(Append(s, c), r, h, Found(rs, n, hs)), End) = St(s, r, h, Found(rs, n, hs))

LEMMA ClosesPlain ==
  ASSUME NEW s, NEW c, IsSeq(s), NEW r, NEW h, NEW rs, NEW n, NEW hs, Bare(c)
  PROVE  Leaves(s, c, r, h, rs, n, hs)
<1>1. PICK t : t = Append(s, c)
  OBVIOUS
<1>2. PICK f : f = Found(rs, n, hs)
  OBVIOUS
<1>3. SubSeq(t, 1, Len(t) - 1) = s
  <2>1. Extends(s, c)
    BY Extended
  <2>. QED BY <1>1, <2>1, Zenon DEF Extends
<1>4. ~EndFails(r, c)
  BY DEF EndFails, Bare
<1>5. [f EXCEPT !.records = IF c.recordRoot THEN Append(@, Finished(r[1])) ELSE @,
                !.headwords = IF c.headingRoot THEN Append(@, Trim(h[1])) ELSE @] = f
  BY <1>2 DEF Found, Bare
<1>6. EndStep(t, r, h, f, c) = St(s, r, h, f)
  <2>1. (CASE c.attributeRoot -> [r EXCEPT ![1].attributes = @ \o r[1].current, ![1].current = <<>>]
            [] c.recordRoot -> <<>>
            [] OTHER -> r) = r
    BY DEF Bare
  <2>. QED BY <1>3, <1>4, <1>5, <2>1, Zenon DEF EndStep, Bare
<1>. QED BY <1>1, <1>2, <1>6, Closes, Zenon DEF Leaves

(***************************************************************************)
(* The record an element captures, one character more.                     *)
(***************************************************************************)

Rec(k, d, n, as, cu, v) ==
  [kind |-> k, depth |-> d, name |-> n, attributes |-> as, current |-> cu, value |-> v]
Named(n, v) == [name |-> n, value |-> v]

\* A record by its fields.
RecIs(r, k, d, n, as, cu, v) ==
  /\ r = [f \in {"kind", "depth", "name", "attributes", "current", "value"} |-> r[f]]
  /\ r["kind"] = k /\ r["depth"] = d /\ r["name"] = n /\ r["attributes"] = as
  /\ r["current"] = cu /\ r["value"] = v

LEMMA RecFields ==
  ASSUME NEW k, NEW d, NEW n, NEW as, NEW cu, NEW v
  PROVE  RecIs(Rec(k, d, n, as, cu, v), k, d, n, as, cu, v)
<1>1. PICK r : r = Rec(k, d, n, as, cu, v)
  BY Zenon
<1>2. r = [f \in {"kind", "depth", "name", "attributes", "current", "value"} |-> r[f]]
  <2>1. DOMAIN r = {"kind", "depth", "name", "attributes", "current", "value"}
    BY <1>1 DEF Rec
  <2>2. r = [f \in DOMAIN r |-> r[f]]
    BY <1>1 DEF Rec
  <2>. QED BY <2>1, <2>2
<1>3. /\ r["kind"] = k /\ r["depth"] = d /\ r["name"] = n /\ r["attributes"] = as
      /\ r["current"] = cu /\ r["value"] = v
  BY <1>1 DEF Rec
<1>. QED BY <1>1, <1>2, <1>3, Zenon DEF RecIs

\* A record is its fields.
LEMMA SameRec ==
  ASSUME NEW k, NEW d, NEW n, NEW as, NEW cu, NEW v, NEW u, RecIs(u, k, d, n, as, cu, v)
  PROVE  u = Rec(k, d, n, as, cu, v)
<1>1. PICK t : t = Rec(k, d, n, as, cu, v)
  BY Zenon
<1>2. RecIs(t, k, d, n, as, cu, v)
  BY <1>1, RecFields, Zenon
<1>3. u = t
  BY <1>2 DEF RecIs
<1>. QED BY <1>1, <1>3

RecWith(k, d, n, as, cu, v, x) ==
  /\ [Rec(k, d, n, as, cu, v) EXCEPT !.name = x] = Rec(k, d, x, as, cu, v)
  /\ [Rec(k, d, n, as, cu, v) EXCEPT !.attributes = x] = Rec(k, d, n, x, cu, v)
  /\ [Rec(k, d, n, as, cu, v) EXCEPT !.current = x] = Rec(k, d, n, as, x, v)
  /\ [Rec(k, d, n, as, cu, v) EXCEPT !.value = x] = Rec(k, d, n, as, cu, x)
  /\ Rec(k, d, n, as, cu, v).kind = k /\ Rec(k, d, n, as, cu, v).depth = d
  /\ Rec(k, d, n, as, cu, v).name = n /\ Rec(k, d, n, as, cu, v).attributes = as
  /\ Rec(k, d, n, as, cu, v).current = cu /\ Rec(k, d, n, as, cu, v).value = v

\* A record with one field changed.
LEMMA RecWithIs ==
  ASSUME NEW k, NEW d, NEW n, NEW as, NEW cu, NEW v, NEW x PROVE RecWith(k, d, n, as, cu, v, x)
<1>1. PICK r : r = Rec(k, d, n, as, cu, v)
  BY Zenon
<1>2. /\ r.kind = k /\ r.depth = d /\ r.name = n /\ r.attributes = as /\ r.current = cu
      /\ r.value = v
  BY <1>1 DEF Rec
<1>3. RecIs(r, k, d, n, as, cu, v)
  BY <1>1, RecFields, Zenon
<1>4. [r EXCEPT !.name = x] = Rec(k, d, x, as, cu, v)
  <2>1. PICK u : u = [r EXCEPT !.name = x]
    BY Zenon
  <2>2. RecIs(u, k, d, x, as, cu, v)
    BY <1>3, <2>1 DEF RecIs
  <2>. QED BY <2>1, <2>2, SameRec
<1>5. [r EXCEPT !.attributes = x] = Rec(k, d, n, x, cu, v)
  <2>1. PICK u : u = [r EXCEPT !.attributes = x]
    BY Zenon
  <2>2. RecIs(u, k, d, n, x, cu, v)
    BY <1>3, <2>1 DEF RecIs
  <2>. QED BY <2>1, <2>2, SameRec
<1>6. [r EXCEPT !.current = x] = Rec(k, d, n, as, x, v)
  <2>1. PICK u : u = [r EXCEPT !.current = x]
    BY Zenon
  <2>2. RecIs(u, k, d, n, as, x, v)
    BY <1>3, <2>1 DEF RecIs
  <2>. QED BY <2>1, <2>2, SameRec
<1>7. [r EXCEPT !.value = x] = Rec(k, d, n, as, cu, x)
  <2>1. PICK u : u = [r EXCEPT !.value = x]
    BY Zenon
  <2>2. RecIs(u, k, d, n, as, cu, x)
    BY <1>3, <2>1 DEF RecIs
  <2>. QED BY <2>1, <2>2, SameRec
<1>. QED BY <1>1, <1>2, <1>4, <1>5, <1>6, <1>7, Zenon DEF RecWith

\* A sequence of one.
LEMMA OneIs ==
  ASSUME NEW x, NEW y
  PROVE  <<x>>[1] = x /\ <<x>> # <<>> /\ [<<x>> EXCEPT ![1] = y] = <<y>>
OBVIOUS

AppendsTarget(k, d, n, as, cu, v, a, b, ch) ==
  /\ Appended(<<Rec(k, d, n, as, cu, v)>>, "xml-name", ch) = <<Rec(k, d, Append(n, ch), as, cu, v)>>
  /\ Appended(<<Rec(k, d, n, as, cu, v)>>, "xml-text-value", ch) =
       <<Rec(k, d, n, as, cu, Append(v, ch))>>
  /\ cu = <<Named(a, b)>> =>
       /\ Appended(<<Rec(k, d, n, as, cu, v)>>, "xml-attribute-name", ch) =
            <<Rec(k, d, n, as, <<Named(Append(a, ch), b)>>, v)>>
       /\ Appended(<<Rec(k, d, n, as, cu, v)>>, "xml-attribute-value", ch) =
            <<Rec(k, d, n, as, <<Named(a, Append(b, ch))>>, v)>>

\* Where a character of each target goes.
LEMMA AppendsTargetIs ==
  ASSUME NEW k, NEW d, NEW n, NEW as, NEW cu, NEW v, NEW a, NEW b, NEW ch
  PROVE  AppendsTarget(k, d, n, as, cu, v, a, b, ch)
<1>1. PICK c : c = Rec(k, d, n, as, cu, v)
  BY Zenon
<1>2. PICK r : r = <<c>>
  OBVIOUS
<1>3. r[1] = c /\ \A y : [r EXCEPT ![1] = y] = <<y>>
  BY <1>2, OneIs
<1>4. /\ c.name = n /\ c.value = v /\ c.current = cu
      /\ \A x : /\ [c EXCEPT !.name = x] = Rec(k, d, x, as, cu, v)
                /\ [c EXCEPT !.current = x] = Rec(k, d, n, as, x, v)
                /\ [c EXCEPT !.value = x] = Rec(k, d, n, as, cu, x)
  <2>1. \A x : RecWith(k, d, n, as, cu, v, x)
    BY RecWithIs, Zenon
  <2>. QED BY <1>1, <2>1, Zenon DEF RecWith
<1>5. Appended(r, "xml-name", ch) = <<Rec(k, d, Append(n, ch), as, cu, v)>>
  <2>1. Appended(r, "xml-name", ch) = [r EXCEPT ![1].name = Append(@, ch)]
    BY DEF Appended
  <2>2. [r EXCEPT ![1].name = Append(@, ch)] = [r EXCEPT ![1] = [c EXCEPT !.name = Append(n, ch)]]
    BY <1>3, <1>4
  <2>. QED BY <1>3, <1>4, <2>1, <2>2, Zenon
<1>6. Appended(r, "xml-text-value", ch) = <<Rec(k, d, n, as, cu, Append(v, ch))>>
  <2>1. Appended(r, "xml-text-value", ch) = [r EXCEPT ![1].value = Append(@, ch)]
    BY DEF Appended
  <2>2. [r EXCEPT ![1].value = Append(@, ch)] = [r EXCEPT ![1] = [c EXCEPT !.value = Append(v, ch)]]
    BY <1>3, <1>4
  <2>. QED BY <1>3, <1>4, <2>1, <2>2, Zenon
<1>7. ASSUME cu = <<Named(a, b)>>
      PROVE  /\ Appended(r, "xml-attribute-name", ch) =
                  <<Rec(k, d, n, as, <<Named(Append(a, ch), b)>>, v)>>
             /\ Appended(r, "xml-attribute-value", ch) =
                  <<Rec(k, d, n, as, <<Named(a, Append(b, ch))>>, v)>>
  <2>1. PICK m : m = Named(a, b)
    OBVIOUS
  <2>2. /\ m.name = a /\ m.value = b
        /\ \A x : [m EXCEPT !.name = x] = Named(x, b) /\ [m EXCEPT !.value = x] = Named(a, x)
    BY <2>1 DEF Named
  <2>3. cu[1] = m /\ \A y : [cu EXCEPT ![1] = y] = <<y>>
    BY <1>7, <2>1, OneIs
  <2>4. Appended(r, "xml-attribute-name", ch) = <<Rec(k, d, n, as, <<Named(Append(a, ch), b)>>, v)>>
    <3>1. Appended(r, "xml-attribute-name", ch) = [r EXCEPT ![1].current[1].name = Append(@, ch)]
      BY DEF Appended
    <3>2. PICK m1 : m1 = [m EXCEPT !.name = Append(a, ch)]
      OBVIOUS
    <3>3. PICK cu1 : cu1 = [cu EXCEPT ![1] = m1]
      OBVIOUS
    <3>4. PICK c1 : c1 = [c EXCEPT !.current = cu1]
      BY Zenon
    <3>5. [r EXCEPT ![1].current[1].name = Append(@, ch)] = [r EXCEPT ![1] = c1]
      BY <1>3, <1>4, <2>2, <2>3, <3>2, <3>3, <3>4
    <3>6. m1 = Named(Append(a, ch), b) /\ cu1 = <<m1>>
      BY <2>2, <2>3, <3>2, <3>3
    <3>7. c1 = Rec(k, d, n, as, cu1, v) /\ [r EXCEPT ![1] = c1] = <<c1>>
      BY <1>3, <1>4, <3>4, Zenon
    <3>. QED BY <3>1, <3>5, <3>6, <3>7, Zenon
  <2>5. Appended(r, "xml-attribute-value", ch) = <<Rec(k, d, n, as, <<Named(a, Append(b, ch))>>, v)>>
    <3>1. Appended(r, "xml-attribute-value", ch) = [r EXCEPT ![1].current[1].value = Append(@, ch)]
      BY DEF Appended
    <3>2. PICK m1 : m1 = [m EXCEPT !.value = Append(b, ch)]
      OBVIOUS
    <3>3. PICK cu1 : cu1 = [cu EXCEPT ![1] = m1]
      OBVIOUS
    <3>4. PICK c1 : c1 = [c EXCEPT !.current = cu1]
      BY Zenon
    <3>5. [r EXCEPT ![1].current[1].value = Append(@, ch)] = [r EXCEPT ![1] = c1]
      BY <1>3, <1>4, <2>2, <2>3, <3>2, <3>3, <3>4
    <3>6. m1 = Named(a, Append(b, ch)) /\ cu1 = <<m1>>
      BY <2>2, <2>3, <3>2, <3>3
    <3>7. c1 = Rec(k, d, n, as, cu1, v) /\ [r EXCEPT ![1] = c1] = <<c1>>
      BY <1>3, <1>4, <3>4, Zenon
    <3>. QED BY <3>1, <3>5, <3>6, <3>7, Zenon
  <2>. QED BY <2>4, <2>5
<1>. QED BY <1>1, <1>2, <1>5, <1>6, <1>7, Zenon DEF AppendsTarget

\* What is written into a book, its number and the name of its attribute included.
Letters == Letter \cup {<<"1">>, <<"a">>}

LEMMA LettersAre == U0D \notin Letters
<1>1. <<"1">> # <<"0D">> /\ <<"a">> # <<"0D">>
  <2>1. "1" # "0D" /\ "a" # "0D"
    OBVIOUS
  <2>2. \A x, y : <<x>> = <<y>> => x = y
    OBVIOUS
  <2>. QED BY <2>1, <2>2, Zenon
<1>. QED BY <1>1, Zenon DEF Letters, Letter, U0D

\* The empty piece has letters only.
LEMMA NothingWritten == <<>> \in Seq(Letters)
OBVIOUS

\* The heading, one character more, if there is one.
Headed(h, ch) == IF h = <<>> THEN h ELSE <<Append(h[1], ch)>>

\* A character of text.
Receives(s, r) ==
  ~Controlled(s) /\ (r = <<>> => TargetOf(s) = "") /\ ~Misplaced(r, TargetOf(s))

LEMMA TextTurns ==
  ASSUME NEW s, NEW r, NEW h, NEW f, NEW ch \in Letters, Receives(s, r)
  PROVE  Step(St(s, r, h, f), Text(ch)) = St(s, Appended(r, TargetOf(s), ch), Headed(h, ch), f)
<1>1. PICK e : e = Text(ch)
  OBVIOUS
<1>2. e.type = "text" /\ e.char = ch
  BY <1>1, EventsAre
<1>3. Step(St(s, r, h, f), e) = TextStep(s, r, h, f, e)
  BY <1>2, StepIs
<1>4. Normalized(e.char) = ch
  BY <1>2, LettersAre DEF Normalized
<1>5. TextTarget(s, r) = TargetOf(s)
  BY Zenon DEF TextTarget, Receives
<1>. QED BY <1>1, <1>3, <1>4, <1>5, Zenon DEF TextStep, Headed, Receives

Together(a, b, c) == <<a>> \o <<b>> \o <<c>> = <<a, b, c>>

\* Three events one after the other.
LEMMA ThreeTogether ==
  ASSUME NEW a, NEW b, NEW c PROVE Together(a, b, c)
<1>1. PICK A : A = {a, b, c}
  OBVIOUS
<1>2. a \in A /\ b \in A /\ c \in A
  BY <1>1
<1>3. PICK s \in Seq(A) : s = <<a>>
  <2>1. <<a>> \in Seq(A)
    BY <1>2
  <2>. QED BY <2>1
<1>4. PICK t \in Seq(A) : t = <<a, b>>
  <2>1. <<a, b>> \in Seq(A)
    BY <1>2
  <2>. QED BY <2>1
<1>5. Append(s, b) = t /\ Append(t, c) = <<a, b, c>>
  <2>1. Tuples(a, b, c)
    BY <1>2, TuplesAppended
  <2>. QED BY <1>3, <1>4, <2>1, Zenon DEF Tuples
<1>6. s \o <<b>> = Append(s, b) /\ t \o <<c>> = Append(t, c)
  BY <1>2, AppendIsConcat
<1>. QED BY <1>3, <1>5, <1>6, Zenon DEF Together

\* A control, with its glyph.
Chunk(ch) == IF ch = U08 THEN <<ControlStart(ch), Text(<<"2408">>), End>> ELSE <<Text(ch)>>

LEMMA NoTarget ==
  ASSUME NEW r, NEW ch
  PROVE  Appended(r, "", ch) = r /\ ~Misplaced(r, "") /\ "xml-control" \notin Targets
<1>1. Appended(r, "", ch) = r
  BY Zenon DEF Appended
<1>2. ~Misplaced(r, "")
  BY Zenon DEF Misplaced
<1>3. "xml-control" \notin Targets
  BY Zenon DEF Targets
<1>. QED BY <1>1, <1>2, <1>3, Zenon

\* A control is read from its label, and its glyph ignored.
LEMMA ControlTurns ==
  ASSUME NEW s, NEW r, NEW h, NEW rs, NEW n, NEW hs, NEW ch, IsSeq(s), ~Controlled(s),
         ~Misplaced(r, TargetOf(s))
  PROVE  Turns(St(s, r, h, Found(rs, n, hs)), <<ControlStart(ch), Text(<<"2408">>), End>>,
               St(s, Appended(r, TargetOf(s), ch), Headed(h, ch), Found(rs, n, hs)))
<1>1. PICK e : e = ControlStart(ch)
  OBVIOUS
<1>2. e.type = "start" /\ e.class = "xml-control" /\ e.char = ch
  BY <1>1, EventsAre
<1>3. PICK c : c = ContextOf(r, h, e)
  OBVIOUS
<1>4. /\ ~c.recordRoot /\ ~c.attributeRoot /\ ~c.headingRoot /\ c.control /\ c.target = ""
  <2>1. /\ c.recordRoot <=> r = <<>> /\ e.class = "record"
        /\ c.attributeRoot <=> r # <<>> /\ e.class = "xml-attribute"
        /\ c.headingRoot <=> h = <<>> /\ e.class = "entry-heading"
        /\ c.target = IF r # <<>> /\ e.class \in Targets THEN e.class ELSE ""
        /\ c.control <=> e.class = "xml-control"
    BY <1>3, ContextIs, Zenon
  <2>2. "xml-control" \notin Targets
    BY NoTarget, Zenon
  <2>. QED BY <1>2, <2>1, <2>2, Zenon
<1>5. PICK t : t = Append(s, c)
  OBVIOUS
<1>6. TargetOf(t) = TargetOf(s) /\ Controlled(t)
  <2>1. InnerContext(s, c)
    BY InnerContextIs
  <2>. QED BY <1>4, <1>5, <2>1, Zenon DEF InnerContext
<1>7. CapturedBy(r, e) = r
  BY <1>2, Zenon DEF CapturedBy
<1>8. PICK f : f = Found(rs, n, hs)
  OBVIOUS
<1>9. PICK r1 : r1 = Appended(r, TargetOf(s), ch)
  OBVIOUS
<1>10. PICK h1 : h1 = Headed(h, ch)
  OBVIOUS
<1>11. Step(St(s, r, h, f), e) = St(t, r1, h1, f)
  <2>1. Step(St(s, r, h, f), e) = StartStep(s, r, h, f, e)
    BY <1>2, StepIs
  <2>2. ~StartFails(s, r, h, e)
    BY <1>2, <1>3, <1>5, <1>6, <1>7, Zenon DEF StartFails
  <2>3. [f EXCEPT !.entries = IF e.class = "entry" THEN @ + 1 ELSE @] = f
    BY <1>2, <1>8 DEF Found
  <2>. QED BY <1>2, <1>3, <1>4, <1>5, <1>6, <1>7, <1>9, <1>10, <2>1, <2>2, <2>3, Zenon
           DEF StartStep, Headed
<1>12. Step(St(t, r1, h1, f), Text(<<"2408">>)) = St(t, r1, h1, f)
  <2>1. PICK g : g = Text(<<"2408">>)
    OBVIOUS
  <2>2. Step(St(t, r1, h1, f), g) = TextStep(t, r1, h1, f, g)
    BY <2>1, StepIs, EventsAre
  <2>3. TextTarget(t, r1) = ""
    BY <1>6, Zenon DEF TextTarget
  <2>4. Appended(r1, "", Normalized(g.char)) = r1 /\ ~Misplaced(r1, "")
    BY NoTarget, Zenon
  <2>. QED BY <1>6, <2>1, <2>2, <2>3, <2>4, Zenon DEF TextStep
<1>13. Step(St(t, r1, h1, f), End) = St(s, r1, h1, f)
  <2>1. Step(St(Append(s, c), r1, h1, Found(rs, n, hs)), End) = St(s, r1, h1, Found(rs, n, hs))
    <3>1. Bare(c)
      BY <1>4, Zenon DEF Bare
    <3>2. Leaves(s, c, r1, h1, rs, n, hs)
      BY <3>1, ClosesPlain
    <3>. QED BY <3>2, Zenon DEF Leaves
  <2>. QED BY <1>5, <1>8, <2>1, Zenon
<1>14. Turns(St(t, r1, h1, f), <<Text(<<"2408">>)>>, St(t, r1, h1, f))
  BY <1>12, TurnsOne
<1>15. PICK x : x = Text(<<"2408">>)
  OBVIOUS
<1>16. Turns(St(s, r, h, f), <<e>> \o <<x>> \o <<End>>, St(s, r1, h1, f))
  BY <1>11, <1>13, <1>14, <1>15, TurnsAround, Zenon
<1>17. <<e>> \o <<x>> \o <<End>> = <<e, x, End>>
  BY ThreeTogether, Zenon DEF Together
<1>. QED BY <1>1, <1>8, <1>9, <1>10, <1>15, <1>16, <1>17, Zenon

\* A character is read as it was written.
LEMMA ChunkTurns ==
  ASSUME NEW s, NEW r, NEW h, NEW rs, NEW n, NEW hs, NEW ch \in Letters,
         IsSeq(s), Receives(s, r)
  PROVE  Turns(St(s, r, h, Found(rs, n, hs)), Chunk(ch),
               St(s, Appended(r, TargetOf(s), ch), Headed(h, ch), Found(rs, n, hs)))
<1>1. CASE ch = U08
  <2>1. Chunk(ch) = <<ControlStart(ch), Text(<<"2408">>), End>>
    BY <1>1, Zenon DEF Chunk
  <2>2. ~Controlled(s) /\ ~Misplaced(r, TargetOf(s))
    BY Zenon DEF Receives
  <2>. QED BY <2>1, <2>2, ControlTurns, Zenon
<1>2. CASE ch # U08
  <2>1. Chunk(ch) = <<Text(ch)>>
    BY <1>2, Zenon DEF Chunk
  <2>2. Step(St(s, r, h, Found(rs, n, hs)), Text(ch)) =
          St(s, Appended(r, TargetOf(s), ch), Headed(h, ch), Found(rs, n, hs))
    BY TextTurns, Zenon
  <2>. QED BY <2>1, <2>2, TurnsOne, Zenon
<1>. QED BY <1>1, <1>2

(***************************************************************************)
(* The values and the names of a page, read whole.                         *)
(***************************************************************************)

\* What an element receives: F is the state for what it has received so far.
Collects(s, F, f) ==
  \A x \in Seq(Letters) : \E r, h :
    /\ F[x] = St(s, r, h, f) /\ Receives(s, r)
    /\ \A ch \in Letters : F[Append(x, ch)] = St(s, Appended(r, TargetOf(s), ch), Headed(h, ch), f)

LEMMA ValueTurns ==
  ASSUME NEW s, NEW F, NEW rs, NEW n, NEW hs, IsSeq(s), Collects(s, F, Found(rs, n, hs)),
         NEW x \in Seq(Letters)
  PROVE  Turns(F[<<>>], RenderValue(x), F[x])
<1> DEFINE G == [ch \in Letters |-> Chunk(ch)]
<1>1. RenderValue(x) = FlattenSeq(Mapped(G, x))
  <2>1. \A i \in DOMAIN x : x[i] \in Letters
    BY LenProperties, ElementOfSeq
  <2>2. \A i \in DOMAIN x : G[x[i]] = Chunk(x[i])
    BY <2>1
  <2>3. Mapped(G, x) = [i \in DOMAIN x |-> Chunk(x[i])]
    <3> HIDE DEF G
    <3>. QED BY <2>2 DEF Mapped
  <2>4. RenderValue(x) = FlattenSeq([i \in DOMAIN x |-> Chunk(x[i])])
    BY Zenon DEF RenderValue, Chunk, ControlStart
  <2>. QED BY <2>3, <2>4, Zenon
<1>2. ASSUME NEW y \in Seq(Letters), NEW ch \in Letters
      PROVE  Turns(F[y], G[ch], F[Append(y, ch)])
  <2>1. PICK r, h : /\ F[y] = St(s, r, h, Found(rs, n, hs)) /\ Receives(s, r)
                    /\ F[Append(y, ch)] =
                         St(s, Appended(r, TargetOf(s), ch), Headed(h, ch), Found(rs, n, hs))
    BY Zenon DEF Collects
  <2>3. G[ch] = Chunk(ch)
    OBVIOUS
  <2>. QED BY <2>1, <2>3, ChunkTurns, Zenon
<1>3. PICK H : H = G
  OBVIOUS
<1> HIDE DEF G
<1>4. \A y \in Seq(Letters) : \A ch \in Letters : Turns(F[y], H[ch], F[Append(y, ch)])
  BY <1>2, <1>3
<1>5. Turns(F[<<>>], FlattenSeq(Mapped(H, x)), F[x])
  BY <1>4, TurnsEach, Zenon
<1>. QED BY <1>1, <1>3, <1>5, Zenon

\* A name is escaped without marking its controls, and read just so.
LEMMA NameTurns ==
  ASSUME NEW s, NEW F, NEW rs, NEW n, NEW hs, IsSeq(s), Collects(s, F, Found(rs, n, hs)),
         NEW x \in Seq(Letters)
  PROVE  Turns(F[<<>>], EscapeXml(x), F[x])
<1> DEFINE T == {y \in Seq(Letters) : Turns(F[<<>>], EscapeXml(y), F[y])}
           G == [ch \in Letters |-> Text(ch)]
<1>1. \A y \in Seq(Letters) : EscapeXml(y) = Mapped(G, y)
  <2> TAKE y \in Seq(Letters)
  <2>1. \A i \in DOMAIN y : y[i] \in Letters
    BY LenProperties, ElementOfSeq
  <2>2. \A i \in DOMAIN y : G[y[i]] = Text(y[i])
    BY <2>1
  <2> HIDE DEF G
  <2>. QED BY <2>2 DEF Mapped, EscapeXml
<1>2. PICK S : S = {G[ch] : ch \in Letters}
  OBVIOUS
<1>3. PICK H \in [Letters -> S] : H = G
  BY <1>2
<1>4. <<>> \in T
  <2>1. <<>> \in Seq(Letters) /\ DOMAIN <<>> = {}
    OBVIOUS
  <2>2. EscapeXml(<<>>) = <<>>
    BY <2>1 DEF EscapeXml
  <2>3. Turns(F[<<>>], <<>>, F[<<>>])
    BY TurnsNone
  <2>. QED BY <2>1, <2>2, <2>3, Zenon
<1>5. ASSUME NEW y \in Seq(Letters), NEW ch \in Letters, y \in T PROVE Append(y, ch) \in T
  <2>1. PICK z \in Seq(Letters) : z = Append(y, ch)
    BY AppendProperties
  <2>2. PICK e \in S : e = H[ch]
    BY <1>3
  <2>3. e = Text(ch)
    BY <1>3, <2>2
  <2>4. MapsAppended(H, y, ch) /\ Mapped(H, y) \in Seq(S)
    BY MappedAppended
  <2>5. PICK g \in Seq(S) : g = EscapeXml(y)
    <3>1. EscapeXml(y) = Mapped(H, y)
      BY <1>1, <1>3, Zenon
    <3>. QED BY <2>4, <3>1
  <2>6. EscapeXml(z) = Append(g, e)
    BY <1>1, <1>3, <2>1, <2>2, <2>4, <2>5, Zenon DEF MapsAppended
  <2>7. Append(g, e) = g \o <<e>>
    BY AppendIsConcat
  <2>8. PICK r, h : /\ F[y] = St(s, r, h, Found(rs, n, hs)) /\ Receives(s, r)
                    /\ F[Append(y, ch)] =
                         St(s, Appended(r, TargetOf(s), ch), Headed(h, ch), Found(rs, n, hs))
    <3>1. \E r, h : /\ F[y] = St(s, r, h, Found(rs, n, hs)) /\ Receives(s, r)
                     /\ \A b \in Letters : F[Append(y, b)] =
                          St(s, Appended(r, TargetOf(s), b), Headed(h, b), Found(rs, n, hs))
      BY Zenon DEF Collects
    <3>. QED BY <3>1, Zenon
  <2>10. Step(F[y], e) = F[z]
    <3>1. Step(St(s, r, h, Found(rs, n, hs)), Text(ch)) =
            St(s, Appended(r, TargetOf(s), ch), Headed(h, ch), Found(rs, n, hs))
      BY <2>8, TextTurns, Zenon
    <3>. QED BY <2>1, <2>3, <2>8, <3>1, Zenon
  <2>11. Turns(F[y], <<e>>, F[z])
    BY <2>10, TurnsOne
  <2>12. Turns(F[<<>>], g, F[y])
    BY <1>5, <2>5
  <2>13. Turns(F[<<>>], g \o <<e>>, F[z])
    BY <2>11, <2>12, TurnsOn
  <2>. QED BY <2>1, <2>6, <2>7, <2>13, Zenon
<1>6. Seq(Letters) \subseteq T
  <2> HIDE DEF T
  <2>. QED BY <1>4, <1>5, SequenceInduction
<1>. QED BY <1>6

(***************************************************************************)
(* The four places of a record, and the heading.                           *)
(***************************************************************************)

\* The last context of s is the one with the target.
Inside(s, target) == IsSeq(s) /\ ~Controlled(s) /\ TargetOf(s) = target

\* An element with a target opens.
LEMMA EntersTarget ==
  ASSUME NEW s, IsSeq(s), ~Controlled(s), NEW x, NEW rs, NEW n, NEW hs, NEW k \in Targets
  PROVE  \E c : /\ Step(St(s, <<x>>, <<>>, Found(rs, n, hs)), Start(k)) =
                     St(Append(s, c), <<x>>, <<>>, Found(rs, n, hs))
                /\ Inside(Append(s, c), k)
                /\ Bare(c)
<1>1. PICK e : e = Start(k)
  OBVIOUS
<1>2. e.type = "start" /\ e.class = k
  BY <1>1, EventsAre
<1>3. /\ k # "xml-control" /\ k # "xml-attribute" /\ k # "record" /\ k # "entry"
      /\ k # "entry-heading" /\ k # ""
  BY Zenon DEF Targets
<1>4. PICK r : r = <<x>>
  OBVIOUS
<1>5. r # <<>>
  BY <1>4, OneIs
<1>6. PICK c : c = ContextOf(r, <<>>, e)
  OBVIOUS
<1>7. ~c.recordRoot /\ ~c.attributeRoot /\ ~c.headingRoot /\ ~c.control /\ c.target = k
  <2>1. /\ c.recordRoot <=> r = <<>> /\ e.class = "record"
        /\ c.attributeRoot <=> r # <<>> /\ e.class = "xml-attribute"
        /\ c.headingRoot <=> <<>> = <<>> /\ e.class = "entry-heading"
        /\ c.target = IF r # <<>> /\ e.class \in Targets THEN e.class ELSE ""
        /\ c.control <=> e.class = "xml-control"
    BY <1>6, ContextIs, Zenon
  <2>. QED BY <1>2, <1>3, <1>5, <2>1, Zenon
<1>8. CapturedBy(r, e) = r
  BY <1>2, <1>3, Zenon DEF CapturedBy
<1>9. Step(St(s, r, <<>>, Found(rs, n, hs)), e) = Opened(s, r, <<>>, rs, n, hs, e)
  <2>1. Element(r, e)
    BY <1>2, <1>3, Zenon DEF Element
  <2>. QED BY <2>1, ElementOpens, Zenon
<1>10. Opened(s, r, <<>>, rs, n, hs, e) = St(Append(s, c), r, <<>>, Found(rs, n, hs))
  BY <1>2, <1>3, <1>6, <1>8, Zenon DEF Opened
<1>11. Inside(Append(s, c), k)
  <2>1. InnerContext(s, c)
    BY InnerContextIs
  <2>2. Extends(s, c)
    BY Extended
  <2>. QED BY <1>3, <1>7, <2>1, <2>2, Zenon DEF InnerContext, Inside, Extends
<1>12. Bare(c)
  BY <1>7, Zenon DEF Bare
<1>. QED BY <1>1, <1>4, <1>9, <1>10, <1>11, <1>12, Zenon

\* A record that is there receives whatever its target is, an attribute if it has one.
LEMMA RecordReceives ==
  ASSUME NEW s, NEW k \in Targets, Inside(s, k), NEW c,
         k \in {"xml-attribute-name", "xml-attribute-value"} => c.current # <<>>
  PROVE  Receives(s, <<c>>) /\ TargetOf(s) = k
<1>1. TargetOf(s) = k /\ ~Controlled(s)
  BY Zenon DEF Inside
<1>2. PICK r : r = <<c>>
  OBVIOUS
<1>3. r # <<>> /\ r[1] = c
  BY <1>2, OneIs
<1>4. ~Misplaced(r, k)
  BY <1>3, Zenon DEF Misplaced
<1>. QED BY <1>1, <1>2, <1>3, <1>4, Zenon DEF Receives

\* A heading receives without a target.
LEMMA HeadingReceives ==
  ASSUME NEW s, Inside(s, "") PROVE Receives(s, <<>>)
BY Zenon DEF Inside, Receives, Misplaced

\* Outside of a heading nothing is collected.
LEMMA NoHeading == ASSUME NEW ch PROVE Headed(<<>>, ch) = <<>>
BY DEF Headed

\* Within a heading every character is.
LEMMA OneHeading == ASSUME NEW x, NEW ch PROVE Headed(<<x>>, ch) = <<Append(x, ch)>>
BY DEF Headed

\* The name of a record collects its characters.
LEMMA NameCollects ==
  ASSUME NEW s, Inside(s, "xml-name"), NEW k, NEW d, NEW as, NEW cu, NEW v, NEW f,
         NEW F, F = [x \in Seq(Letters) |-> St(s, <<Rec(k, d, x, as, cu, v)>>, <<>>, f)]
  PROVE  Collects(s, F, f)
<1> SUFFICES ASSUME NEW x \in Seq(Letters)
             PROVE  \E r, h : /\ F[x] = St(s, r, h, f) /\ Receives(s, r)
                              /\ \A ch \in Letters :
                                   F[Append(x, ch)] = St(s, Appended(r, TargetOf(s), ch), Headed(h, ch), f)
  BY Zenon DEF Collects
<1>1. PICK r : r = <<Rec(k, d, x, as, cu, v)>>
  OBVIOUS
<1>2. F[x] = St(s, r, <<>>, f)
  BY <1>1
<1>3. "xml-name" \in Targets /\ "xml-name" \notin {"xml-attribute-name", "xml-attribute-value"}
  BY DEF Targets
<1>4. Receives(s, r) /\ TargetOf(s) = "xml-name"
  BY <1>1, <1>3, RecordReceives
<1>5. ASSUME NEW ch \in Letters
      PROVE  F[Append(x, ch)] = St(s, Appended(r, TargetOf(s), ch), Headed(<<>>, ch), f)
  <2>1. PICK y \in Seq(Letters) : y = Append(x, ch)
    BY AppendProperties
  <2>2. F[y] = St(s, <<Rec(k, d, y, as, cu, v)>>, <<>>, f)
    OBVIOUS
  <2>3. AppendsTarget(k, d, x, as, cu, v, x, x, ch)
    BY AppendsTargetIs
  <2>4. Headed(<<>>, ch) = <<>>
    BY NoHeading
  <2>. QED BY <1>1, <1>4, <2>1, <2>2, <2>3, <2>4, Zenon DEF AppendsTarget
<1>. QED BY <1>2, <1>4, <1>5, Zenon

\* So does its text,
LEMMA TextCollects ==
  ASSUME NEW s, Inside(s, "xml-text-value"), NEW k, NEW d, NEW n, NEW as, NEW cu, NEW f,
         NEW F, F = [x \in Seq(Letters) |-> St(s, <<Rec(k, d, n, as, cu, x)>>, <<>>, f)]
  PROVE  Collects(s, F, f)
<1> SUFFICES ASSUME NEW x \in Seq(Letters)
             PROVE  \E r, h : /\ F[x] = St(s, r, h, f) /\ Receives(s, r)
                              /\ \A ch \in Letters :
                                   F[Append(x, ch)] = St(s, Appended(r, TargetOf(s), ch), Headed(h, ch), f)
  BY Zenon DEF Collects
<1>1. PICK r : r = <<Rec(k, d, n, as, cu, x)>>
  OBVIOUS
<1>2. F[x] = St(s, r, <<>>, f)
  BY <1>1
<1>3. "xml-text-value" \in Targets
      /\ "xml-text-value" \notin {"xml-attribute-name", "xml-attribute-value"}
  BY DEF Targets
<1>4. Receives(s, r) /\ TargetOf(s) = "xml-text-value"
  BY <1>1, <1>3, RecordReceives
<1>5. ASSUME NEW ch \in Letters
      PROVE  F[Append(x, ch)] = St(s, Appended(r, TargetOf(s), ch), Headed(<<>>, ch), f)
  <2>1. PICK y \in Seq(Letters) : y = Append(x, ch)
    BY AppendProperties
  <2>2. F[y] = St(s, <<Rec(k, d, n, as, cu, y)>>, <<>>, f)
    OBVIOUS
  <2>3. AppendsTarget(k, d, n, as, cu, x, x, x, ch)
    BY AppendsTargetIs
  <2>4. Headed(<<>>, ch) = <<>>
    BY NoHeading
  <2>. QED BY <1>1, <1>4, <2>1, <2>2, <2>3, <2>4, Zenon DEF AppendsTarget
<1>. QED BY <1>2, <1>4, <1>5, Zenon

\* (the attribute being read)
LEMMA CurrentIs ==
  ASSUME NEW r, NEW k, NEW d, NEW n, NEW as, NEW cu, NEW v, r = Rec(k, d, n, as, cu, v)
  PROVE  r.current = cu
<1>1. RecWith(k, d, n, as, cu, v, cu)
  BY RecWithIs, Zenon
<1>. QED BY <1>1, Zenon DEF RecWith

\* the name of an attribute,
LEMMA AttributeNameCollects ==
  ASSUME NEW s, Inside(s, "xml-attribute-name"), NEW k, NEW d, NEW n, NEW as, NEW b, NEW v, NEW f,
         NEW F, F = [x \in Seq(Letters) |->
                       St(s, <<Rec(k, d, n, as, <<Named(x, b)>>, v)>>, <<>>, f)]
  PROVE  Collects(s, F, f)
<1> SUFFICES ASSUME NEW x \in Seq(Letters)
             PROVE  \E r, h : /\ F[x] = St(s, r, h, f) /\ Receives(s, r)
                              /\ \A ch \in Letters :
                                   F[Append(x, ch)] = St(s, Appended(r, TargetOf(s), ch), Headed(h, ch), f)
  BY Zenon DEF Collects
<1>1. PICK c : c = Rec(k, d, n, as, <<Named(x, b)>>, v)
  OBVIOUS
<1>2. F[x] = St(s, <<c>>, <<>>, f)
  BY <1>1
<1>3. "xml-attribute-name" \in Targets
  BY DEF Targets
<1>4. Receives(s, <<c>>) /\ TargetOf(s) = "xml-attribute-name"
  <2>1. c.current # <<>>
    <3>1. c.current = <<Named(x, b)>>
      <4>1. PICK m : m = <<Named(x, b)>>
        OBVIOUS
      <4>2. c = Rec(k, d, n, as, m, v)
        BY <1>1, <4>1
      <4>3. c.current = m
        BY <4>2, CurrentIs, Zenon
      <4>. QED BY <4>1, <4>3
    <3>2. <<Named(x, b)>> # <<>>
      BY OneIs
    <3>. QED BY <3>1, <3>2, Zenon
  <2>. QED BY <1>3, <2>1, RecordReceives
<1>5. ASSUME NEW ch \in Letters
      PROVE  F[Append(x, ch)] = St(s, Appended(<<c>>, TargetOf(s), ch), Headed(<<>>, ch), f)
  <2>1. PICK y \in Seq(Letters) : y = Append(x, ch)
    BY AppendProperties
  <2>2. F[y] = St(s, <<Rec(k, d, n, as, <<Named(y, b)>>, v)>>, <<>>, f)
    OBVIOUS
  <2>3. AppendsTarget(k, d, n, as, <<Named(x, b)>>, v, x, b, ch)
    BY AppendsTargetIs
  <2>4. Headed(<<>>, ch) = <<>>
    BY NoHeading
  <2>. QED BY <1>1, <1>4, <2>1, <2>2, <2>3, <2>4, Zenon DEF AppendsTarget
<1>. QED BY <1>2, <1>4, <1>5, Zenon

\* its value,
LEMMA AttributeValueCollects ==
  ASSUME NEW s, Inside(s, "xml-attribute-value"), NEW k, NEW d, NEW n, NEW as, NEW a, NEW v, NEW f,
         NEW F, F = [x \in Seq(Letters) |->
                       St(s, <<Rec(k, d, n, as, <<Named(a, x)>>, v)>>, <<>>, f)]
  PROVE  Collects(s, F, f)
<1> SUFFICES ASSUME NEW x \in Seq(Letters)
             PROVE  \E r, h : /\ F[x] = St(s, r, h, f) /\ Receives(s, r)
                              /\ \A ch \in Letters :
                                   F[Append(x, ch)] = St(s, Appended(r, TargetOf(s), ch), Headed(h, ch), f)
  BY Zenon DEF Collects
<1>1. PICK c : c = Rec(k, d, n, as, <<Named(a, x)>>, v)
  OBVIOUS
<1>2. F[x] = St(s, <<c>>, <<>>, f)
  BY <1>1
<1>3. "xml-attribute-value" \in Targets
  BY DEF Targets
<1>4. Receives(s, <<c>>) /\ TargetOf(s) = "xml-attribute-value"
  <2>1. c.current # <<>>
    <3>1. c.current = <<Named(a, x)>>
      <4>1. PICK m : m = <<Named(a, x)>>
        OBVIOUS
      <4>2. c = Rec(k, d, n, as, m, v)
        BY <1>1, <4>1
      <4>3. c.current = m
        BY <4>2, CurrentIs, Zenon
      <4>. QED BY <4>1, <4>3
    <3>2. <<Named(a, x)>> # <<>>
      BY OneIs
    <3>. QED BY <3>1, <3>2, Zenon
  <2>. QED BY <1>3, <2>1, RecordReceives
<1>5. ASSUME NEW ch \in Letters
      PROVE  F[Append(x, ch)] = St(s, Appended(<<c>>, TargetOf(s), ch), Headed(<<>>, ch), f)
  <2>1. PICK y \in Seq(Letters) : y = Append(x, ch)
    BY AppendProperties
  <2>2. F[y] = St(s, <<Rec(k, d, n, as, <<Named(a, y)>>, v)>>, <<>>, f)
    OBVIOUS
  <2>3. AppendsTarget(k, d, n, as, <<Named(a, x)>>, v, a, x, ch)
    BY AppendsTargetIs
  <2>4. Headed(<<>>, ch) = <<>>
    BY NoHeading
  <2>. QED BY <1>1, <1>4, <2>1, <2>2, <2>3, <2>4, Zenon DEF AppendsTarget
<1>. QED BY <1>2, <1>4, <1>5, Zenon

\* and the heading.
LEMMA HeadingCollects ==
  ASSUME NEW s, Inside(s, ""), NEW f, NEW F, F = [x \in Seq(Letters) |-> St(s, <<>>, <<x>>, f)]
  PROVE  Collects(s, F, f)
<1> SUFFICES ASSUME NEW x \in Seq(Letters)
             PROVE  \E r, h : /\ F[x] = St(s, r, h, f) /\ Receives(s, r)
                              /\ \A ch \in Letters :
                                   F[Append(x, ch)] = St(s, Appended(r, TargetOf(s), ch), Headed(h, ch), f)
  BY Zenon DEF Collects
<1>1. F[x] = St(s, <<>>, <<x>>, f) /\ Receives(s, <<>>)
  BY HeadingReceives, Zenon
<1>2. ASSUME NEW ch \in Letters
      PROVE  F[Append(x, ch)] = St(s, Appended(<<>>, TargetOf(s), ch), Headed(<<x>>, ch), f)
  <2>1. PICK y \in Seq(Letters) : y = Append(x, ch)
    BY AppendProperties, Zenon
  <2>2. F[y] = St(s, <<>>, <<y>>, f)
    BY Zenon
  <2>3. Headed(<<x>>, ch) = <<Append(x, ch)>>
    BY OneHeading, Zenon
  <2>4. Appended(<<>>, "", ch) = <<>>
    BY NoTarget, Zenon
  <2>5. TargetOf(s) = ""
    BY Zenon DEF Inside
  <2>. QED BY <2>1, <2>2, <2>3, <2>4, <2>5, Zenon
<1>. QED BY <1>1, <1>2, Zenon

(***************************************************************************)
(* The elements of a record.                                               *)
(***************************************************************************)

\* Between the tags of an element with target k, events b turn record x into y.
Within(s, k, b, x, y, f) ==
  \A c : Inside(Append(s, c), k) =>
    Turns(St(Append(s, c), <<x>>, <<>>, f), b, St(Append(s, c), <<y>>, <<>>, f))

LEMMA TargetSpan ==
  ASSUME NEW s, IsSeq(s), ~Controlled(s), NEW k \in Targets, NEW b, NEW x, NEW y,
         NEW rs, NEW n, NEW hs, Within(s, k, b, x, y, Found(rs, n, hs))
  PROVE  Turns(St(s, <<x>>, <<>>, Found(rs, n, hs)), Span(k, b), St(s, <<y>>, <<>>, Found(rs, n, hs)))
<1>1. PICK f : f = Found(rs, n, hs)
  OBVIOUS
<1>2. PICK c : /\ Step(St(s, <<x>>, <<>>, f), Start(k)) = St(Append(s, c), <<x>>, <<>>, f)
               /\ Inside(Append(s, c), k) /\ Bare(c)
  BY <1>1, EntersTarget
<1>3. Turns(St(Append(s, c), <<x>>, <<>>, f), b, St(Append(s, c), <<y>>, <<>>, f))
  BY <1>1, <1>2, Zenon DEF Within
<1>4. Step(St(Append(s, c), <<y>>, <<>>, f), End) = St(s, <<y>>, <<>>, f)
  <2>1. PICK r : r = <<y>>
    OBVIOUS
  <2>2. PICK h : h = <<>>
    OBVIOUS
  <2>3. Leaves(s, c, r, h, rs, n, hs)
    BY <1>2, ClosesPlain
  <2>. QED BY <1>1, <2>1, <2>2, <2>3, Zenon DEF Leaves
<1>5. Turns(St(s, <<x>>, <<>>, f), <<Start(k)>> \o b \o <<End>>, St(s, <<y>>, <<>>, f))
  BY <1>2, <1>3, <1>4, TurnsAround, Zenon
<1>. QED BY <1>1, <1>5, Zenon DEF Span

\* The name of a record is read as it was written,
LEMMA NameSpan ==
  ASSUME NEW s, IsSeq(s), ~Controlled(s), NEW k, NEW d, NEW x \in Seq(Letters), NEW as, NEW cu,
         NEW v, NEW rs, NEW n, NEW hs
  PROVE  Turns(St(s, <<Rec(k, d, <<>>, as, cu, v)>>, <<>>, Found(rs, n, hs)),
               Span("xml-name", EscapeXml(x)),
               St(s, <<Rec(k, d, x, as, cu, v)>>, <<>>, Found(rs, n, hs)))
<1>1. PICK f : f = Found(rs, n, hs)
  OBVIOUS
<1>2. ASSUME NEW c, Inside(Append(s, c), "xml-name")
      PROVE  Turns(St(Append(s, c), <<Rec(k, d, <<>>, as, cu, v)>>, <<>>, f), EscapeXml(x),
                   St(Append(s, c), <<Rec(k, d, x, as, cu, v)>>, <<>>, f))
  <2>1. PICK t : t = Append(s, c)
    OBVIOUS
  <2>2. PICK F : F = [y \in Seq(Letters) |-> St(t, <<Rec(k, d, y, as, cu, v)>>, <<>>, f)]
    OBVIOUS
  <2>3. Collects(t, F, f)
    BY <1>2, <2>1, <2>2, NameCollects
  <2>4. IsSeq(t)
    BY <1>2, <2>1, Zenon DEF Inside
  <2>5. Turns(F[<<>>], EscapeXml(x), F[x])
    BY <1>1, <2>3, <2>4, NameTurns
  <2>6. PICK z \in Seq(Letters) : z = <<>>
    BY NothingWritten, Zenon
  <2>7. F[z] = St(t, <<Rec(k, d, z, as, cu, v)>>, <<>>, f)
        /\ F[x] = St(t, <<Rec(k, d, x, as, cu, v)>>, <<>>, f)
    BY <2>2
  <2>. QED BY <2>1, <2>5, <2>6, <2>7, Zenon
<1>3. PICK y : y = Rec(k, d, <<>>, as, cu, v)
  OBVIOUS
<1>4. PICK z : z = Rec(k, d, x, as, cu, v)
  OBVIOUS
<1>5. Within(s, "xml-name", EscapeXml(x), y, z, f)
  BY <1>2, <1>3, <1>4, Zenon DEF Within
<1>6. "xml-name" \in Targets
  BY DEF Targets
<1>. QED BY <1>1, <1>3, <1>4, <1>5, <1>6, TargetSpan, Zenon

\* its text,
LEMMA TextSpan ==
  ASSUME NEW s, IsSeq(s), ~Controlled(s), NEW k, NEW d, NEW m, NEW as, NEW cu,
         NEW x \in Seq(Letters), NEW rs, NEW n, NEW hs
  PROVE  Turns(St(s, <<Rec(k, d, m, as, cu, <<>>)>>, <<>>, Found(rs, n, hs)),
               Span("xml-text-value", RenderValue(x)),
               St(s, <<Rec(k, d, m, as, cu, x)>>, <<>>, Found(rs, n, hs)))
<1>1. PICK f : f = Found(rs, n, hs)
  OBVIOUS
<1>2. ASSUME NEW c, Inside(Append(s, c), "xml-text-value")
      PROVE  Turns(St(Append(s, c), <<Rec(k, d, m, as, cu, <<>>)>>, <<>>, f), RenderValue(x),
                   St(Append(s, c), <<Rec(k, d, m, as, cu, x)>>, <<>>, f))
  <2>1. PICK t : t = Append(s, c)
    OBVIOUS
  <2>2. PICK F : F = [y \in Seq(Letters) |-> St(t, <<Rec(k, d, m, as, cu, y)>>, <<>>, f)]
    OBVIOUS
  <2>3. Collects(t, F, f)
    BY <1>2, <2>1, <2>2, TextCollects
  <2>4. IsSeq(t)
    BY <1>2, <2>1, Zenon DEF Inside
  <2>5. Turns(F[<<>>], RenderValue(x), F[x])
    BY <1>1, <2>3, <2>4, ValueTurns
  <2>6. PICK z \in Seq(Letters) : z = <<>>
    BY NothingWritten, Zenon
  <2>7. F[z] = St(t, <<Rec(k, d, m, as, cu, z)>>, <<>>, f)
        /\ F[x] = St(t, <<Rec(k, d, m, as, cu, x)>>, <<>>, f)
    BY <2>2
  <2>. QED BY <2>1, <2>5, <2>6, <2>7, Zenon
<1>3. PICK y : y = Rec(k, d, m, as, cu, <<>>)
  OBVIOUS
<1>4. PICK z : z = Rec(k, d, m, as, cu, x)
  OBVIOUS
<1>5. Within(s, "xml-text-value", RenderValue(x), y, z, f)
  BY <1>2, <1>3, <1>4, Zenon DEF Within
<1>6. "xml-text-value" \in Targets
  BY DEF Targets
<1>. QED BY <1>1, <1>3, <1>4, <1>5, <1>6, TargetSpan, Zenon

\* the name of an attribute,
LEMMA AttributeNameSpan ==
  ASSUME NEW s, IsSeq(s), ~Controlled(s), NEW k, NEW d, NEW m, NEW as, NEW x \in Seq(Letters),
         NEW b, NEW v, NEW rs, NEW n, NEW hs
  PROVE  Turns(St(s, <<Rec(k, d, m, as, <<Named(<<>>, b)>>, v)>>, <<>>, Found(rs, n, hs)),
               Span("xml-attribute-name", EscapeXml(x)),
               St(s, <<Rec(k, d, m, as, <<Named(x, b)>>, v)>>, <<>>, Found(rs, n, hs)))
<1>1. PICK f : f = Found(rs, n, hs)
  OBVIOUS
<1>2. ASSUME NEW c, Inside(Append(s, c), "xml-attribute-name")
      PROVE  Turns(St(Append(s, c), <<Rec(k, d, m, as, <<Named(<<>>, b)>>, v)>>, <<>>, f), EscapeXml(x),
                   St(Append(s, c), <<Rec(k, d, m, as, <<Named(x, b)>>, v)>>, <<>>, f))
  <2>1. PICK t : t = Append(s, c)
    OBVIOUS
  <2>2. PICK F : F = [y \in Seq(Letters) |->
                        St(t, <<Rec(k, d, m, as, <<Named(y, b)>>, v)>>, <<>>, f)]
    OBVIOUS
  <2>3. Collects(t, F, f)
    BY <1>2, <2>1, <2>2, AttributeNameCollects
  <2>4. IsSeq(t)
    BY <1>2, <2>1, Zenon DEF Inside
  <2>5. Turns(F[<<>>], EscapeXml(x), F[x])
    BY <1>1, <2>3, <2>4, NameTurns
  <2>6. PICK z \in Seq(Letters) : z = <<>>
    BY NothingWritten, Zenon
  <2>7. F[z] = St(t, <<Rec(k, d, m, as, <<Named(z, b)>>, v)>>, <<>>, f)
        /\ F[x] = St(t, <<Rec(k, d, m, as, <<Named(x, b)>>, v)>>, <<>>, f)
    BY <2>2
  <2>. QED BY <2>1, <2>5, <2>6, <2>7, Zenon
<1>3. PICK y : y = Rec(k, d, m, as, <<Named(<<>>, b)>>, v)
  OBVIOUS
<1>4. PICK z : z = Rec(k, d, m, as, <<Named(x, b)>>, v)
  OBVIOUS
<1>5. Within(s, "xml-attribute-name", EscapeXml(x), y, z, f)
  BY <1>2, <1>3, <1>4, Zenon DEF Within
<1>6. "xml-attribute-name" \in Targets
  BY DEF Targets
<1>. QED BY <1>1, <1>3, <1>4, <1>5, <1>6, TargetSpan, Zenon

\* and its value.
LEMMA AttributeValueSpan ==
  ASSUME NEW s, IsSeq(s), ~Controlled(s), NEW k, NEW d, NEW m, NEW as, NEW a,
         NEW x \in Seq(Letters), NEW v, NEW rs, NEW n, NEW hs
  PROVE  Turns(St(s, <<Rec(k, d, m, as, <<Named(a, <<>>)>>, v)>>, <<>>, Found(rs, n, hs)),
               Span("xml-attribute-value", RenderValue(x)),
               St(s, <<Rec(k, d, m, as, <<Named(a, x)>>, v)>>, <<>>, Found(rs, n, hs)))
<1>1. PICK f : f = Found(rs, n, hs)
  OBVIOUS
<1>2. ASSUME NEW c, Inside(Append(s, c), "xml-attribute-value")
      PROVE  Turns(St(Append(s, c), <<Rec(k, d, m, as, <<Named(a, <<>>)>>, v)>>, <<>>, f), RenderValue(x),
                   St(Append(s, c), <<Rec(k, d, m, as, <<Named(a, x)>>, v)>>, <<>>, f))
  <2>1. PICK t : t = Append(s, c)
    OBVIOUS
  <2>2. PICK F : F = [y \in Seq(Letters) |->
                        St(t, <<Rec(k, d, m, as, <<Named(a, y)>>, v)>>, <<>>, f)]
    OBVIOUS
  <2>3. Collects(t, F, f)
    BY <1>2, <2>1, <2>2, AttributeValueCollects
  <2>4. IsSeq(t)
    BY <1>2, <2>1, Zenon DEF Inside
  <2>5. Turns(F[<<>>], RenderValue(x), F[x])
    BY <1>1, <2>3, <2>4, ValueTurns
  <2>6. PICK z \in Seq(Letters) : z = <<>>
    BY NothingWritten, Zenon
  <2>7. F[z] = St(t, <<Rec(k, d, m, as, <<Named(a, z)>>, v)>>, <<>>, f)
        /\ F[x] = St(t, <<Rec(k, d, m, as, <<Named(a, x)>>, v)>>, <<>>, f)
    BY <2>2
  <2>. QED BY <2>1, <2>5, <2>6, <2>7, Zenon
<1>3. PICK y : y = Rec(k, d, m, as, <<Named(a, <<>>)>>, v)
  OBVIOUS
<1>4. PICK z : z = Rec(k, d, m, as, <<Named(a, x)>>, v)
  OBVIOUS
<1>5. Within(s, "xml-attribute-value", RenderValue(x), y, z, f)
  BY <1>2, <1>3, <1>4, Zenon DEF Within
<1>6. "xml-attribute-value" \in Targets
  BY DEF Targets
<1>. QED BY <1>1, <1>3, <1>4, <1>5, <1>6, TargetSpan, Zenon

\* An attribute of a record.
AttributeOpens(s, c, k, d, m, as, v, rs, n, hs) ==
  /\ Step(St(s, <<Rec(k, d, m, as, <<>>, v)>>, <<>>, Found(rs, n, hs)), Start("xml-attribute"))
       = St(Append(s, c), <<Rec(k, d, m, as, <<Named(<<>>, <<>>)>>, v)>>, <<>>, Found(rs, n, hs))
  /\ IsSeq(Append(s, c)) /\ ~Controlled(Append(s, c))
  /\ c.attributeRoot /\ ~c.recordRoot /\ ~c.headingRoot

LEMMA AttributeBegins ==
  ASSUME NEW s, IsSeq(s), ~Controlled(s), NEW k, NEW d, NEW m, NEW as, NEW v,
         NEW rs, NEW n, NEW hs
  PROVE  \E c : AttributeOpens(s, c, k, d, m, as, v, rs, n, hs)
<1>1. PICK e : e = Start("xml-attribute")
  OBVIOUS
<1>2. e.type = "start" /\ e.class = "xml-attribute"
  BY <1>1, EventsAre
<1>3. PICK x : x = Rec(k, d, m, as, <<>>, v)
  OBVIOUS
<1>4. PICK r : r = <<x>>
  OBVIOUS
<1>5. r # <<>> /\ r[1] = x /\ x.current = <<>>
  <2>1. PICK z : z = <<>>
    OBVIOUS
  <2>2. x = Rec(k, d, m, as, z, v)
    BY <1>3, <2>1, Zenon
  <2>3. x.current = z
    BY <2>2, CurrentIs, Zenon
  <2>4. r # <<>> /\ r[1] = x
    BY <1>4, OneIs
  <2>. QED BY <2>1, <2>3, <2>4, Zenon
<1>6. PICK c : c = ContextOf(r, <<>>, e)
  OBVIOUS
<1>7. c.attributeRoot /\ ~c.recordRoot /\ ~c.headingRoot /\ ~c.control
  <2>1. /\ c.recordRoot <=> r = <<>> /\ e.class = "record"
        /\ c.attributeRoot <=> r # <<>> /\ e.class = "xml-attribute"
        /\ c.headingRoot <=> <<>> = <<>> /\ e.class = "entry-heading"
        /\ c.control <=> e.class = "xml-control"
    BY <1>6, ContextIs, Zenon
  <2>. QED BY <1>2, <1>5, <2>1, Zenon
<1>8. CapturedBy(r, e) = <<Rec(k, d, m, as, <<Named(<<>>, <<>>)>>, v)>>
  <2>1. PICK u : u = <<Named(<<>>, <<>>)>>
    OBVIOUS
  <2>2. CapturedBy(r, e) = [r EXCEPT ![1].current = <<[name |-> <<>>, value |-> <<>>]>>]
    BY <1>2, <1>5, Zenon DEF CapturedBy
  <2>3. u = <<[name |-> <<>>, value |-> <<>>]>>
    BY <2>1, Zenon DEF Named
  <2>4. [r EXCEPT ![1].current = u] = [r EXCEPT ![1] = [x EXCEPT !.current = u]]
    BY <1>5
  <2>5. PICK y : y = [x EXCEPT !.current = u]
    OBVIOUS
  <2>6. y = Rec(k, d, m, as, u, v)
    <3>1. PICK z : z = <<>>
      OBVIOUS
    <3>2. RecWith(k, d, m, as, z, v, u)
      BY RecWithIs, Zenon
    <3>. QED BY <1>3, <2>5, <3>1, <3>2, Zenon DEF RecWith
  <2>7. [r EXCEPT ![1] = y] = <<y>>
    BY <1>4, OneIs
  <2>. QED BY <2>1, <2>2, <2>3, <2>4, <2>5, <2>6, <2>7, Zenon
<1>9. Step(St(s, r, <<>>, Found(rs, n, hs)), e) = Opened(s, r, <<>>, rs, n, hs, e)
  <2>1. Element(r, e)
    BY <1>2, <1>5, Zenon DEF Element
  <2>. QED BY <2>1, ElementOpens, Zenon
<1>10. Opened(s, r, <<>>, rs, n, hs, e) =
         St(Append(s, c), <<Rec(k, d, m, as, <<Named(<<>>, <<>>)>>, v)>>, <<>>, Found(rs, n, hs))
  BY <1>2, <1>6, <1>8, Zenon DEF Opened
<1>11. IsSeq(Append(s, c)) /\ ~Controlled(Append(s, c))
  <2>1. InnerContext(s, c)
    BY InnerContextIs
  <2>2. Extends(s, c)
    BY Extended
  <2>. QED BY <1>7, <2>1, <2>2, Zenon DEF InnerContext, Extends
<1>. QED BY <1>1, <1>3, <1>4, <1>7, <1>9, <1>10, <1>11, Zenon DEF AttributeOpens

AttributeCloses(s, c, k, d, m, as, a, v, rs, n, hs) ==
  Step(St(Append(s, c), <<Rec(k, d, m, as, <<a>>, v)>>, <<>>, Found(rs, n, hs)), End)
    = St(s, <<Rec(k, d, m, Append(as, a), <<>>, v)>>, <<>>, Found(rs, n, hs))
EndsAttribute(c, a) == c.attributeRoot /\ ~c.recordRoot /\ ~c.headingRoot /\ a.name # <<>>

\* The end of an attribute.
LEMMA AttributeEnds ==
  ASSUME NEW s, IsSeq(s), NEW c, NEW k, NEW d, NEW m, NEW A, NEW as \in Seq(A), NEW a \in A,
         EndsAttribute(c, a), NEW v, NEW rs, NEW n, NEW hs
  PROVE  AttributeCloses(s, c, k, d, m, as, a, v, rs, n, hs)
<1>0. c.attributeRoot /\ ~c.recordRoot /\ ~c.headingRoot /\ a.name # <<>>
  BY Zenon DEF EndsAttribute
<1>1. PICK u : u = <<a>>
  OBVIOUS
<1>2. PICK x : x = Rec(k, d, m, as, u, v)
  OBVIOUS
<1>3. PICK r : r = <<x>>
  OBVIOUS
<1>4. r[1] = x /\ u[1] = a /\ \A y : [r EXCEPT ![1] = y] = <<y>>
  BY <1>1, <1>3, OneIs
<1>5. PICK z : z = <<>>
  OBVIOUS
<1>6. PICK bs : bs = Append(as, a)
  OBVIOUS
<1>7. /\ x.current = u /\ x.attributes = as
      /\ [x EXCEPT !.attributes = bs] = Rec(k, d, m, bs, u, v)
      /\ [Rec(k, d, m, bs, u, v) EXCEPT !.current = z] = Rec(k, d, m, bs, z, v)
  <2>1. RecWith(k, d, m, as, u, v, bs) /\ RecWith(k, d, m, bs, u, v, z)
    BY RecWithIs
  <2>. QED BY <1>2, <2>1, Zenon DEF RecWith
<1>8. PICK f : f = Found(rs, n, hs)
  OBVIOUS
<1>9. PICK t : t = Append(s, c)
  OBVIOUS
<1>10. Step(St(t, r, <<>>, f), End) = EndStep(t, r, <<>>, f, c)
  BY <1>9, Closes
<1>11. ~EndFails(r, c)
  <2>1. r[1].current[1].name = a.name
    BY <1>4, <1>7
  <2>. QED BY <1>0, <2>1, Zenon DEF EndFails
<1>12. as \o u = bs
  BY <1>1, <1>6, AppendIsConcat
<1>13. [r EXCEPT ![1].attributes = @ \o r[1].current, ![1].current = z] = <<Rec(k, d, m, bs, z, v)>>
  <2>1. PICK x1 : x1 = [x EXCEPT !.attributes = bs]
    OBVIOUS
  <2>2. PICK x2 : x2 = [x1 EXCEPT !.current = z]
    OBVIOUS
  <2>3. x2 = Rec(k, d, m, bs, z, v)
    BY <1>7, <2>1, <2>2, Zenon
  <2>4. PICK r1 : r1 = [r EXCEPT ![1].attributes = @ \o r[1].current]
    OBVIOUS
  <2>5. r1 = <<x1>>
    <3>1. r1 = [r EXCEPT ![1] = x1]
      BY <1>4, <1>7, <1>12, <2>1, <2>4
    <3>. QED BY <1>4, <3>1, Zenon
  <2>6. r1[1] = x1 /\ \A y : [r1 EXCEPT ![1] = y] = <<y>>
    BY <2>5, OneIs
  <2>7. [r1 EXCEPT ![1].current = z] = [r1 EXCEPT ![1] = x2]
    BY <2>2, <2>6
  <2>8. [r1 EXCEPT ![1].current = z] = <<x2>>
    BY <2>6, <2>7, Zenon
  <2>9. [r EXCEPT ![1].attributes = @ \o r[1].current, ![1].current = z] = [r1 EXCEPT ![1].current = z]
    BY <2>4, Zenon
  <2>. QED BY <2>3, <2>8, <2>9, Zenon
<1>14. SubSeq(t, 1, Len(t) - 1) = s
  <2>1. Extends(s, c)
    BY Extended
  <2>. QED BY <1>9, <2>1, Zenon DEF Extends
<1>15. [f EXCEPT !.records = IF c.recordRoot THEN Append(@, Finished(r[1])) ELSE @,
                !.headwords = IF c.headingRoot THEN Append(@, Trim(<<>>[1])) ELSE @] = f
  BY <1>0, <1>8 DEF Found
<1>16. EndStep(t, r, <<>>, f, c) = St(s, <<Rec(k, d, m, bs, z, v)>>, <<>>, f)
  <2>1. (CASE c.attributeRoot -> [r EXCEPT ![1].attributes = @ \o r[1].current, ![1].current = <<>>]
            [] c.recordRoot -> <<>>
            [] OTHER -> r) = [r EXCEPT ![1].attributes = @ \o r[1].current, ![1].current = <<>>]
    BY <1>0
  <2>. QED BY <1>0, <1>5, <1>11, <1>13, <1>14, <1>15, <2>1, Zenon DEF EndStep
<1>. QED BY <1>1, <1>2, <1>3, <1>5, <1>6, <1>8, <1>9, <1>10, <1>16, Zenon DEF AttributeCloses

Attributes == {Named(a, v) : a \in Seq(Letters) \ {<<>>}, v \in Seq(Letters)}

\* An attribute is read as it is.
LEMMA AttributeTurns ==
  ASSUME NEW s, IsSeq(s), ~Controlled(s), NEW k, NEW d, NEW m, NEW as \in Seq(Attributes), NEW v,
         NEW a \in Attributes, NEW rs, NEW n, NEW hs
  PROVE  Turns(St(s, <<Rec(k, d, m, as, <<>>, v)>>, <<>>, Found(rs, n, hs)), RenderAttribute(a),
               St(s, <<Rec(k, d, m, Append(as, a), <<>>, v)>>, <<>>, Found(rs, n, hs)))
<1>1. PICK p \in Seq(Letters) : p # <<>> /\ \E q \in Seq(Letters) : a = Named(p, q)
  BY DEF Attributes
<1>2. PICK q \in Seq(Letters) : a = Named(p, q)
  BY <1>1
<1>3. a.name = p /\ a.value = q
  BY <1>2 DEF Named
<1>4. PICK f : f = Found(rs, n, hs)
  OBVIOUS
<1>5. PICK c : AttributeOpens(s, c, k, d, m, as, v, rs, n, hs)
  BY AttributeBegins
<1>15. /\ Step(St(s, <<Rec(k, d, m, as, <<>>, v)>>, <<>>, f), Start("xml-attribute"))
            = St(Append(s, c), <<Rec(k, d, m, as, <<Named(<<>>, <<>>)>>, v)>>, <<>>, f)
       /\ IsSeq(Append(s, c)) /\ ~Controlled(Append(s, c))
       /\ c.attributeRoot /\ ~c.recordRoot /\ ~c.headingRoot
  BY <1>4, <1>5, Zenon DEF AttributeOpens
<1>6. PICK t : t = Append(s, c)
  OBVIOUS
<1>7. PICK e : e = <<>>
  OBVIOUS
<1>8. Turns(St(t, <<Rec(k, d, m, as, <<Named(<<>>, e)>>, v)>>, <<>>, f),
            Span("xml-attribute-name", EscapeXml(p)),
            St(t, <<Rec(k, d, m, as, <<Named(p, e)>>, v)>>, <<>>, f))
  BY <1>4, <1>6, <1>15, AttributeNameSpan
<1>9. Turns(St(t, <<Rec(k, d, m, as, <<Named(p, <<>>)>>, v)>>, <<>>, f),
            Span("xml-attribute-value", RenderValue(q)),
            St(t, <<Rec(k, d, m, as, <<Named(p, q)>>, v)>>, <<>>, f))
  BY <1>4, <1>6, <1>15, AttributeValueSpan
<1>10. PICK x : x = Span("xml-attribute-name", EscapeXml(p))
  OBVIOUS
<1>11. PICK y : y = Span("xml-attribute-value", RenderValue(q))
  OBVIOUS
<1>12. Turns(St(t, <<Rec(k, d, m, as, <<Named(<<>>, <<>>)>>, v)>>, <<>>, f), x \o y,
             St(t, <<Rec(k, d, m, as, <<Named(p, q)>>, v)>>, <<>>, f))
  BY <1>7, <1>8, <1>9, <1>10, <1>11, TurnsOn, Zenon
<1>13. Step(St(t, <<Rec(k, d, m, as, <<a>>, v)>>, <<>>, f), End)
         = St(s, <<Rec(k, d, m, Append(as, a), <<>>, v)>>, <<>>, f)
  <2>1. EndsAttribute(c, a)
    BY <1>1, <1>3, <1>15, Zenon DEF EndsAttribute
  <2>2. AttributeCloses(s, c, k, d, m, as, a, v, rs, n, hs)
    BY <2>1, AttributeEnds
  <2>. QED BY <1>4, <1>6, <2>2, Zenon DEF AttributeCloses
<1>14. Turns(St(s, <<Rec(k, d, m, as, <<>>, v)>>, <<>>, f),
             <<Start("xml-attribute")>> \o (x \o y) \o <<End>>,
             St(s, <<Rec(k, d, m, Append(as, a), <<>>, v)>>, <<>>, f))
  <2>1. PICK a1 : a1 = St(s, <<Rec(k, d, m, as, <<>>, v)>>, <<>>, f)
    OBVIOUS
  <2>2. PICK b1 : b1 = St(t, <<Rec(k, d, m, as, <<Named(<<>>, <<>>)>>, v)>>, <<>>, f)
    OBVIOUS
  <2>3. PICK c1 : c1 = St(t, <<Rec(k, d, m, as, <<a>>, v)>>, <<>>, f)
    OBVIOUS
  <2>4. PICK d1 : d1 = St(s, <<Rec(k, d, m, Append(as, a), <<>>, v)>>, <<>>, f)
    OBVIOUS
  <2>5. PICK b : b = x \o y
    OBVIOUS
  <2>6. Step(a1, Start("xml-attribute")) = b1
    BY <1>6, <1>15, <2>1, <2>2, Zenon
  <2>7. Turns(b1, b, c1)
    BY <1>2, <1>12, <2>2, <2>3, <2>5, Zenon
  <2>8. Step(c1, End) = d1
    BY <1>13, <2>3, <2>4, Zenon
  <2>9. Turns(a1, <<Start("xml-attribute")>> \o b \o <<End>>, d1)
    BY <2>6, <2>7, <2>8, TurnsAround, Zenon
  <2>. QED BY <2>1, <2>4, <2>5, <2>9, Zenon
<1>. QED BY <1>3, <1>4, <1>10, <1>11, <1>14, Zenon DEF RenderAttribute, Span

\* All attributes of a record.
LEMMA AttributesTurn ==
  ASSUME NEW s, IsSeq(s), ~Controlled(s), NEW k, NEW d, NEW m, NEW as \in Seq(Attributes), NEW v,
         NEW rs, NEW n, NEW hs
  PROVE  Turns(St(s, <<Rec(k, d, m, <<>>, <<>>, v)>>, <<>>, Found(rs, n, hs)),
               FlattenSeq([i \in DOMAIN as |-> RenderAttribute(as[i])]),
               St(s, <<Rec(k, d, m, as, <<>>, v)>>, <<>>, Found(rs, n, hs)))
<1>1. PICK G : G = [a \in Attributes |-> RenderAttribute(a)]
  OBVIOUS
<1>2. Mapped(G, as) = [i \in DOMAIN as |-> RenderAttribute(as[i])]
  <2>1. \A i \in DOMAIN as : as[i] \in Attributes
    BY LenProperties, ElementOfSeq
  <2>2. \A i \in DOMAIN as : G[as[i]] = RenderAttribute(as[i])
    BY <1>1, <2>1
  <2>. QED BY <2>2 DEF Mapped
<1>3. PICK f : f = Found(rs, n, hs)
  OBVIOUS
<1>4. PICK F : F = [x \in Seq(Attributes) |-> St(s, <<Rec(k, d, m, x, <<>>, v)>>, <<>>, f)]
  OBVIOUS
<1>5. ASSUME NEW x \in Seq(Attributes), NEW a \in Attributes
      PROVE  Turns(F[x], G[a], F[Append(x, a)])
  <2>1. PICK y \in Seq(Attributes) : y = Append(x, a)
    BY AppendProperties
  <2>2. F[x] = St(s, <<Rec(k, d, m, x, <<>>, v)>>, <<>>, f)
        /\ F[y] = St(s, <<Rec(k, d, m, y, <<>>, v)>>, <<>>, f)
    BY <1>4
  <2>3. G[a] = RenderAttribute(a)
    BY <1>1
  <2>. QED BY <1>3, <2>1, <2>2, <2>3, AttributeTurns, Zenon
<1>6. \A x \in Seq(Attributes) : \A a \in Attributes : Turns(F[x], G[a], F[Append(x, a)])
  BY <1>5
<1>7. Turns(F[<<>>], FlattenSeq(Mapped(G, as)), F[as])
  BY <1>6, TurnsEach, Zenon
<1>8. PICK z \in Seq(Attributes) : z = <<>>
  <2>1. <<>> \in Seq(Attributes)
    OBVIOUS
  <2>. QED BY <2>1, Zenon
<1>9. F[z] = St(s, <<Rec(k, d, m, z, <<>>, v)>>, <<>>, f)
      /\ F[as] = St(s, <<Rec(k, d, m, as, <<>>, v)>>, <<>>, f)
  BY <1>4
<1>. QED BY <1>2, <1>3, <1>7, <1>8, <1>9, Zenon

\* A record begins and ends.
RecordOpens(s, c, k, d, rs, n, hs) ==
  /\ Step(St(s, <<>>, <<>>, Found(rs, n, hs)), RecordStart(k, d))
       = St(Append(s, c), <<Rec(k, d, <<>>, <<>>, <<>>, <<>>)>>, <<>>, Found(rs, n, hs))
  /\ IsSeq(Append(s, c)) /\ ~Controlled(Append(s, c))
  /\ ~c.attributeRoot /\ c.recordRoot /\ ~c.headingRoot

LEMMA RecordBegins ==
  ASSUME NEW s, IsSeq(s), ~Controlled(s), NEW k, NEW d, NEW rs, NEW n, NEW hs
  PROVE  \E c : RecordOpens(s, c, k, d, rs, n, hs)
<1>1. PICK e : e = RecordStart(k, d)
  OBVIOUS
<1>2. e.type = "start" /\ e.class = "record" /\ e.kind = k /\ e.depth = d
  BY <1>1, EventsAre
<1>3. PICK c : c = ContextOf(<<>>, <<>>, e)
  OBVIOUS
<1>4. ~c.attributeRoot /\ c.recordRoot /\ ~c.headingRoot /\ ~c.control
  <2>1. /\ c.recordRoot <=> <<>> = <<>> /\ e.class = "record"
        /\ c.attributeRoot <=> <<>> # <<>> /\ e.class = "xml-attribute"
        /\ c.headingRoot <=> <<>> = <<>> /\ e.class = "entry-heading"
        /\ c.control <=> e.class = "xml-control"
    BY <1>3, ContextIs, Zenon
  <2>. QED BY <1>2, <2>1, Zenon
<1>5. CapturedBy(<<>>, e) = <<Rec(k, d, <<>>, <<>>, <<>>, <<>>)>>
  BY <1>2, Zenon DEF CapturedBy, Rec
<1>6. Step(St(s, <<>>, <<>>, Found(rs, n, hs)), e) = Opened(s, <<>>, <<>>, rs, n, hs, e)
  <2>1. Element(<<>>, e)
    BY <1>2, Zenon DEF Element
  <2>. QED BY <2>1, ElementOpens, Zenon
<1>7. Opened(s, <<>>, <<>>, rs, n, hs, e) =
         St(Append(s, c), <<Rec(k, d, <<>>, <<>>, <<>>, <<>>)>>, <<>>, Found(rs, n, hs))
  BY <1>2, <1>3, <1>5, Zenon DEF Opened
<1>8. IsSeq(Append(s, c)) /\ ~Controlled(Append(s, c))
  <2>1. InnerContext(s, c)
    BY InnerContextIs
  <2>2. Extends(s, c)
    BY Extended
  <2>. QED BY <1>4, <2>1, <2>2, Zenon DEF InnerContext, Extends
<1>. QED BY <1>1, <1>4, <1>6, <1>7, <1>8, Zenon DEF RecordOpens

RecordCloses(s, c, x, rs, n, hs) ==
  Step(St(Append(s, c), <<x>>, <<>>, Found(rs, n, hs)), End)
    = St(s, <<>>, <<>>, Found(Append(rs, Finished(x)), n, hs))
EndsRecord(c) == ~c.attributeRoot /\ c.recordRoot /\ ~c.headingRoot

\* The end of a record.
LEMMA RecordEnds ==
  ASSUME NEW s, IsSeq(s), NEW c, EndsRecord(c), NEW x, ~Unfinished(x), NEW rs, NEW n, NEW hs
  PROVE  RecordCloses(s, c, x, rs, n, hs)
<1>0. ~c.attributeRoot /\ c.recordRoot /\ ~c.headingRoot
  BY Zenon DEF EndsRecord
<1>1. PICK r : r = <<x>>
  OBVIOUS
<1>2. r[1] = x
  BY <1>1, OneIs
<1>3. PICK f : f = Found(rs, n, hs)
  OBVIOUS
<1>4. PICK t : t = Append(s, c)
  OBVIOUS
<1>5. Step(St(t, r, <<>>, f), End) = EndStep(t, r, <<>>, f, c)
  BY <1>4, Closes
<1>6. ~EndFails(r, c)
  BY <1>0, <1>2, Zenon DEF EndFails
<1>7. SubSeq(t, 1, Len(t) - 1) = s
  <2>1. Extends(s, c)
    BY Extended
  <2>. QED BY <1>4, <2>1, Zenon DEF Extends
<1>8. PICK y : y = Append(rs, Finished(x))
  OBVIOUS
<1>9. f.records = rs /\ f.headwords = hs
      /\ [f EXCEPT !.records = y, !.headwords = hs] = Found(y, n, hs)
  <2>1. FoundWith(rs, n, hs, y, n, hs)
    BY FoundWithIs
  <2>. QED BY <1>3, <2>1, Zenon DEF FoundWith
<1>10. [f EXCEPT !.records = IF c.recordRoot THEN Append(@, Finished(r[1])) ELSE @,
                 !.headwords = IF c.headingRoot THEN Append(@, Trim(<<>>[1])) ELSE @]
         = [f EXCEPT !.records = y, !.headwords = hs]
  BY <1>0, <1>2, <1>3, <1>8, <1>9 DEF Found
<1>11. EndStep(t, r, <<>>, f, c) = St(s, <<>>, <<>>, Found(y, n, hs))
  <2>1. (CASE c.attributeRoot -> [r EXCEPT ![1].attributes = @ \o r[1].current, ![1].current = <<>>]
            [] c.recordRoot -> <<>>
            [] OTHER -> r) = <<>>
    BY <1>0
  <2>. QED BY <1>0, <1>6, <1>7, <1>9, <1>10, <2>1, Zenon DEF EndStep
<1>. QED BY <1>1, <1>3, <1>4, <1>5, <1>8, <1>11, Zenon DEF RecordCloses

\* A record of the source, and what the audit has captured of it.
RecordOf(k, d, n, v, as) ==
  [kind |-> k, depth |-> d, name |-> n, value |-> v, attributes |-> as]

FinishesAs(d, n, as, v, x) ==
  /\ x = Rec("start", d, n, as, <<>>, v) /\ n # <<>> =>
       ~Unfinished(x) /\ Finished(x) = RecordOf("start", d, n, <<>>, as)
  /\ x = Rec("end", d, n, as, <<>>, v) /\ n # <<>> =>
       ~Unfinished(x) /\ Finished(x) = RecordOf("end", d, n, <<>>, <<>>)
  /\ x = Rec("text", d, n, as, <<>>, v) =>
       ~Unfinished(x) /\ Finished(x) = RecordOf("text", d, <<>>, v, <<>>)

LEMMA FinishedIs ==
  ASSUME NEW d, NEW n, NEW as, NEW v, NEW x PROVE FinishesAs(d, n, as, v, x)
<1>1. PICK z : z = <<>>
  OBVIOUS
<1>2. ASSUME NEW k, x = Rec(k, d, n, as, z, v)
      PROVE  x.kind = k /\ x.depth = d /\ x.name = n /\ x.attributes = as /\ x.current = z /\ x.value = v
  <2>1. RecWith(k, d, n, as, z, v, z)
    BY RecWithIs, Zenon
  <2>. QED BY <1>2, <2>1, Zenon DEF RecWith
<1>3. ASSUME x = Rec("start", d, n, as, z, v), n # <<>>
      PROVE  ~Unfinished(x) /\ Finished(x) = RecordOf("start", d, n, z, as)
  <2>1. /\ x.kind = "start" /\ x.depth = d /\ x.name = n /\ x.attributes = as /\ x.current = z
        /\ x.value = v
    BY <1>2, <1>3
  <2>2. ~Unfinished(x)
    BY <1>1, <1>3, <2>1, Zenon DEF Unfinished
  <2>3. Finished(x) = RecordOf("start", d, n, z, as)
    BY <1>1, <2>1, Zenon DEF Finished, RecordOf
  <2>. QED BY <2>2, <2>3
<1>4. ASSUME x = Rec("end", d, n, as, z, v), n # <<>>
      PROVE  ~Unfinished(x) /\ Finished(x) = RecordOf("end", d, n, z, z)
  <2>1. /\ x.kind = "end" /\ x.depth = d /\ x.name = n /\ x.attributes = as /\ x.current = z
        /\ x.value = v
    BY <1>2, <1>4
  <2>2. ~Unfinished(x)
    BY <1>1, <1>4, <2>1, Zenon DEF Unfinished
  <2>3. Finished(x) = RecordOf("end", d, n, z, z)
    BY <1>1, <2>1, Zenon DEF Finished, RecordOf
  <2>. QED BY <2>2, <2>3
<1>5. ASSUME x = Rec("text", d, n, as, z, v)
      PROVE  ~Unfinished(x) /\ Finished(x) = RecordOf("text", d, z, v, z)
  <2>1. /\ x.kind = "text" /\ x.depth = d /\ x.name = n /\ x.attributes = as /\ x.current = z
        /\ x.value = v
    BY <1>2, <1>5
  <2>2. ~Unfinished(x)
    BY <1>1, <2>1, Zenon DEF Unfinished
  <2>3. Finished(x) = RecordOf("text", d, z, v, z)
    BY <1>1, <2>1, Zenon DEF Finished, RecordOf
  <2>. QED BY <2>2, <2>3
<1>. QED BY <1>1, <1>3, <1>4, <1>5, Zenon DEF FinishesAs

(***************************************************************************)
(* Whole records, whole entries.                                           *)
(***************************************************************************)

\* The audit reads the record as it is.
Reads(r, s, rs, n, hs) ==
  Turns(St(s, <<>>, <<>>, Found(rs, n, hs)), RenderRecord(r),
        St(s, <<>>, <<>>, Found(Append(rs, r), n, hs)))

Readable(r) ==
  \A s, rs, n, hs : IsSeq(s) /\ ~Controlled(s) => Reads(r, s, rs, n, hs)

\* What is between the tags of a record turns the captured record into x.
Between(k, d, b, x) ==
  \A t, rs, n, hs : IsSeq(t) /\ ~Controlled(t) =>
    Turns(St(t, <<Rec(k, d, <<>>, <<>>, <<>>, <<>>)>>, <<>>, Found(rs, n, hs)), b,
          St(t, <<x>>, <<>>, Found(rs, n, hs)))

LEMMA RecordIsReadable ==
  ASSUME NEW k, NEW d, NEW b, NEW x, Between(k, d, b, x), ~Unfinished(x),
         RenderRecord(Finished(x)) = <<RecordStart(k, d)>> \o b \o <<End>>
  PROVE  Readable(Finished(x))
<1> SUFFICES ASSUME NEW s, NEW rs, NEW n, NEW hs, IsSeq(s), ~Controlled(s)
             PROVE  Reads(Finished(x), s, rs, n, hs)
  BY Zenon DEF Readable
<1>1. PICK c : RecordOpens(s, c, k, d, rs, n, hs)
  BY RecordBegins
<1>2. PICK t : t = Append(s, c)
  OBVIOUS
<1>3. PICK b1 : b1 = St(t, <<Rec(k, d, <<>>, <<>>, <<>>, <<>>)>>, <<>>, Found(rs, n, hs))
  OBVIOUS
<1>4. PICK c1 : c1 = St(t, <<x>>, <<>>, Found(rs, n, hs))
  OBVIOUS
<1>5. /\ Step(St(s, <<>>, <<>>, Found(rs, n, hs)), RecordStart(k, d)) = b1
      /\ IsSeq(t) /\ ~Controlled(t) /\ EndsRecord(c)
  BY <1>1, <1>2, <1>3, Zenon DEF RecordOpens, EndsRecord
<1>6. Turns(b1, b, c1)
  BY <1>3, <1>4, <1>5, Zenon DEF Between
<1>7. RecordCloses(s, c, x, rs, n, hs)
  BY <1>5, RecordEnds
<1>8. Step(c1, End) = St(s, <<>>, <<>>, Found(Append(rs, Finished(x)), n, hs))
  BY <1>2, <1>4, <1>7, Zenon DEF RecordCloses
<1>9. PICK d1 : d1 = St(s, <<>>, <<>>, Found(Append(rs, Finished(x)), n, hs))
  OBVIOUS
<1>10. PICK a1 : a1 = St(s, <<>>, <<>>, Found(rs, n, hs))
  OBVIOUS
<1>11. Turns(a1, <<RecordStart(k, d)>> \o b \o <<End>>, d1)
  <2>1. Step(a1, RecordStart(k, d)) = b1 /\ Step(c1, End) = d1
    BY <1>5, <1>8, <1>9, <1>10, Zenon
  <2>. QED BY <1>6, <2>1, TurnsAround, Zenon
<1>. QED BY <1>9, <1>10, <1>11, Zenon DEF Reads

Renders(k, d, n, v, as) ==
  /\ k # "text" =>
       RenderRecord(RecordOf(k, d, n, v, as)) =
         <<RecordStart(k, d)>>
         \o (Span("xml-name", EscapeXml(n))
             \o FlattenSeq([i \in DOMAIN as |-> RenderAttribute(as[i])]))
         \o <<End>>
  /\ k = "text" =>
       RenderRecord(RecordOf(k, d, n, v, as)) =
         <<RecordStart(k, d)>> \o Span("xml-text-value", RenderValue(v)) \o <<End>>

\* What render_record writes, by the kind of the record.
LEMMA RenderRecordIs ==
  ASSUME NEW k, NEW d, NEW n, NEW v, NEW as PROVE Renders(k, d, n, v, as)
<1>1. PICK r : r = RecordOf(k, d, n, v, as)
  BY Zenon
<1>2. r.kind = k /\ r.depth = d /\ r.name = n /\ r.value = v /\ r.attributes = as
  BY <1>1 DEF RecordOf
<1>. QED BY <1>1, <1>2, Zenon DEF RenderRecord, RecordStart, Renders

\* The start and the end of an element, with its name and its attributes.
LEMMA NamedIsReadable ==
  ASSUME NEW k \in {"start", "end"}, NEW d, NEW x \in Seq(Letters), x # <<>>,
         NEW as \in Seq(Attributes), k = "end" => as = <<>>
  PROVE  Readable(RecordOf(k, d, x, <<>>, as))
<1>1. PICK b : b = Span("xml-name", EscapeXml(x))
                   \o FlattenSeq([i \in DOMAIN as |-> RenderAttribute(as[i])])
  OBVIOUS
<1>2. PICK c : c = Rec(k, d, x, as, <<>>, <<>>)
  OBVIOUS
<1>3. Between(k, d, b, c)
  <2> SUFFICES ASSUME NEW t, NEW rs, NEW n, NEW hs, IsSeq(t), ~Controlled(t)
               PROVE  Turns(St(t, <<Rec(k, d, <<>>, <<>>, <<>>, <<>>)>>, <<>>, Found(rs, n, hs)), b,
                            St(t, <<c>>, <<>>, Found(rs, n, hs)))
    BY Zenon DEF Between
  <2>1. PICK z : z = <<>>
    OBVIOUS
  <2>2. Turns(St(t, <<Rec(k, d, <<>>, z, z, z)>>, <<>>, Found(rs, n, hs)),
              Span("xml-name", EscapeXml(x)),
              St(t, <<Rec(k, d, x, z, z, z)>>, <<>>, Found(rs, n, hs)))
    BY NameSpan
  <2>3. Turns(St(t, <<Rec(k, d, x, <<>>, <<>>, z)>>, <<>>, Found(rs, n, hs)),
              FlattenSeq([i \in DOMAIN as |-> RenderAttribute(as[i])]),
              St(t, <<Rec(k, d, x, as, <<>>, z)>>, <<>>, Found(rs, n, hs)))
    BY AttributesTurn
  <2>. QED BY <1>1, <1>2, <2>1, <2>2, <2>3, TurnsOn, Zenon
<1>4. ~Unfinished(c) /\ Finished(c) = RecordOf(k, d, x, <<>>, as)
  <2>1. PICK z : z = <<>>
    OBVIOUS
  <2>2. FinishesAs(d, x, as, z, c)
    BY FinishedIs
  <2>3. CASE k = "start"
    BY <1>2, <2>1, <2>2, <2>3, Zenon DEF FinishesAs
  <2>4. CASE k = "end"
    BY <1>2, <2>1, <2>2, <2>4, Zenon DEF FinishesAs
  <2>. QED BY <2>3, <2>4
<1>5. RenderRecord(Finished(c)) = <<RecordStart(k, d)>> \o b \o <<End>>
  <2>1. k # "text"
    OBVIOUS
  <2>2. PICK z : z = <<>>
    OBVIOUS
  <2>3. Renders(k, d, x, z, as)
    BY RenderRecordIs
  <2>. QED BY <1>1, <1>4, <2>1, <2>2, <2>3, Zenon DEF Renders
<1>6. Readable(Finished(c))
  BY <1>3, <1>4, <1>5, RecordIsReadable
<1>. QED BY <1>4, <1>6, Zenon

\* A text.
LEMMA TextIsReadable ==
  ASSUME NEW d, NEW x \in Seq(Letters) PROVE Readable(RecordOf("text", d, <<>>, x, <<>>))
<1>1. PICK b : b = Span("xml-text-value", RenderValue(x))
  OBVIOUS
<1>2. PICK c : c = Rec("text", d, <<>>, <<>>, <<>>, x)
  OBVIOUS
<1>3. PICK k : k = "text"
  OBVIOUS
<1>4. Between(k, d, b, c)
  <2> SUFFICES ASSUME NEW t, NEW rs, NEW n, NEW hs, IsSeq(t), ~Controlled(t)
               PROVE  Turns(St(t, <<Rec(k, d, <<>>, <<>>, <<>>, <<>>)>>, <<>>, Found(rs, n, hs)), b,
                            St(t, <<c>>, <<>>, Found(rs, n, hs)))
    BY Zenon DEF Between
  <2>1. PICK z : z = <<>>
    OBVIOUS
  <2>2. Turns(St(t, <<Rec(k, d, z, z, z, <<>>)>>, <<>>, Found(rs, n, hs)),
              Span("xml-text-value", RenderValue(x)),
              St(t, <<Rec(k, d, z, z, z, x)>>, <<>>, Found(rs, n, hs)))
    BY TextSpan
  <2>. QED BY <1>1, <1>2, <1>3, <2>1, <2>2, Zenon
<1>5. ~Unfinished(c) /\ Finished(c) = RecordOf(k, d, <<>>, x, <<>>)
  <2>1. PICK z : z = <<>>
    OBVIOUS
  <2>2. FinishesAs(d, z, z, x, c)
    BY FinishedIs
  <2>. QED BY <1>2, <1>3, <2>1, <2>2, Zenon DEF FinishesAs
<1>6. RenderRecord(Finished(c)) = <<RecordStart(k, d)>> \o b \o <<End>>
  <2>1. PICK z : z = <<>>
    OBVIOUS
  <2>2. Renders(k, d, z, x, z)
    BY RenderRecordIs
  <2>. QED BY <1>1, <1>3, <1>5, <2>1, <2>2, Zenon DEF Renders
<1>7. Readable(Finished(c))
  BY <1>4, <1>5, <1>6, RecordIsReadable
<1>. QED BY <1>3, <1>5, <1>7, Zenon

\* All records of an entry.
LEMMA RecordsTurn ==
  ASSUME NEW s, IsSeq(s), ~Controlled(s), NEW R, \A r \in R : Readable(r), NEW y \in Seq(R),
         NEW n, NEW hs
  PROVE  Turns(St(s, <<>>, <<>>, Found(<<>>, n, hs)),
               FlattenSeq([i \in DOMAIN y |-> RenderRecord(y[i])]),
               St(s, <<>>, <<>>, Found(y, n, hs)))
<1>1. PICK G : G = [r \in R |-> RenderRecord(r)]
  OBVIOUS
<1>2. Mapped(G, y) = [i \in DOMAIN y |-> RenderRecord(y[i])]
  <2>1. \A i \in DOMAIN y : y[i] \in R
    BY LenProperties, ElementOfSeq
  <2>2. \A i \in DOMAIN y : G[y[i]] = RenderRecord(y[i])
    BY <1>1, <2>1
  <2>. QED BY <2>2 DEF Mapped
<1>3. PICK F : F = [x \in Seq(R) |-> St(s, <<>>, <<>>, Found(x, n, hs))]
  OBVIOUS
<1>4. ASSUME NEW x \in Seq(R), NEW r \in R PROVE Turns(F[x], G[r], F[Append(x, r)])
  <2>1. PICK z \in Seq(R) : z = Append(x, r)
    BY AppendProperties
  <2>2. F[x] = St(s, <<>>, <<>>, Found(x, n, hs)) /\ F[z] = St(s, <<>>, <<>>, Found(z, n, hs))
    BY <1>3
  <2>3. G[r] = RenderRecord(r)
    BY <1>1
  <2>4. Reads(r, s, x, n, hs)
    <3>1. Readable(r)
      OBVIOUS
    <3>. QED BY <3>1, Zenon DEF Readable
  <2>. QED BY <2>1, <2>2, <2>3, <2>4, Zenon DEF Reads
<1>5. \A x \in Seq(R) : \A r \in R : Turns(F[x], G[r], F[Append(x, r)])
  BY <1>4
<1>6. Turns(F[<<>>], FlattenSeq(Mapped(G, y)), F[y])
  BY <1>5, TurnsEach, Zenon
<1>7. PICK z \in Seq(R) : z = <<>>
  <2>1. <<>> \in Seq(R)
    OBVIOUS
  <2>. QED BY <2>1, Zenon
<1>8. F[z] = St(s, <<>>, <<>>, Found(z, n, hs)) /\ F[y] = St(s, <<>>, <<>>, Found(y, n, hs))
  BY <1>3
<1>. QED BY <1>2, <1>6, <1>7, <1>8, Zenon

\* The heading of an entry.
LEMMA HeadingTurns ==
  ASSUME NEW s, Inside(s, ""), NEW x \in Seq(Letters), NEW rs, NEW n, NEW hs
  PROVE  Turns(St(s, <<>>, <<>>, Found(rs, n, hs)), Span("entry-heading", RenderValue(x)),
               St(s, <<>>, <<>>, Found(rs, n, Append(hs, Trim(x)))))
<1>1. PICK e : e = Start("entry-heading")
  BY Zenon
<1>2. e.type = "start" /\ e.class = "entry-heading"
  BY <1>1, EventsAre, Zenon
<1>3. PICK c : c = ContextOf(<<>>, <<>>, e)
  BY Zenon
<1>4. ~c.attributeRoot /\ ~c.recordRoot /\ c.headingRoot /\ ~c.control /\ c.target = ""
  <2>1. /\ c.recordRoot <=> <<>> = <<>> /\ e.class = "record"
        /\ c.attributeRoot <=> <<>> # <<>> /\ e.class = "xml-attribute"
        /\ c.headingRoot <=> <<>> = <<>> /\ e.class = "entry-heading"
        /\ c.target = IF <<>> # <<>> /\ e.class \in Targets THEN e.class ELSE ""
        /\ c.control <=> e.class = "xml-control"
    BY <1>3, ContextIs, Zenon
  <2>. QED BY <1>2, <2>1, Zenon
<1>5. PICK f : f = Found(rs, n, hs)
  BY Zenon
<1>6. PICK t : t = Append(s, c)
  BY Zenon
<1>7. Step(St(s, <<>>, <<>>, f), e) = St(t, <<>>, <<<<>>>>, f)
  <2>1. Element(<<>>, e)
    BY <1>2, Zenon DEF Element
  <2>2. Step(St(s, <<>>, <<>>, Found(rs, n, hs)), e) = Opened(s, <<>>, <<>>, rs, n, hs, e)
    BY <2>1, ElementOpens, Zenon
  <2>3. CapturedBy(<<>>, e) = <<>>
    BY <1>2, Zenon DEF CapturedBy
  <2>. QED BY <1>2, <1>3, <1>5, <1>6, <2>2, <2>3, Zenon DEF Opened
<1>8. Inside(t, "")
  <2>1. InnerContext(s, c)
    BY InnerContextIs, Zenon DEF Inside
  <2>2. Extends(s, c)
    BY Extended, Zenon DEF Inside
  <2>. QED BY <1>4, <1>6, <2>1, <2>2, Zenon DEF InnerContext, Inside, Extends
<1>9. Turns(St(t, <<>>, <<<<>>>>, f), RenderValue(x), St(t, <<>>, <<x>>, f))
  <2>1. PICK F : F = [y \in Seq(Letters) |-> St(t, <<>>, <<y>>, f)]
    BY Zenon
  <2>2. Collects(t, F, f)
    BY <1>8, <2>1, HeadingCollects, Zenon
  <2>3. IsSeq(t)
    BY <1>8, Zenon DEF Inside
  <2>4. Turns(F[<<>>], RenderValue(x), F[x])
    BY <1>5, <2>2, <2>3, ValueTurns, Zenon
  <2>5. PICK z \in Seq(Letters) : z = <<>>
    BY NothingWritten, Zenon
  <2>6. F[z] = St(t, <<>>, <<z>>, f) /\ F[x] = St(t, <<>>, <<x>>, f)
    BY <2>1, Zenon
  <2>. QED BY <2>4, <2>5, <2>6, Zenon
<1>10. Step(St(t, <<>>, <<x>>, f), End) = St(s, <<>>, <<>>, Found(rs, n, Append(hs, Trim(x))))
  <2>1. PICK h : h = <<x>>
    BY Zenon
  <2>2. h[1] = x
    BY <2>1, OneIs, Zenon
  <2>3. PICK r : r = <<>>
    BY Zenon
  <2>4. Step(St(t, r, h, f), End) = EndStep(t, r, h, f, c)
    <3>1. IsSeq(s)
      BY Zenon DEF Inside
    <3>. QED BY <1>6, <3>1, Closes, Zenon
  <2>5. ~EndFails(r, c)
    BY <1>4, Zenon DEF EndFails
  <2>6. SubSeq(t, 1, Len(t) - 1) = s
    <3>1. Extends(s, c)
      BY Extended, Zenon DEF Inside
    <3>. QED BY <1>6, <3>1, Zenon DEF Extends
  <2>7. PICK y : y = Append(hs, Trim(x))
    BY Zenon
  <2>8. f.records = rs /\ f.headwords = hs
        /\ [f EXCEPT !.records = rs, !.headwords = y] = Found(rs, n, y)
    <3>1. FoundWith(rs, n, hs, rs, n, y)
      BY FoundWithIs, Zenon
    <3>. QED BY <1>5, <3>1, Zenon DEF FoundWith
  <2>9. [f EXCEPT !.records = IF c.recordRoot THEN Append(@, Finished(r[1])) ELSE @,
                  !.headwords = IF c.headingRoot THEN Append(@, Trim(h[1])) ELSE @]
          = [f EXCEPT !.records = rs, !.headwords = y]
    BY <1>4, <1>5, <2>2, <2>7, <2>8, Zenon DEF Found
  <2>10. EndStep(t, r, h, f, c) = St(s, r, <<>>, Found(rs, n, y))
    <3>1. (CASE c.attributeRoot -> [r EXCEPT ![1].attributes = @ \o r[1].current, ![1].current = <<>>]
              [] c.recordRoot -> <<>>
              [] OTHER -> r) = r
      BY <1>4, Zenon
    <3>. QED BY <1>4, <2>5, <2>6, <2>8, <2>9, <3>1, Zenon DEF EndStep
  <2>. QED BY <2>1, <2>3, <2>4, <2>7, <2>10, Zenon
<1>11. PICK b : b = RenderValue(x)
  BY Zenon
<1>12. Turns(St(s, <<>>, <<>>, f), <<e>> \o b \o <<End>>,
             St(s, <<>>, <<>>, Found(rs, n, Append(hs, Trim(x)))))
  <2>1. PICK a1 : a1 = St(s, <<>>, <<>>, f)
    BY Zenon
  <2>2. PICK b1 : b1 = St(t, <<>>, <<<<>>>>, f)
    BY Zenon
  <2>3. PICK c1 : c1 = St(t, <<>>, <<x>>, f)
    BY Zenon
  <2>4. PICK d1 : d1 = St(s, <<>>, <<>>, Found(rs, n, Append(hs, Trim(x))))
    BY Zenon
  <2>5. Step(a1, e) = b1 /\ Turns(b1, b, c1) /\ Step(c1, End) = d1
    BY <1>7, <1>9, <1>10, <1>11, <2>1, <2>2, <2>3, <2>4, Zenon
  <2>6. Turns(a1, <<e>> \o b \o <<End>>, d1)
    BY <2>5, TurnsAround, Zenon
  <2>. QED BY <2>1, <2>4, <2>6, Zenon
<1>. QED BY <1>1, <1>5, <1>11, <1>12, Zenon DEF Span

\* A stack without contexts.
LEMMA NoContext == IsSeq(<<>>) /\ ~Controlled(<<>>) /\ TargetOf(<<>>) = ""
<1>1. <<>> \in Seq({0}) /\ DOMAIN <<>> = {}
  OBVIOUS
<1>2. IsSeq(<<>>)
  BY <1>1 DEF IsSeq
<1>3. ~Controlled(<<>>)
  BY <1>1, Zenon DEF Controlled
<1>4. {i \in DOMAIN <<>> : <<>>[i].target # ""} = {}
  <2>1. \A i : i \notin {j \in DOMAIN <<>> : <<>>[j].target # ""}
    BY <1>1, Zenon
  <2>. QED BY <2>1, Zenon
<1>5. TargetOf(<<>>) = ""
  BY <1>4, Zenon DEF TargetOf
<1>. QED BY <1>2, <1>3, <1>5, Zenon

\* An entry is read as it is.
LEMMA EntryTurns ==
  ASSUME NEW x \in Seq(Letters), Trim(x) = x, NEW R, \A r \in R : Readable(r), NEW y \in Seq(R),
         NEW m, m = [records |-> y, entries |-> 1, headwords |-> <<x>>]
  PROVE  Turns(St(<<>>, <<>>, <<>>, NoSummary), RenderEntry(m), St(<<>>, <<>>, <<>>, m))
<1>1. PICK z : z = <<>>
  OBVIOUS
<1>2. PICK e : e = Start("entry")
  OBVIOUS
<1>3. e.type = "start" /\ e.class = "entry"
  BY <1>2, EventsAre
<1>4. PICK c : c = ContextOf(z, z, e)
  OBVIOUS
<1>5. ~c.attributeRoot /\ ~c.recordRoot /\ ~c.headingRoot /\ ~c.control /\ c.target = ""
  <2>1. /\ c.recordRoot <=> z = <<>> /\ e.class = "record"
        /\ c.attributeRoot <=> z # <<>> /\ e.class = "xml-attribute"
        /\ c.headingRoot <=> z = <<>> /\ e.class = "entry-heading"
        /\ c.target = IF z # <<>> /\ e.class \in Targets THEN e.class ELSE ""
        /\ c.control <=> e.class = "xml-control"
    BY <1>4, ContextIs, Zenon
  <2>. QED BY <1>1, <1>3, <2>1, Zenon
<1>6. PICK t : t = Append(z, c)
  OBVIOUS
<1>7. NoSummary = Found(z, 0, z)
  BY <1>1, Zenon DEF NoSummary, Found
<1>8. Step(St(z, z, z, Found(z, 0, z)), e) = St(t, z, z, Found(z, 1, z))
  <2>1. Element(z, e)
    BY <1>3, Zenon DEF Element
  <2>2. Step(St(z, z, z, Found(z, 0, z)), e) = Opened(z, z, z, z, 0, z, e)
    BY <2>1, ElementOpens, Zenon
  <2>3. CapturedBy(z, e) = z
    BY <1>3, Zenon DEF CapturedBy
  <2>4. 0 + 1 = 1
    OBVIOUS
  <2>. QED BY <1>3, <1>4, <1>6, <2>2, <2>3, <2>4, Zenon DEF Opened
<1>9. Inside(t, "") /\ IsSeq(z)
  <2>1. IsSeq(z) /\ ~Controlled(z) /\ TargetOf(z) = ""
    BY <1>1, NoContext, Zenon
  <2>2. InnerContext(z, c)
    BY <2>1, InnerContextIs, Zenon
  <2>3. Extends(z, c)
    BY <2>1, Extended, Zenon
  <2>. QED BY <1>5, <1>6, <2>1, <2>2, <2>3, Zenon DEF InnerContext, Inside, Extends
<1>10. PICK b : b = Span("entry-heading", RenderValue(x))
  OBVIOUS
<1>11. PICK d : d = FlattenSeq([i \in DOMAIN y |-> RenderRecord(y[i])])
  OBVIOUS
<1>12. PICK hs : hs = <<x>>
  OBVIOUS
<1>13. Turns(St(t, z, z, Found(z, 1, z)), b, St(t, z, z, Found(z, 1, hs)))
  <2>1. Turns(St(t, <<>>, <<>>, Found(z, 1, z)), b, St(t, <<>>, <<>>, Found(z, 1, Append(z, Trim(x)))))
    BY <1>9, <1>10, HeadingTurns, Zenon
  <2>2. Append(z, Trim(x)) = hs
    <3>1. Tuples(x, x, x)
      BY TuplesAppended
    <3>. QED BY <1>1, <1>12, <3>1, Zenon DEF Tuples
  <2>. QED BY <1>1, <2>1, <2>2, Zenon
<1>14. Turns(St(t, z, z, Found(z, 1, hs)), d, St(t, z, z, Found(y, 1, hs)))
  <2>1. IsSeq(t) /\ ~Controlled(t)
    BY <1>9, Zenon DEF Inside
  <2>2. Turns(St(t, <<>>, <<>>, Found(<<>>, 1, hs)), d, St(t, <<>>, <<>>, Found(y, 1, hs)))
    BY <1>11, <2>1, RecordsTurn
  <2>. QED BY <1>1, <2>2, Zenon
<1>15. Turns(St(t, z, z, Found(z, 1, z)), b \o d, St(t, z, z, Found(y, 1, hs)))
  BY <1>13, <1>14, TurnsOn
<1>16. Step(St(t, z, z, Found(y, 1, hs)), End) = St(z, z, z, Found(y, 1, hs))
  <2>1. Bare(c)
    BY <1>5, Zenon DEF Bare
  <2>2. Leaves(z, c, z, z, y, 1, hs)
    BY <1>9, <2>1, ClosesPlain, Zenon
  <2>. QED BY <1>6, <2>2, Zenon DEF Leaves
<1>17. PICK a1 : a1 = St(z, z, z, Found(z, 0, z))
  OBVIOUS
<1>18. PICK b1 : b1 = St(t, z, z, Found(z, 1, z))
  OBVIOUS
<1>19. PICK c1 : c1 = St(t, z, z, Found(y, 1, hs))
  OBVIOUS
<1>20. PICK d1 : d1 = St(z, z, z, Found(y, 1, hs))
  OBVIOUS
<1>21. PICK q : q = b \o d
  OBVIOUS
<1>22. Turns(a1, <<e>> \o q \o <<End>>, d1)
  <2>1. Step(a1, e) = b1 /\ Turns(b1, q, c1) /\ Step(c1, End) = d1
    BY <1>8, <1>15, <1>16, <1>17, <1>18, <1>19, <1>20, <1>21, Zenon
  <2>. QED BY <2>1, TurnsAround, Zenon
<1>23. m = Found(y, 1, hs)
  BY <1>12, Zenon DEF Found
<1>24. m.records = y /\ m.headwords[1] = x
  <2>1. m.records = y /\ m.headwords = hs
    BY <1>12
  <2>2. hs[1] = x
    BY <1>12, OneIs
  <2>. QED BY <2>1, <2>2, Zenon
<1>25. RenderEntry(m) = <<e>> \o q \o <<End>>
  BY <1>2, <1>10, <1>11, <1>21, <1>24, Zenon DEF RenderEntry, Span
<1>. QED BY <1>1, <1>7, <1>17, <1>20, <1>22, <1>23, <1>25, Zenon

(***************************************************************************)
(* What the conversion writes of an ordinary source the audit reads back.  *)
(***************************************************************************)

\* What is trimmed is not empty at its ends.
Trims(x) == Trim(x) \in Seq(Letters) /\ Trim(Trim(x)) = Trim(x)

LEMMA TrimmedTwice ==
  ASSUME NEW x \in Seq(Letters) PROVE Trims(x)
<1> DEFINE Ink(u) == {i \in DOMAIN u : u[i] \notin {U0A, U0D}}
           First(u) == CHOOSE i \in Ink(u) : \A j \in Ink(u) : i <= j
           Last1(u) == CHOOSE i \in Ink(u) : \A j \in Ink(u) : i >= j
<1>1. ASSUME NEW u PROVE Trim(u) = IF Ink(u) = {} THEN <<>> ELSE SubSeq(u, First(u), Last1(u))
  BY Zenon DEF Trim
<1>2. CASE Ink(x) = {}
  <2>1. Trim(x) = <<>>
    BY <1>1, <1>2
  <2>2. Ink(<<>>) = {}
    <3>1. DOMAIN <<>> = {}
      OBVIOUS
    <3>. QED BY <3>1
  <2>3. Trim(<<>>) = <<>>
    BY <1>1, <2>2
  <2>4. <<>> \in Seq(Letters)
    BY NothingWritten
  <2>. QED BY <2>1, <2>3, <2>4, Zenon DEF Trims
<1>3. CASE Ink(x) # {}
  <2>1. Len(x) \in Nat /\ DOMAIN x = 1..Len(x)
    BY LenProperties
  <2>2. PICK n \in Nat : n = Len(x)
    BY <2>1, Zenon
  <2>3. PICK I : I = Ink(x)
    OBVIOUS
  <2>4. I \in SUBSET (1..n) /\ I # {} /\ \A i : i \in I <=> i \in 1..n /\ x[i] \notin {U0A, U0D}
    BY <1>3, <2>1, <2>2, <2>3
  <2>5. PICK a : a = CHOOSE i \in I : \A j \in I : i <= j
    OBVIOUS
  <2>6. PICK b : b = CHOOSE i \in I : \A j \in I : i >= j
    OBVIOUS
  <2>7. a \in I /\ \A j \in I : a <= j
    <3>1. I \in SUBSET Nat
      BY <2>4
    <3>2. \E i \in I : \A j \in I : i <= j
      BY <2>4, <3>1, LeastNatural
    <3>. QED BY <2>5, <3>2
  <2>8. b \in I /\ \A j \in I : b >= j
    <3>1. PICK D : D = {n - i : i \in I}
      OBVIOUS
    <3>2. D \in SUBSET Nat /\ D # {}
      <4>1. \A i \in I : n - i \in Nat
        BY <2>4
      <4>. QED BY <2>4, <3>1, <4>1
    <3>3. PICK g \in D : \A h \in D : g <= h
      BY <3>2, LeastNatural
    <3>4. PICK i \in I : g = n - i
      BY <3>1, <3>3
    <3>5. \A j \in I : i >= j
      <4> TAKE j \in I
      <4>1. n - j \in D
        BY <3>1
      <4>2. n - i <= n - j
        BY <3>3, <3>4, <4>1
      <4>3. i \in Nat /\ j \in Nat
        BY <2>4
      <4>. QED BY <4>2, <4>3
    <3>. QED BY <2>6, <3>5
  <2>9. a \in 1..n /\ b \in 1..n /\ a <= b
    BY <2>4, <2>7, <2>8
  <2>10. PICK y : y = SubSeq(x, a, b)
    OBVIOUS
  <2>11. Trim(x) = y
    BY <1>1, <1>3, <2>3, <2>5, <2>6, <2>10
  <2>12. PICK m \in Nat : m = (b - a) + 1 /\ m >= 1
    BY <2>9
  <2>13. y \in Seq(Letters) /\ Len(y) = m /\ \A i \in 1..m : y[i] = x[(a + i) - 1]
    <3>1. \A i \in a..b : x[i] \in Letters
      BY <2>2, <2>9, ElementOfSeq
    <3>2. y \in Seq(Letters) /\ Len(y) = (IF a <= b THEN (b - a) + 1 ELSE 0)
          /\ \A i \in 1..((b - a) + 1) : y[i] = x[(a + i) - 1]
      BY <2>9, <2>10, <3>1, SubSeqProperties
    <3>. QED BY <2>9, <2>12, <3>2
  <2>14. DOMAIN y = 1..m
    BY <2>13, LenProperties
  <2>15. y[1] = x[a] /\ y[m] = x[b]
    <3>1. 1 \in 1..m /\ m \in 1..m /\ (a + 1) - 1 = a /\ (a + m) - 1 = b
      BY <2>9, <2>12
    <3>. QED BY <2>13, <3>1
  <2>16. PICK J : J = Ink(y)
    OBVIOUS
  <2>17. 1 \in J /\ m \in J /\ J \subseteq 1..m
    <3>1. x[a] \notin {U0A, U0D} /\ x[b] \notin {U0A, U0D}
      BY <2>4, <2>7, <2>8
    <3>2. 1 \in DOMAIN y /\ m \in DOMAIN y
      BY <2>12, <2>14
    <3>. QED BY <2>14, <2>15, <2>16, <3>1, <3>2
  <2>18. PICK a1 : a1 = CHOOSE i \in J : \A j \in J : i <= j
    OBVIOUS
  <2>19. PICK b1 : b1 = CHOOSE i \in J : \A j \in J : i >= j
    OBVIOUS
  <2>20. a1 = 1
    <3>1. \E i \in J : \A j \in J : i <= j
      BY <2>17
    <3>2. a1 \in J /\ \A j \in J : a1 <= j
      BY <2>18, <3>1
    <3>. QED BY <2>17, <3>2
  <2>21. b1 = m
    <3>1. \E i \in J : \A j \in J : i >= j
      BY <2>17
    <3>2. b1 \in J /\ \A j \in J : b1 >= j
      BY <2>19, <3>1
    <3>. QED BY <2>17, <3>2
  <2>22. Trim(y) = SubSeq(y, 1, m)
    <3>1. J # {}
      BY <2>17
    <3>. QED BY <1>1, <2>16, <2>18, <2>19, <2>20, <2>21, <3>1
  <2>23. SubSeq(y, 1, m) = y
    <3>1. SubSeq(y, 1, Len(y)) = y
      BY <2>13, SubSeqFull
    <3>. QED BY <2>13, <3>1
  <2>. QED BY <2>11, <2>13, <2>22, <2>23, Zenon DEF Trims
<1>. QED BY <1>2, <1>3


\* The records of an element the audit reads back.
LEMMA ReadableRecords ==
  ASSUME NEW n \in Seq(Letters), n # <<>>, NEW v \in Seq(Letters), NEW t \in Seq(Letters)
  PROVE  \E R : (\A r \in R : Readable(r)) /\ Records(n, v, t) \in Seq(R)
<1>1. PICK a : a = <<<<"a">>>>
  OBVIOUS
<1>2. a \in Seq(Letters) \ {<<>>}
  <2>1. <<"a">> \in Letters
    BY DEF Letters
  <2>. QED BY <1>1, <2>1
<1>3. PICK c : c = Named(a, v)
  OBVIOUS
<1>4. PICK as : as = <<c>>
  OBVIOUS
<1>5. as \in Seq(Attributes)
  <2>1. c \in Attributes
    <3>1. Named(a, v) \in Attributes
      BY <1>2 DEF Attributes
    <3>. QED BY <1>3, <3>1
  <2>. QED BY <1>4, <2>1
<1>6. PICK r1 : r1 = RecordOf("start", Depth, n, <<>>, as)
  OBVIOUS
<1>7. PICK r2 : r2 = RecordOf("text", Depth, <<>>, t, <<>>)
  OBVIOUS
<1>8. PICK r3 : r3 = RecordOf("end", Depth, n, <<>>, <<>>)
  OBVIOUS
<1>9. Readable(r1)
  <2>1. "start" # "end"
    OBVIOUS
  <2>. QED BY <1>5, <1>6, <2>1, NamedIsReadable, Zenon
<1>10. Readable(r2)
  BY <1>7, TextIsReadable, Zenon
<1>11. Readable(r3)
  <2>1. PICK z \in Seq(Attributes) : z = <<>>
    <3>1. <<>> \in Seq(Attributes)
      OBVIOUS
    <3>. QED BY <3>1
  <2>. QED BY <1>8, <2>1, NamedIsReadable, Zenon
<1>12. PICK R : R = {r1, r2, r3}
  OBVIOUS
<1>13. \A r \in R : Readable(r)
  BY <1>9, <1>10, <1>11, <1>12, Zenon
<1>14. Records(n, v, t) = <<r1>> \o (IF Blank(t) THEN <<>> ELSE <<r2>>) \o <<r3>>
  BY <1>1, <1>3, <1>4, <1>6, <1>7, <1>8, Zenon DEF Records, RecordOf, Named
<1>15. Records(n, v, t) \in Seq(R)
  <2>1. <<>> \in Seq(R) /\ <<r1>> \in Seq(R) /\ <<r2>> \in Seq(R) /\ <<r3>> \in Seq(R)
    BY <1>12
  <2>2. PICK q \in Seq(R) : q = IF Blank(t) THEN <<>> ELSE <<r2>>
    BY <2>1, Zenon
  <2>3. <<r1>> \o q \o <<r3>> \in Seq(R)
    BY <2>1
  <2>. QED BY <1>14, <2>2, <2>3, Zenon
<1>. QED BY <1>13, <1>15, Zenon

\* A headword has been trimmed.
HeadwordTrimmed(t) == Headword(t) \in Seq(Letters) /\ Trim(Headword(t)) = Headword(t)

LEMMA HeadwordIs ==
  ASSUME NEW t \in Seq(Letters) PROVE HeadwordTrimmed(t)
<1> DEFINE Ink(u) == {i \in DOMAIN u : u[i] \notin {U0A, U0D}}
           First(u) == CHOOSE i \in Ink(u) : \A j \in Ink(u) : i <= j
           Last1(u) == CHOOSE i \in Ink(u) : \A j \in Ink(u) : i >= j
<1>0. ASSUME NEW u PROVE Trim(u) = IF Ink(u) = {} THEN <<>> ELSE SubSeq(u, First(u), Last1(u))
  BY Zenon DEF Trim
<1>1. CASE Blank(t)
  <2>1. PICK x : x = <<<<"1">>>>
    OBVIOUS
  <2>2. x \in Seq(Letters) /\ Len(x) = 1 /\ x[1] = <<"1">> /\ DOMAIN x = {1}
    <3>1. <<"1">> \in Letters
      BY DEF Letters
    <3>2. x \in Seq(Letters) /\ Len(x) = 1 /\ x[1] = <<"1">>
      BY <2>1, <3>1
    <3>3. DOMAIN x = 1..1
      BY <3>2, LenProperties
    <3>. QED BY <3>2, <3>3
  <2>3. PICK ink : ink = Ink(x)
    OBVIOUS
  <2>4. ink = {1}
    <3>1. <<"1">> \notin {U0A, U0D}
      BY DEF U0A, U0D
    <3>. QED BY <2>2, <2>3, <3>1
  <2>5. PICK lo : lo = CHOOSE i \in ink : \A j \in ink : i <= j
    OBVIOUS
  <2>6. PICK hi : hi = CHOOSE i \in ink : \A j \in ink : i >= j
    OBVIOUS
  <2>7. lo = 1 /\ hi = 1
    <3>1. \E i \in ink : \A j \in ink : i <= j
      BY <2>4
    <3>2. \E i \in ink : \A j \in ink : i >= j
      BY <2>4
    <3>3. lo \in ink /\ hi \in ink
      BY <2>5, <2>6, <3>1, <3>2
    <3>. QED BY <2>4, <3>3
  <2>8. Trim(x) = SubSeq(x, lo, hi)
    <3>1. ink # {}
      BY <2>4
    <3>. QED BY <1>0, <2>3, <2>5, <2>6, <3>1
  <2>9. Trim(x) = x
    <3>1. SubSeq(x, 1, Len(x)) = x
      BY <2>2, SubSeqFull
    <3>. QED BY <2>2, <2>7, <2>8, <3>1
  <2>10. Headword(t) = x
    BY <1>1, <2>1, Zenon DEF Headword
  <2>. QED BY <2>2, <2>9, <2>10, Zenon DEF HeadwordTrimmed
<1>2. CASE ~Blank(t)
  <2>1. Headword(t) = Trim(t)
    BY <1>2, Zenon DEF Headword
  <2>2. Trims(t)
    BY TrimmedTwice
  <2>. QED BY <2>1, <2>2, Zenon DEF HeadwordTrimmed, Trims
<1>. QED BY <1>1, <1>2

\* The book of a source is read as what was written into it.
WrittenRead(m) == Turns(St(<<>>, <<>>, <<>>, NoSummary), RenderEntry(m), St(<<>>, <<>>, <<>>, m))

LEMMA SummaryTurns ==
  ASSUME NEW n \in Seq(Letter), n # <<>>, NEW v \in Seq(Letter), NEW t \in Seq(Letter)
  PROVE  WrittenRead(Summary(n, v, t))
<1>1. n \in Seq(Letters) /\ v \in Seq(Letters) /\ t \in Seq(Letters)
  <2>1. Seq(Letter) \subseteq Seq(Letters)
    <3>1. Letter \subseteq Letters
      BY Zenon DEF Letters
    <3>2. Includes(Letters, Letter)
      BY <3>1, SeqIncludes
    <3>. QED BY <3>2, Zenon DEF Includes
  <2>. QED BY <2>1
<1>2. PICK R : (\A r \in R : Readable(r)) /\ Records(n, v, t) \in Seq(R)
  BY <1>1, ReadableRecords
<1>3. PICK y \in Seq(R) : y = Records(n, v, t)
  BY <1>2
<1>4. HeadwordTrimmed(t)
  BY <1>1, HeadwordIs
<1>5. PICK x \in Seq(Letters) : x = Headword(t)
  BY <1>4, Zenon DEF HeadwordTrimmed
<1>6. Trim(x) = x
  BY <1>4, <1>5, Zenon DEF HeadwordTrimmed
<1>7. PICK m : m = [records |-> y, entries |-> 1, headwords |-> <<x>>]
  OBVIOUS
<1>8. Turns(St(<<>>, <<>>, <<>>, NoSummary), RenderEntry(m), St(<<>>, <<>>, <<>>, m))
  BY <1>2, <1>6, <1>7, EntryTurns
<1>9. Summary(n, v, t) = m
  BY <1>3, <1>5, <1>7, Zenon DEF Summary
<1>. QED BY <1>8, <1>9, Zenon DEF WrittenRead

(***************************************************************************)
(* The reading of a page, one event further.                               *)
(***************************************************************************)

\* The rest of a page, with its first event apart.
RestIs(p, n) ==
  /\ IsSeq(SubSeq(p, n + 1, Len(p)))
  /\ SubSeq(p, n, Len(p)) = <<p[n]>> \o SubSeq(p, n + 1, Len(p))

LEMMA Rest ==
  ASSUME NEW p, IsSeq(p), NEW n \in 1..Len(p) PROVE RestIs(p, n)
<1>1. PICK A : p \in Seq(A)
  BY Zenon DEF IsSeq
<1>2. PICK m \in Nat : m = Len(p)
  BY <1>1, LenProperties
<1>3. n \in 1..m /\ \A i \in 1..m : p[i] \in A
  BY <1>1, <1>2, ElementOfSeq
<1>4. PICK s : s = SubSeq(p, n, m)
  OBVIOUS
<1>5. PICK t : t = SubSeq(p, n + 1, m)
  OBVIOUS
<1>6. s \in Seq(A) /\ Len(s) = (m - n) + 1 /\ \A i \in 1..((m - n) + 1) : s[i] = p[(n + i) - 1]
  <2>1. n \in Int /\ m \in Int /\ \A i \in n..m : p[i] \in A
    BY <1>3
  <2>2. s \in Seq(A) /\ Len(s) = (IF n <= m THEN (m - n) + 1 ELSE 0)
        /\ \A i \in 1..((m - n) + 1) : s[i] = p[(n + i) - 1]
    BY <1>4, <2>1, SubSeqProperties
  <2>. QED BY <1>3, <2>2
<1>7. t \in Seq(A) /\ Len(t) = m - n /\ \A i \in 1..(m - n) : t[i] = p[n + i]
  <2>1. n + 1 \in Int /\ m \in Int /\ \A i \in (n + 1)..m : p[i] \in A
    BY <1>3
  <2>2. t \in Seq(A) /\ Len(t) = (IF n + 1 <= m THEN (m - (n + 1)) + 1 ELSE 0)
        /\ \A i \in 1..((m - (n + 1)) + 1) : t[i] = p[((n + 1) + i) - 1]
    BY <1>5, <2>1, SubSeqProperties
  <2>3. (m - (n + 1)) + 1 = m - n /\ \A i \in 1..(m - n) : ((n + 1) + i) - 1 = n + i
    BY <1>3
  <2>4. \A i \in 1..(m - n) : t[i] = p[n + i]
    BY <2>2, <2>3
  <2>5. Len(t) = m - n
    BY <1>3, <2>2
  <2>. QED BY <2>2, <2>4, <2>5
<1>8. PICK h : h = <<p[n]>>
  OBVIOUS
<1>9. h \in Seq(A) /\ Len(h) = 1 /\ h[1] = p[n]
  BY <1>3, <1>8
<1>10. PICK u : u = h \o t
  OBVIOUS
<1>11. u \in Seq(A) /\ Joins(h, t, u)
  BY <1>7, <1>9, <1>10, ConcatIndex
<1>12. Len(u) = Len(s) /\ \A i \in 1..Len(s) : u[i] = s[i]
  <2>1. Len(u) = 1 + (m - n)
    BY <1>7, <1>9, <1>11 DEF Joins
  <2>2. \A i \in 1..1 : u[i] = h[i]
    BY <1>9, <1>11 DEF Joins
  <2>3. \A i \in (1 + 1)..Len(u) : u[i] = t[i - 1]
    BY <1>9, <1>11 DEF Joins
  <2>4. Len(u) = Len(s)
    BY <1>3, <1>6, <2>1
  <2>5. ASSUME NEW i \in 1..Len(s) PROVE u[i] = s[i]
    <3>1. CASE i = 1
      BY <1>3, <1>6, <1>9, <2>2, <3>1
    <3>2. CASE i # 1
      <4>1. i \in 2..Len(u) /\ i - 1 \in 1..(m - n) /\ i \in 1..((m - n) + 1) /\ n + (i - 1) = (n + i) - 1
        BY <1>3, <1>6, <2>1, <2>5, <3>2
      <4>2. u[i] = t[i - 1] /\ t[i - 1] = p[n + (i - 1)] /\ s[i] = p[(n + i) - 1]
        BY <1>6, <1>7, <2>3, <4>1
      <4>. QED BY <4>1, <4>2
    <3>. QED BY <3>1, <3>2
  <2>. QED BY <2>4, <2>5
<1>13. u = s
  BY <1>6, <1>11, <1>12, SeqEqual
<1>. QED BY <1>2, <1>4, <1>5, <1>7, <1>8, <1>10, <1>13, Zenon DEF RestIs, IsSeq

\* What is left to read leads where all of it led, and not to a failure.
LEMMA RestTurns ==
  ASSUME NEW p, IsSeq(p), NEW n \in 1..Len(p), NEW a, NEW b, Turns(a, SubSeq(p, n, Len(p)), b)
  PROVE  Turns(Step(a, p[n]), SubSeq(p, n + 1, Len(p)), b)
<1>1. PICK t : t = SubSeq(p, n + 1, Len(p))
  OBVIOUS
<1>2. PICK h : h = <<p[n]>>
  OBVIOUS
<1>3. IsSeq(t) /\ SubSeq(p, n, Len(p)) = h \o t
  <2>1. RestIs(p, n)
    BY Rest
  <2>. QED BY <1>1, <1>2, <2>1, Zenon DEF RestIs
<1>4. IsSeq(h)
  <2>1. h \in Seq({p[n]})
    BY <1>2
  <2>. QED BY <2>1, Zenon DEF IsSeq
<1>5. RunsOn(a, h, t)
  <2>1. PICK A : h \in Seq(A) /\ t \in Seq(A)
    BY <1>3, <1>4, OneSet
  <2>. QED BY <2>1, RunOn
<1>6. Run(a, h) = Step(a, p[n])
  BY <1>2, RunOne, Zenon
<1>7. Run(a, h \o t) = b
  BY <1>3, Zenon DEF Turns
<1>. QED BY <1>1, <1>3, <1>5, <1>6, <1>7, Zenon DEF Turns, RunsOn

\* What leads to a state has not failed.
LEMMA NeverFailed ==
  ASSUME NEW s, NEW r, NEW h, NEW f, NEW t, NEW a, Turns(a, t, St(s, r, h, f))
  PROVE  a # Failed
<1> SUFFICES ASSUME a = Failed PROVE FALSE
  OBVIOUS
<1>1. PICK A : t \in Seq(A)
  BY Zenon DEF Turns, IsSeq
<1>2. Run(Failed, t) = Failed
  BY <1>1, FailedStays
<1>3. Failed = St(s, r, h, f)
  BY <1>2, Zenon DEF Turns
<1>4. PICK x : x = Failed
  OBVIOUS
<1>5. x.ok = FALSE
  BY <1>4 DEF Failed
<1>6. x.ok = TRUE
  <2>1. x = St(s, r, h, f)
    BY <1>3, <1>4, Zenon
  <2>. QED BY <2>1 DEF St
<1>. QED BY <1>5, <1>6

\* A state is its parts.
LEMMA SameState ==
  ASSUME NEW s, NEW r, NEW h, NEW f, NEW s1, NEW r1, NEW h1, NEW f1,
         St(s, r, h, f) = St(s1, r1, h1, f1)
  PROVE  s = s1 /\ r = r1 /\ h = h1 /\ f = f1
<1>1. PICK x : x = St(s, r, h, f)
  OBVIOUS
<1>2. x.stack = s /\ x.record = r /\ x.heading = h /\ x.found = f
  BY <1>1 DEF St
<1>3. x.stack = s1 /\ x.record = r1 /\ x.heading = h1 /\ x.found = f1
  <2>1. x = St(s1, r1, h1, f1)
    BY <1>1, Zenon
  <2>. QED BY <2>1 DEF St
<1>. QED BY <1>2, <1>3

\* The state of audit_xhtml.
Current == St(stack, record, heading, found)

\* The events of the page are those of the fold.
Advances ==
  \/ Step(Current, Event) = Failed
  \/ Step(Current, Event) = Current' /\ phase' = phase /\ outcome' = outcome

LEMMA StartAdvances == ASSUME AuditStart PROVE Advances
<1>1. PICK e : e = Event
  OBVIOUS
<1>2. e.type = "start"
  BY <1>1, Zenon DEF AuditStart, ReadingPage
<1>3. Step(Current, e) = StartStep(stack, record, heading, found, e)
  BY <1>2, StepIs, Zenon DEF Current
<1>4. Captured(e) = CapturedBy(record, e)
  BY Zenon DEF Captured, CapturedBy
<1>5. Context(e) = ContextOf(record, heading, e)
  BY Zenon DEF Context, ContextOf
<1>6. CASE StartFails(stack, record, heading, e)
  BY <1>1, <1>3, <1>6, Zenon DEF StartStep, Advances
<1>7. CASE ~StartFails(stack, record, heading, e)
  <2>1. BeginsElement(e, Append(stack, ContextOf(record, heading, e)))
    BY <1>1, <1>4, <1>5, <1>7, Zenon DEF AuditStart, StartFails
  <2>2. PICK c : c = Append(stack, ContextOf(record, heading, e))
    OBVIOUS
  <2>3. /\ record' = IF e.class = "xml-control"
                       THEN Appended(CapturedBy(record, e), TargetOf(c), e.char)
                       ELSE CapturedBy(record, e)
        /\ heading' = IF ContextOf(record, heading, e).headingRoot THEN <<<<>>>>
                      ELSE IF e.class = "xml-control" /\ heading # <<>>
                        THEN <<Append(heading[1], e.char)>>
                      ELSE heading
        /\ found' = [found EXCEPT !.entries = IF e.class = "entry" THEN @ + 1 ELSE @]
        /\ stack' = c /\ phase' = phase /\ outcome' = outcome
    BY <1>4, <1>5, <2>1, <2>2, Zenon DEF BeginsElement
  <2>4. Step(Current, e) = St(stack', record', heading', found')
    BY <1>3, <1>7, <2>2, <2>3, Zenon DEF StartStep
  <2>. QED BY <1>1, <2>3, <2>4, Zenon DEF Advances, Current
<1>. QED BY <1>6, <1>7

\* The same of text,
LEMMA TextAdvances == ASSUME AuditText PROVE Advances
<1>1. PICK e : e = Event
  OBVIOUS
<1>2. e.type = "text"
  BY <1>1, Zenon DEF AuditText, ReadingPage
<1>3. Step(Current, e) = TextStep(stack, record, heading, found, e)
  <2>1. "text" # "start"
    OBVIOUS
  <2>. QED BY <1>2, <2>1, StepIs, Zenon DEF Current
<1>4. PICK g : g = TextTarget(stack, record)
  OBVIOUS
<1>5. PICK ch : ch = Normalized(e.char)
  OBVIOUS
<1>6. AppendsText(ch, g)
  BY <1>1, <1>4, <1>5, Zenon DEF AuditText, TextTarget, Controlled
<1>7. CASE Misplaced(record, g)
  BY <1>1, <1>3, <1>4, <1>7, Zenon DEF TextStep, Advances
<1>8. CASE ~Misplaced(record, g)
  <2>1. /\ record' = Appended(record, g, ch)
        /\ heading' = IF heading # <<>> /\ ~Controlled(stack)
                        THEN <<Append(heading[1], ch)>> ELSE heading
        /\ phase' = phase /\ stack' = stack /\ found' = found /\ outcome' = outcome
    BY <1>6, <1>8, Zenon DEF AppendsText, Controlled
  <2>2. Step(Current, e) = St(stack', record', heading', found')
    BY <1>3, <1>4, <1>5, <1>8, <2>1, Zenon DEF TextStep
  <2>. QED BY <1>1, <2>1, <2>2, Zenon DEF Advances, Current
<1>. QED BY <1>7, <1>8

\* and of the end of an element.
LEMMA EndAdvances == ASSUME AuditEnd PROVE Advances
<1>1. PICK e : e = Event
  OBVIOUS
<1>2. e.type = "end"
  BY <1>1, Zenon DEF AuditEnd, ReadingPage
<1>3. PICK c : c = stack[Len(stack)]
  OBVIOUS
<1>4. Step(Current, e) = EndStep(stack, record, heading, found, c)
  BY <1>2, <1>3, StepIs, Zenon DEF Current
<1>5. stack' = SubSeq(stack, 1, Len(stack) - 1) /\ FinishesElement(c)
  BY <1>3, Zenon DEF AuditEnd
<1>6. CASE EndFails(record, c)
  BY <1>1, <1>4, <1>6, Zenon DEF EndStep, Advances
<1>7. CASE ~EndFails(record, c)
  <2>1. /\ record' = CASE c.attributeRoot -> [record EXCEPT ![1].attributes = @ \o record[1].current,
                                                         ![1].current = <<>>]
                        [] c.recordRoot -> <<>>
                        [] OTHER -> record
        /\ heading' = IF c.headingRoot THEN <<>> ELSE heading
        /\ found' = [found EXCEPT
              !.records = IF c.recordRoot THEN Append(@, Finished(record[1])) ELSE @,
              !.headwords = IF c.headingRoot THEN Append(@, Trim(heading[1])) ELSE @]
        /\ phase' = phase /\ outcome' = outcome
    BY <1>5, <1>7, Zenon DEF FinishesElement, EndFails
  <2>2. Step(Current, e) = St(stack', record', heading', found')
    BY <1>4, <1>5, <1>7, <2>1, Zenon DEF EndStep
  <2>. QED BY <1>1, <2>1, <2>2, Zenon DEF Advances, Current
<1>. QED BY <1>6, <1>7

(***************************************************************************)
(* The invariant.                                                          *)
(***************************************************************************)

\* Nobody has changed the book, and nothing of the source asks for more than
\* the filters promise.
Quiet == ~tampered /\ OrdinarySource(source)

Phases == {"convert", "built", "audit", "page", "ended"}

FiltersInv ==
  /\ phase = "convert" => ReadInv(ConversionEscape)
  /\ phase = "audit" => ReadInv(AuditEscape)

\* Nothing of the page has been read.
Untouched == position = 1 /\ stack = <<>> /\ record = <<>> /\ heading = <<>> /\ found = NoSummary

Shows == page = RenderEntry(Meaning)

\* What is left of the page leads to what the source says.
Matches ==
  /\ expected = Meaning
  /\ IsSeq(page) /\ position \in 1..(Len(page) + 1)
  /\ Turns(Current, SubSeq(page, position, Len(page)), St(<<>>, <<>>, <<>>, Meaning))

SourceInv ==
  /\ source \in Sources
  /\ phase \in Phases
  /\ outcome # "none" => phase = "ended"
  /\ phase \in {"convert", "built", "audit"} => Untouched

BookInv ==
  Quiet =>
    /\ phase \in {"built", "audit", "page"} => Shows
    /\ phase = "page" => Matches
    /\ outcome \in {"none", "passed"}
    /\ outcome = "passed" => Shows /\ found = Meaning

Inv == SourceInv /\ FiltersInv /\ BookInv

\* A source is a sequence of bytes.
LEMMA SourceBytes ==
  ASSUME source \in Sources PROVE Bytes(source) \in Seq(Byte)
<1>1. PICK s : s = source
  OBVIOUS
<1> DEFINE Piece == Seq(STRING \ {"<", "0D"})
<1>2. s \in [name : Piece \ {<<>>}, value : Piece, text : Piece]
  BY <1>1, SourcesAssumption
<1>3. s.name \in Piece /\ s.value \in Piece /\ s.text \in Piece
  BY <1>2
<1>4. Piece \subseteq Seq(Byte)
  <2>1. STRING \ {"<", "0D"} \subseteq Byte
    BY DEF Byte
  <2>2. PICK B : B = STRING \ {"<", "0D"}
    OBVIOUS
  <2>3. Seq(B) \subseteq Seq(Byte)
    <3>1. B \subseteq Byte
      BY <2>1, <2>2, Zenon
    <3>2. Includes(Byte, B)
      BY <3>1, SeqIncludes
    <3>. QED BY <3>2, Zenon DEF Includes
  <2>. QED BY <2>2, <2>3, Zenon
<1>5. <<"<">> \in Seq(Byte)
  <2>1. "<" \in Byte
    BY DEF Byte
  <2>. QED BY <2>1
<1> HIDE DEF Piece
<1>6. s.name \in Seq(Byte) /\ s.value \in Seq(Byte) /\ s.text \in Seq(Byte)
  BY <1>3, <1>4, Zenon
<1>7. s.name \o <<"<">> \o s.value \o <<"<">> \o s.text \in Seq(Byte)
  BY <1>5, <1>6
<1>. QED BY <1>1, <1>7, Zenon DEF Bytes

\* A filter before its first step.
LEMMA ReadsSource ==
  ASSUME source \in Sources, NEW e \in Escapes, input = Bytes(source), match = <<>>,
         output = <<>>, taken = <<>>, eof = FALSE
  PROVE  ReadInv(e)
BY SourceBytes, BeginsReading

\* The two filters.
LEMMA BothEscapes == ConversionEscape \in Escapes /\ AuditEscape \in Escapes
BY DEF Escapes

\* The filter of the audit before its first step.
LEMMA AuditReadsSource ==
  ASSUME source \in Sources, input = Bytes(source), match = <<>>, output = <<>>, taken = <<>>,
         eof = FALSE
  PROVE  ReadInv(AuditEscape)
BY ReadsSource, BothEscapes

\* The invariant holds at first.
LEMMA InvInit == ASSUME Init PROVE Inv
<1>1. SourceInv
  <2>1. source \in Sources /\ phase = "convert" /\ outcome = "none"
    BY Zenon DEF Init
  <2>2. Untouched
    BY Zenon DEF Init, Untouched
  <2>. QED BY <2>1, <2>2, Zenon DEF SourceInv, Phases
<1>2. FiltersInv
  <2>1. ReadInv(ConversionEscape)
    <3>1. /\ source \in Sources /\ input = Bytes(source) /\ match = <<>> /\ output = <<>>
          /\ taken = <<>> /\ eof = FALSE
      BY Zenon DEF Init
    <3>. QED BY <3>1, BothEscapes, ReadsSource
  <2>2. phase # "audit"
    <3>1. phase = "convert"
      BY Zenon DEF Init
    <3>. QED BY <3>1
  <2>. QED BY <2>1, <2>2, Zenon DEF FiltersInv
<1>3. BookInv
  <2>1. phase = "convert" /\ outcome = "none"
    BY Zenon DEF Init
  <2>2. phase \notin {"built", "audit", "page"} /\ phase # "page" /\ outcome # "passed"
    BY <2>1
  <2>. QED BY <2>1, <2>2, Zenon DEF BookInv
<1>. QED BY <1>1, <1>2, <1>3, Zenon DEF Inv

\* What an action does not touch.
LEMMA QuietStays ==
  ASSUME source' = source, tampered' = tampered
  PROVE  (Quiet' <=> Quiet) /\ Meaning' = Meaning
<1>1. Meaning' = Meaning
  BY DEF Meaning
<1>2. Quiet' <=> Quiet
  BY DEF Quiet
<1>. QED BY <1>1, <1>2

\* A page that is not changed shows what it showed.
LEMMA ShowsStays ==
  ASSUME source' = source, page' = page PROVE Shows' <=> Shows
BY DEF Shows, Meaning

\* The filter of the conversion keeps the invariant.
LEMMA InvConversionReads == ASSUME Inv, ConversionReads PROVE Inv'
<1>1. /\ phase = "convert" /\ phase' = phase /\ source' = source /\ tampered' = tampered
      /\ outcome' = outcome /\ page' = page /\ position' = position /\ stack' = stack
      /\ record' = record /\ heading' = heading /\ found' = found
  BY Zenon DEF ConversionReads, reading
<1>2. SourceInv'
  BY <1>1 DEF Inv, SourceInv, Untouched, NoSummary
<1>3. FiltersInv'
  <2>1. Filters(ConversionEscape)
    BY FiltersIs, Zenon DEF ConversionReads
  <2>2. ReadInv(ConversionEscape)
    BY <1>1, Zenon DEF Inv, FiltersInv
  <2>3. ReadInv(ConversionEscape)'
    BY <1>1, <2>1, <2>2, BothEscapes, FiltersKeep
  <2>4. phase' # "audit"
    BY <1>1
  <2>. QED BY <2>3, <2>4, Zenon DEF FiltersInv
<1>4. BookInv'
  <2>1. (Quiet' <=> Quiet) /\ Meaning' = Meaning
    BY <1>1, QuietStays
  <2>2. phase' \notin {"built", "audit", "page"} /\ phase' # "page"
    BY <1>1
  <2>3. outcome = "none"
    BY <1>1 DEF Inv, SourceInv
  <2>4. outcome' = "none" /\ outcome' # "passed"
    BY <1>1, <2>3
  <2>. QED BY <2>2, <2>4, Zenon DEF BookInv
<1>. QED BY <1>2, <1>3, <1>4, Zenon DEF Inv

\* The filter of the audit keeps the invariant.
LEMMA InvAuditReads == ASSUME Inv, AuditReads PROVE Inv'
<1>1. /\ phase = "audit" /\ phase' = phase /\ source' = source /\ tampered' = tampered
      /\ outcome' = outcome /\ page' = page /\ position' = position /\ stack' = stack
      /\ record' = record /\ heading' = heading /\ found' = found
  BY Zenon DEF AuditReads, reading
<1>2. SourceInv'
  BY <1>1 DEF Inv, SourceInv, Untouched, NoSummary
<1>3. FiltersInv'
  <2>1. Filters(AuditEscape)
    BY FiltersIs, Zenon DEF AuditReads
  <2>2. ReadInv(AuditEscape)
    BY <1>1, Zenon DEF Inv, FiltersInv
  <2>3. ReadInv(AuditEscape)'
    BY <1>1, <2>1, <2>2, BothEscapes, FiltersKeep
  <2>4. phase' # "convert"
    BY <1>1
  <2>. QED BY <2>3, <2>4, Zenon DEF FiltersInv
<1>4. BookInv'
  <2>1. Quiet' <=> Quiet
    BY <1>1, QuietStays
  <2>2. Shows' <=> Shows
    BY <1>1, ShowsStays
  <2>3. phase' # "page"
    BY <1>1
  <2>4. outcome = "none"
    BY <1>1 DEF Inv, SourceInv
  <2>5. outcome' = "none" /\ outcome' # "passed"
    BY <1>1, <2>4
  <2>6. Quiet => Shows
    BY <1>1 DEF Inv, BookInv
  <2>. QED BY <2>1, <2>2, <2>3, <2>5, <2>6, Zenon DEF BookInv
<1>. QED BY <1>2, <1>3, <1>4, Zenon DEF Inv

\* What is read of an ordinary source is what it says.
LEMMA OrdinaryAccepted ==
  ASSUME NEW e \in Escapes, source \in Sources, OrdinarySource(source), ReadInv(e), eof,
         output = <<>>, NEW p, p = Parsed(e, taken)
  PROVE  /\ Accepted(p)
         /\ Summary(p.name.chars, p.value.chars, p.text.chars) = Meaning
         /\ WrittenRead(Meaning)
<1>1. taken = Whole(e, Bytes(source))
  BY AllTaken
<1>2. ParsedMeans(e, source)
  BY OrdinaryParsed
<1>3. PICK n : n = Meant(source.name)
  OBVIOUS
<1>4. PICK v : v = Meant(source.value)
  OBVIOUS
<1>5. PICK t : t = Meant(source.text)
  OBVIOUS
<1>6. p = [name |-> Reader(n, FALSE), value |-> Reader(v, FALSE), text |-> Reader(t, FALSE)]
  BY <1>1, <1>2, <1>3, <1>4, <1>5, Zenon DEF ParsedMeans
<1>7. n \in Seq(Letter) /\ v \in Seq(Letter) /\ t \in Seq(Letter) /\ n # <<>>
  BY <1>2, <1>3, <1>4, <1>5, Zenon DEF ParsedMeans
<1>8. p.name = Reader(n, FALSE) /\ p.value = Reader(v, FALSE) /\ p.text = Reader(t, FALSE)
  BY <1>6
<1>9. ASSUME NEW c
      PROVE  Reader(c, FALSE).chars = c /\ Reader(c, FALSE).valid = TRUE /\ Reader(c, FALSE).escaped = FALSE
  BY DEF Reader
<1>10. Accepted(p)
  <2>1. /\ p.name.valid = TRUE /\ p.name.escaped = FALSE
        /\ p.value.valid = TRUE /\ p.value.escaped = FALSE
        /\ p.text.valid = TRUE /\ p.text.escaped = FALSE
    BY <1>8, <1>9, Zenon
  <2>. QED BY <2>1 DEF Accepted
<1>11. Summary(n, v, t) = Meaning
  BY <1>3, <1>4, <1>5, Zenon DEF Meaning
<1>12. p.name.chars = n /\ p.value.chars = v /\ p.text.chars = t
  BY <1>8, <1>9, Zenon
<1>13. WrittenRead(Summary(n, v, t))
  BY <1>7, SummaryTurns
<1>. QED BY <1>10, <1>11, <1>12, <1>13, Zenon

\* So does the conversion, which writes what an ordinary source means,
LEMMA InvConvert == ASSUME Inv, Convert PROVE Inv'
<1>1. PICK p : p = Parsed(ConversionEscape, taken)
  OBVIOUS
<1>2. phase = "convert" /\ eof /\ output = <<>> /\ Converts(p)
  BY <1>1, Zenon DEF Convert, Conversion!Exhausted
<1>3. /\ source' = source /\ tampered' = tampered /\ position' = position /\ stack' = stack
      /\ record' = record /\ heading' = heading /\ found' = found
  BY <1>2, Zenon DEF Converts, reading
<1>4. /\ Accepted(p) => /\ page' = RenderEntry(Summary(p.name.chars, p.value.chars, p.text.chars))
                        /\ phase' = "built" /\ outcome' = outcome
      /\ ~Accepted(p) => phase' = "ended" /\ outcome' = "build_failed"
  BY <1>2, Zenon DEF Converts, Ends
<1>5. phase' \in {"built", "ended"} /\ phase' \notin {"convert", "audit", "page"}
  BY <1>4
<1>6. source \in Sources /\ outcome = "none" /\ Untouched
  BY <1>2 DEF Inv, SourceInv
<1>7. SourceInv'
  <2>1. Untouched'
    BY <1>3, <1>6 DEF Untouched, NoSummary
  <2>2. outcome' # "none" => phase' = "ended"
    BY <1>4, <1>6
  <2>3. phase' \in Phases
    BY <1>5 DEF Phases
  <2>. QED BY <1>3, <1>6, <2>1, <2>2, <2>3, Zenon DEF SourceInv
<1>8. FiltersInv'
  <2>1. phase' # "convert" /\ phase' # "audit"
    BY <1>5
  <2>. QED BY <2>1, Zenon DEF FiltersInv
<1>9. BookInv'
  <2>1. (Quiet' <=> Quiet) /\ Meaning' = Meaning
    BY <1>3, QuietStays
  <2>2. ASSUME Quiet PROVE Shows' /\ outcome' = "none"
    <3>1. OrdinarySource(source)
      BY <2>2, Zenon DEF Quiet
    <3>2. ReadInv(ConversionEscape)
      BY <1>2, Zenon DEF Inv, FiltersInv
    <3>3. /\ Accepted(p)
          /\ Summary(p.name.chars, p.value.chars, p.text.chars) = Meaning
      BY <1>1, <1>2, <1>6, <3>1, <3>2, BothEscapes, OrdinaryAccepted
    <3>4. page' = RenderEntry(Meaning) /\ outcome' = "none"
      BY <1>4, <1>6, <3>3, Zenon
    <3>. QED BY <2>1, <3>4, Zenon DEF Shows
  <2>3. phase' # "page"
    BY <1>5
  <2>4. outcome' = "none" => outcome' # "passed"
    OBVIOUS
  <2>. QED BY <2>1, <2>2, <2>3, <2>4, Zenon DEF BookInv
<1>. QED BY <1>7, <1>8, <1>9, Zenon DEF Inv

\* the beginning of the audit,
LEMMA InvBeginAudit == ASSUME Inv, BeginAudit PROVE Inv'
<1>1. /\ phase = "built" /\ phase' = "audit" /\ source' = source /\ tampered' = tampered
      /\ outcome' = outcome /\ page' = page /\ position' = position /\ stack' = stack
      /\ record' = record /\ heading' = heading /\ found' = found
  BY Zenon DEF BeginAudit, reading
<1>2. source \in Sources /\ outcome = "none" /\ Untouched
  BY <1>1 DEF Inv, SourceInv
<1>3. SourceInv'
  <2>1. Untouched'
    BY <1>1, <1>2 DEF Untouched, NoSummary
  <2>2. phase' \in Phases /\ outcome' = "none"
    BY <1>1, <1>2 DEF Phases
  <2>. QED BY <1>1, <1>2, <2>1, <2>2, Zenon DEF SourceInv
<1>4. FiltersInv'
  <2>1. /\ input' = Bytes(source)' /\ match' = <<>> /\ output' = <<>> /\ taken' = <<>> /\ eof' = FALSE
        /\ (source \in Sources)'
    <3>1. Bytes(source)' = Bytes(source)
      BY <1>1 DEF Bytes
    <3>. QED BY <1>1, <1>2, <3>1 DEF BeginAudit
  <2>2. ReadInv(AuditEscape)'
    <3>1. (source \in Sources /\ input = Bytes(source) /\ match = <<>> /\ output = <<>> /\ taken = <<>>
           /\ eof = FALSE => ReadInv(AuditEscape))'
      BY AuditReadsSource, PTL
    <3>. QED BY <2>1, <3>1
  <2>3. phase' # "convert"
    BY <1>1
  <2>. QED BY <2>2, <2>3, Zenon DEF FiltersInv
<1>5. BookInv'
  <2>1. Quiet' <=> Quiet
    BY <1>1, QuietStays
  <2>2. Shows' <=> Shows
    BY <1>1, ShowsStays
  <2>3. Quiet => Shows
    BY <1>1 DEF Inv, BookInv
  <2>4. phase' # "page" /\ outcome' = "none" /\ outcome' # "passed"
    BY <1>1, <1>2
  <2>. QED BY <2>1, <2>2, <2>3, <2>4, Zenon DEF BookInv
<1>. QED BY <1>3, <1>4, <1>5, Zenon DEF Inv

\* Before its first event all of the page is left.
LEMMA MatchesAtFirst ==
  ASSUME WrittenRead(Meaning), Shows, Untouched, expected = Meaning PROVE Matches
<1>1. Turns(St(<<>>, <<>>, <<>>, NoSummary), page, St(<<>>, <<>>, <<>>, Meaning))
  BY Zenon DEF WrittenRead, Shows
<1>2. IsSeq(page)
  BY <1>1, Zenon DEF Turns
<1>3. PICK A : page \in Seq(A)
  BY <1>2, Zenon DEF IsSeq
<1>4. position = 1
  BY Zenon DEF Untouched
<1>5. SubSeq(page, position, Len(page)) = page
  BY <1>3, <1>4, SubSeqFull
<1>6. position \in 1..(Len(page) + 1)
  BY <1>3, <1>4, LenProperties
<1>7. Current = St(<<>>, <<>>, <<>>, NoSummary)
  BY Zenon DEF Current, Untouched
<1>. QED BY <1>1, <1>2, <1>5, <1>6, <1>7, Zenon DEF Matches

\* its reading of the source, which finds the same,
LEMMA InvAuditSource == ASSUME Inv, AuditSource PROVE Inv'
<1>1. PICK p : p = Parsed(AuditEscape, taken)
  OBVIOUS
<1>2. phase = "audit" /\ eof /\ output = <<>> /\ AuditsSource(p)
  BY <1>1, Zenon DEF AuditSource, Audit!Exhausted
<1>3. /\ source' = source /\ tampered' = tampered /\ position' = position /\ stack' = stack
      /\ record' = record /\ heading' = heading /\ found' = found /\ page' = page
  BY <1>2, Zenon DEF AuditsSource, reading
<1>4. /\ Accepted(p) => /\ expected' = Summary(p.name.chars, p.value.chars, p.text.chars)
                        /\ phase' = "page" /\ outcome' = outcome
      /\ ~Accepted(p) => phase' = "ended" /\ outcome' = "audit_failed"
  BY <1>2, Zenon DEF AuditsSource, Ends
<1>5. phase' \in {"page", "ended"} /\ phase' \notin {"convert", "audit", "built"}
  BY <1>4
<1>6. source \in Sources /\ outcome = "none" /\ Untouched
  BY <1>2 DEF Inv, SourceInv
<1>7. SourceInv'
  <2>1. outcome' # "none" => phase' = "ended"
    BY <1>4, <1>6
  <2>2. phase' \in Phases
    BY <1>5 DEF Phases
  <2>. QED BY <1>3, <1>5, <1>6, <2>1, <2>2, Zenon DEF SourceInv
<1>8. FiltersInv'
  <2>1. phase' # "convert" /\ phase' # "audit"
    BY <1>5
  <2>. QED BY <2>1, Zenon DEF FiltersInv
<1>9. BookInv'
  <2>1. (Quiet' <=> Quiet) /\ Meaning' = Meaning
    BY <1>3, QuietStays
  <2>2. Shows' <=> Shows
    BY <1>3, ShowsStays
  <2>3. ASSUME Quiet PROVE Shows' /\ Matches' /\ outcome' = "none"
    <3>1. OrdinarySource(source)
      BY <2>3, Zenon DEF Quiet
    <3>2. ReadInv(AuditEscape)
      BY <1>2, Zenon DEF Inv, FiltersInv
    <3>3. /\ Accepted(p)
          /\ Summary(p.name.chars, p.value.chars, p.text.chars) = Meaning
          /\ WrittenRead(Meaning)
      BY <1>1, <1>2, <1>6, <3>1, <3>2, BothEscapes, OrdinaryAccepted
    <3>4. expected' = Meaning /\ outcome' = "none"
      BY <1>4, <1>6, <3>3, Zenon
    <3>5. Shows
      BY <1>2, <2>3 DEF Inv, BookInv
    <3>6. PICK m : m = Meaning
      OBVIOUS
    <3>7. Turns(St(<<>>, <<>>, <<>>, NoSummary), page, St(<<>>, <<>>, <<>>, m))
      BY <3>3, <3>5, <3>6, Zenon DEF WrittenRead, Shows
    <3>8. (WrittenRead(Meaning) /\ Shows /\ Untouched /\ expected = Meaning => Matches)'
      BY MatchesAtFirst, PTL
    <3>9. WrittenRead(Meaning)'
      <4>1. WrittenRead(Meaning)' <=> WrittenRead(Meaning')
        BY Zenon DEF WrittenRead
      <4>. QED BY <2>1, <3>3, <4>1, Zenon
    <3>10. Untouched'
      BY <1>3, <1>6 DEF Untouched, NoSummary
    <3>. QED BY <2>1, <2>2, <3>4, <3>5, <3>8, <3>9, <3>10, Zenon
  <2>4. outcome' = "none" => outcome' # "passed"
    OBVIOUS
  <2>. QED BY <2>1, <2>3, <2>4, Zenon DEF BookInv
<1>. QED BY <1>7, <1>8, <1>9, Zenon DEF Inv

\* a change of the book, after which nothing is claimed,
LEMMA InvChangeBook == ASSUME Inv, ChangeBook PROVE Inv'
<1>1. phase = "page" /\ phase' = phase /\ source' = source /\ outcome' = outcome /\ tampered' = TRUE
  BY Zenon DEF ChangeBook
<1>2. SourceInv'
  <2>1. source \in Sources /\ outcome = "none"
    BY <1>1 DEF Inv, SourceInv
  <2>2. phase' \notin {"convert", "built", "audit"} /\ phase' \in Phases /\ outcome' = "none"
    BY <1>1, <2>1 DEF Phases
  <2>. QED BY <1>1, <2>1, <2>2, Zenon DEF SourceInv
<1>3. FiltersInv'
  <2>1. phase' # "convert" /\ phase' # "audit"
    BY <1>1
  <2>. QED BY <2>1, Zenon DEF FiltersInv
<1>4. BookInv'
  <2>1. ~Quiet'
    BY <1>1, Zenon DEF Quiet
  <2>. QED BY <2>1, Zenon DEF BookInv
<1>. QED BY <1>2, <1>3, <1>4, Zenon DEF Inv

\* An event of the page, whatever it is.
LEMMA InvReadingPage ==
  ASSUME Inv, NEW type, ReadingPage(type), Advances,
         (phase' = phase /\ outcome' = outcome) \/ (phase' = "ended" /\ outcome' = "audit_failed")
  PROVE  Inv'
<1>1. /\ phase = "page" /\ position <= Len(page) /\ position' = position + 1
      /\ source' = source /\ tampered' = tampered /\ page' = page /\ expected' = expected
  BY Zenon DEF ReadingPage
<1>2. source \in Sources /\ outcome = "none"
  BY <1>1 DEF Inv, SourceInv
<1>3. phase' \in {"page", "ended"} /\ phase' \notin {"convert", "built", "audit"}
      /\ phase' # "convert" /\ phase' # "audit"
  BY <1>1
<1>4. SourceInv'
  <2>1. outcome' # "none" => phase' = "ended"
    BY <1>2
  <2>2. phase' \in Phases
    BY <1>3 DEF Phases
  <2>. QED BY <1>1, <1>2, <1>3, <2>1, <2>2, Zenon DEF SourceInv
<1>5. FiltersInv'
  BY <1>3, Zenon DEF FiltersInv
<1>6. BookInv'
  <2>1. (Quiet' <=> Quiet) /\ Meaning' = Meaning
    BY <1>1, QuietStays
  <2>2. Shows' <=> Shows
    BY <1>1, ShowsStays
  <2>3. ASSUME Quiet PROVE Shows' /\ Matches' /\ outcome' = "none"
    <3>1. Shows /\ Matches
      BY <1>1, <2>3 DEF Inv, BookInv
    <3>2. IsSeq(page) /\ position \in 1..Len(page)
      <4>1. IsSeq(page) /\ position \in 1..(Len(page) + 1)
        BY <3>1, Zenon DEF Matches
      <4>2. PICK A : page \in Seq(A)
        BY <4>1, Zenon DEF IsSeq
      <4>3. Len(page) \in Nat
        BY <4>2, LenProperties
      <4>. QED BY <1>1, <4>1, <4>3
    <3>3. PICK b : b = St(<<>>, <<>>, <<>>, Meaning)
      OBVIOUS
    <3>4. PICK a : a = Current
      OBVIOUS
    <3>5. Turns(a, SubSeq(page, position, Len(page)), b)
      BY <3>1, <3>3, <3>4, Zenon DEF Matches
    <3>6. Turns(Step(a, page[position]), SubSeq(page, position + 1, Len(page)), b)
      BY <3>2, <3>5, RestTurns
    <3>7. Step(a, page[position]) # Failed
      BY <3>3, <3>6, NeverFailed, Zenon
    <3>8. Step(a, page[position]) = Current' /\ phase' = phase /\ outcome' = outcome
      BY <3>4, <3>7, Zenon DEF Advances, Event
    <3>9. Turns(Current', SubSeq(page, position + 1, Len(page)), b)
      BY <3>6, <3>8, Zenon
    <3>10. position + 1 \in 1..(Len(page) + 1)
      <4>1. PICK A : page \in Seq(A)
        BY <3>2, Zenon DEF IsSeq
      <4>2. Len(page) \in Nat
        BY <4>1, LenProperties
      <4>. QED BY <3>2, <4>2
    <3>11. Matches'
      <4>1. PICK c : c = Current'
        OBVIOUS
      <4>2. Turns(c, SubSeq(page', position', Len(page')), St(<<>>, <<>>, <<>>, Meaning'))
        BY <1>1, <2>1, <3>3, <3>9, <4>1, Zenon
      <4>3. expected' = Meaning'
        BY <1>1, <2>1, <3>1, Zenon DEF Matches
      <4>4. IsSeq(page') /\ position' \in 1..(Len(page') + 1)
        BY <1>1, <3>2, <3>10, Zenon
      <4>. QED BY <4>1, <4>2, <4>3, <4>4, Zenon DEF Matches
    <3>. QED BY <1>2, <2>2, <3>1, <3>8, <3>11, Zenon
  <2>4. outcome' = "none" => outcome' # "passed"
    OBVIOUS
  <2>. QED BY <2>1, <2>3, <2>4, Zenon DEF BookInv
<1>. QED BY <1>4, <1>5, <1>6, Zenon DEF Inv

\* the events of the page,
LEMMA InvAuditStart == ASSUME Inv, AuditStart PROVE Inv'
<1>1. Advances
  BY StartAdvances
<1>2. ReadingPage("start")
  BY Zenon DEF AuditStart
<1>3. (phase' = phase /\ outcome' = outcome) \/ (phase' = "ended" /\ outcome' = "audit_failed")
  BY Zenon DEF AuditStart, Ends, BeginsElement
<1>. QED BY <1>1, <1>2, <1>3, InvReadingPage

\* one
LEMMA InvAuditText == ASSUME Inv, AuditText PROVE Inv'
<1>1. Advances
  BY TextAdvances
<1>2. ReadingPage("text")
  BY Zenon DEF AuditText
<1>3. (phase' = phase /\ outcome' = outcome) \/ (phase' = "ended" /\ outcome' = "audit_failed")
  BY Zenon DEF AuditText, Ends, AppendsText
<1>. QED BY <1>1, <1>2, <1>3, InvReadingPage

\* by one,
LEMMA InvAuditEnd == ASSUME Inv, AuditEnd PROVE Inv'
<1>1. Advances
  BY EndAdvances
<1>2. ReadingPage("end")
  BY Zenon DEF AuditEnd
<1>3. (phase' = phase /\ outcome' = outcome) \/ (phase' = "ended" /\ outcome' = "audit_failed")
  BY Zenon DEF AuditEnd, Ends, FinishesElement
<1>. QED BY <1>1, <1>2, <1>3, InvReadingPage

\* its end, where what was found is what is expected,
LEMMA InvAuditEof == ASSUME Inv, AuditEof PROVE Inv'
<1>1. /\ phase = "page" /\ position > Len(page) /\ phase' = "ended"
      /\ source' = source /\ tampered' = tampered /\ page' = page /\ found' = found
      /\ outcome' = IF record # <<>> \/ heading # <<>> \/ stack # <<>> THEN "audit_failed"
                    ELSE IF found = expected THEN "passed" ELSE "mismatch"
  BY Zenon DEF AuditEof, Ends, reading
<1>2. phase' \notin {"convert", "built", "audit"} /\ phase' # "convert" /\ phase' # "audit"
      /\ phase' \notin {"built", "audit", "page"} /\ phase' # "page" /\ phase' \in Phases
  BY <1>1 DEF Phases
<1>3. SourceInv'
  BY <1>1, <1>2, Zenon DEF Inv, SourceInv
<1>4. FiltersInv'
  BY <1>2, Zenon DEF FiltersInv
<1>5. BookInv'
  <2>1. (Quiet' <=> Quiet) /\ Meaning' = Meaning
    BY <1>1, QuietStays
  <2>2. Shows' <=> Shows
    BY <1>1, ShowsStays
  <2>3. ASSUME Quiet PROVE Shows' /\ outcome' = "passed" /\ found' = Meaning
    <3>1. Shows /\ Matches
      BY <1>1, <2>3 DEF Inv, BookInv
    <3>2. PICK n \in Nat : n = Len(page)
      <4>1. PICK A : page \in Seq(A)
        BY <3>1, Zenon DEF Matches, IsSeq
      <4>. QED BY <4>1, LenProperties
    <3>3. position = n + 1
      <4>1. position \in 1..(n + 1)
        BY <3>1, <3>2, Zenon DEF Matches
      <4>. QED BY <1>1, <3>2, <4>1
    <3>4. SubSeq(page, n + 1, n) = <<>>
      <4>1. n + 1 > n
        OBVIOUS
      <4>. QED BY <4>1, SubSeqEmpty
    <3>5. Turns(Current, <<>>, St(<<>>, <<>>, <<>>, Meaning))
      BY <3>1, <3>2, <3>3, <3>4, Zenon DEF Matches
    <3>6. Current = St(<<>>, <<>>, <<>>, Meaning)
      BY <3>5, TurnsNone, Zenon DEF Turns
    <3>7. stack = <<>> /\ record = <<>> /\ heading = <<>> /\ found = Meaning
      <4>1. PICK z : z = <<>>
        OBVIOUS
      <4>2. PICK m : m = Meaning
        OBVIOUS
      <4>3. St(stack, record, heading, found) = St(z, z, z, m)
        BY <3>6, <4>1, <4>2, Zenon DEF Current
      <4>4. stack = z /\ record = z /\ heading = z /\ found = m
        BY <4>3, SameState
      <4>. QED BY <4>1, <4>2, <4>4, Zenon
    <3>8. expected = Meaning
      BY <3>1, Zenon DEF Matches
    <3>. QED BY <1>1, <2>2, <3>1, <3>7, <3>8, Zenon
  <2>. QED BY <1>2, <2>1, <2>3, Zenon DEF BookInv
<1>. QED BY <1>3, <1>4, <1>5, Zenon DEF Inv

\* and a step that changes nothing.
LEMMA InvStutters == ASSUME Inv, UNCHANGED vars PROVE Inv'
<1>1. /\ source' = source /\ phase' = phase /\ expected' = expected /\ page' = page
      /\ tampered' = tampered /\ outcome' = outcome
      /\ input' = input /\ match' = match /\ output' = output /\ eof' = eof /\ taken' = taken
      /\ position' = position /\ stack' = stack /\ record' = record /\ heading' = heading
      /\ found' = found
  BY Zenon DEF vars, filter, reading
<1>2. SourceInv'
  BY <1>1 DEF Inv, SourceInv, Untouched, NoSummary
<1>3. FiltersInv'
  BY <1>1 DEF Inv, FiltersInv, ReadInv, Bytes
<1>4. BookInv'
  <2>1. (Quiet' <=> Quiet) /\ Meaning' = Meaning
    BY <1>1, QuietStays
  <2>2. Shows' <=> Shows
    BY <1>1, ShowsStays
  <2>3. Matches => Matches'
    <3>1. Current' = Current
      BY <1>1, Zenon DEF Current
    <3>2. PICK c : c = Current'
      OBVIOUS
    <3>. QED BY <1>1, <2>1, <3>1, <3>2, Zenon DEF Matches
  <2>4. BookInv
    BY Zenon DEF Inv
  <2>. QED BY <1>1, <2>1, <2>2, <2>3, <2>4 DEF BookInv
<1>. QED BY <1>2, <1>3, <1>4, Zenon DEF Inv

\* Every step keeps the invariant.
LEMMA InvNext == Inv /\ [Next]_vars => Inv'
<1> SUFFICES ASSUME Inv, [Next]_vars PROVE Inv'
  OBVIOUS
<1>1. CASE ConversionReads
  BY <1>1, InvConversionReads
<1>2. CASE Convert
  BY <1>2, InvConvert
<1>3. CASE ChangeBook
  BY <1>3, InvChangeBook
<1>4. CASE BeginAudit
  BY <1>4, InvBeginAudit
<1>5. CASE AuditReads
  BY <1>5, InvAuditReads
<1>6. CASE AuditSource
  BY <1>6, InvAuditSource
<1>7. CASE AuditStart
  BY <1>7, InvAuditStart
<1>8. CASE AuditText
  BY <1>8, InvAuditText
<1>9. CASE AuditEnd
  BY <1>9, InvAuditEnd
<1>10. CASE AuditEof
  BY <1>10, InvAuditEof
<1>11. CASE UNCHANGED vars
  BY <1>11, InvStutters
<1>. QED BY <1>1, <1>2, <1>3, <1>4, <1>5, <1>6, <1>7, <1>8, <1>9, <1>10, <1>11, Zenon DEF Next

\* The same as an implication.
LEMMA InvBegins == Init => Inv
BY InvInit

\* The state of the conversion and of the audit, for every source and every way its bytes
\* fall into reads.
THEOREM CharactersInvariant == Spec => []Inv
BY InvBegins, InvNext, PTL DEF Spec

-----------------------------------------------------------------------------
(***************************************************************************)
(* What follows from it.                                                   *)
(***************************************************************************)

\* What the parser is given of a source does not depend on how its bytes fall
\* into reads: what ControlSanitizer and AuditControlReader hand out between
\* them is what one pass over all bytes makes of them.
FilteredWhole ==
  /\ phase = "convert" /\ Conversion!Exhausted => taken = Whole(ConversionEscape, Bytes(source))
  /\ phase = "audit" /\ Audit!Exhausted => taken = Whole(AuditEscape, Bytes(source))

\* Both filters, at the end of the file, have handed out the same as one pass over
\* the whole source (fill_output and the carried escape_match).
THEOREM ReadsDoNotMatter == Spec => []FilteredWhole
<1>1. Inv => FilteredWhole
  <2> SUFFICES ASSUME Inv PROVE FilteredWhole
    OBVIOUS
  <2>1. ASSUME phase = "convert", Conversion!Exhausted
        PROVE  taken = Whole(ConversionEscape, Bytes(source))
    <3>1. ReadInv(ConversionEscape)
      BY <2>1, Zenon DEF Inv, FiltersInv
    <3>2. eof /\ output = <<>>
      BY <2>1, Zenon DEF Conversion!Exhausted
    <3>. QED BY <3>1, <3>2, BothEscapes, AllTaken
  <2>2. ASSUME phase = "audit", Audit!Exhausted
        PROVE  taken = Whole(AuditEscape, Bytes(source))
    <3>1. ReadInv(AuditEscape)
      BY <2>2, Zenon DEF Inv, FiltersInv
    <3>2. eof /\ output = <<>>
      BY <2>2, Zenon DEF Audit!Exhausted
    <3>. QED BY <3>1, <3>2, BothEscapes, AllTaken
  <2>. QED BY <2>1, <2>2, Zenon DEF FilteredWhole
<1>. QED BY <1>1, CharactersInvariant, PTL

\* An ordinary source is converted, and its audit passes unless somebody changed
\* the book (build_volume, audit_source, audit_xhtml and the checks of audit_volume).
THEOREM OrdinarySourceAudited == Spec => []OrdinarySourcePasses
<1>1. Inv => OrdinarySourcePasses
  <2> SUFFICES ASSUME Inv, outcome \notin {"none", "passed"}, ~tampered
               PROVE  \E bytes \in {source.name, source.value, source.text} : ~Ordinary(bytes)
    BY Zenon DEF OrdinarySourcePasses
  <2>1. ~Quiet
    BY Zenon DEF Inv, BookInv
  <2>. QED BY <2>1, Zenon DEF Quiet, OrdinarySource
<1>. QED BY <1>1, CharactersInvariant, PTL

\* The book of an ordinary source that nobody changed shows the source, and the audit
\* has read the source from it: what passes is preserved, and every value is.
THEOREM OrdinaryBookPreserved ==
  Spec => [](OrdinarySource(source) /\ ~tampered => PassedMeansPreserved /\ ValuesPreserved)
<1>1. Inv => (OrdinarySource(source) /\ ~tampered => PassedMeansPreserved /\ ValuesPreserved)
  <2> SUFFICES ASSUME Inv, OrdinarySource(source), ~tampered
               PROVE  PassedMeansPreserved /\ ValuesPreserved
    OBVIOUS
  <2>1. Quiet
    BY Zenon DEF Quiet
  <2>2. /\ outcome \in {"none", "passed"}
        /\ outcome = "passed" => Shows /\ found = Meaning
    BY <2>1, Zenon DEF Inv, BookInv
  <2>3. PassedMeansPreserved
    BY <2>2, Zenon DEF PassedMeansPreserved, Shows
  <2>4. ValuesPreserved
    <3> SUFFICES ASSUME outcome \in {"passed", "mismatch"} PROVE found.records = Meaning.records
      BY Zenon DEF ValuesPreserved
    <3>1. outcome = "passed"
      BY <2>2
    <3>. QED BY <2>2, <3>1, Zenon
  <2>. QED BY <2>3, <2>4
<1>. QED BY <1>1, CharactersInvariant, PTL
=============================================================================
