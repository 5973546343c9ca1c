------------------------- MODULE SourceAuditProofs -------------------------
(***************************************************************************)
(* Theorems about SourceAudit for any corpora, changes of the working tree *)
(* and number of audits.                                                   *)
(*                                                                         *)
(* First mark_cycles: the depth-first search of finishing_order finishes a *)
(* node no earlier than all that it leads to, unless they lead back        *)
(* (Outlasted); so a second search against the edges, from the node that   *)
(* finished last, finds exactly those that lead to each other, whatever    *)
(* the order of names and edges. Then the protocol of the audits (IInv).   *)
(* Then what a first pass holds (Held), by what ParseVolume is proved to   *)
(* return: entries of different places, entities of one entry each. From   *)
(* it: ids are of one entity each, a relation's candidates narrow to those *)
(* that fit all it says, and a resolved one leads to another entry, as     *)
(* mark_cycles needs. Last the numbers: the scopes of a namespace divide   *)
(* the same entities (Splits), so what repeats in them compares.           *)
(***************************************************************************)
EXTENDS SourceAudit, FiniteSetTheorems, FunctionTheorems, SequenceTheorems, TLAPS

(***************************************************************************)
(* Induction over the natural numbers. The induction theorems of the       *)
(* library take a predicate as an operator, which the provers cannot       *)
(* instantiate; for a set they follow from the least element.              *)
(***************************************************************************)

\* A set of natural numbers that is not empty has a least element.
LEMMA LeastNatural ==
  ASSUME NEW T \in SUBSET Nat, T # {}
  PROVE  \E x \in T : \A y \in T : x <= y
<1> DEFINE less == {p \in Nat \X Nat : p[1] < p[2]}
<1>1. IsWellFoundedOn(less, Nat)
  BY NatLessThanWellFounded DEF OpToRel
<1>2. PICK x \in T : \A y \in T : ~(<<y, x>> \in less)
  <2> HIDE DEF less
  <2>. QED BY <1>1, WFMin
<1>3. \A y \in T : <<y, x>> \in less <=> y < x
  OBVIOUS
<1>4. \A y \in T : x \in Nat /\ y \in Nat /\ ~(y < x)
  BY <1>2, <1>3
<1>. QED BY <1>4

\* A set that holds 0, and with a number the next one, holds every number.
LEMMA SetInduction ==
  ASSUME NEW S, 0 \in S, \A n \in Nat : n \in S => n + 1 \in S
  PROVE  Nat \subseteq S
<1> SUFFICES ASSUME Nat \ S # {} PROVE FALSE
  OBVIOUS
<1>1. PICK x \in Nat \ S : \A y \in Nat \ S : x <= y
  BY LeastNatural
<1>. QED BY <1>1

\* The same from a first number on, and up to a last one.
LEMMA IntervalInduction ==
  ASSUME NEW a \in Int, NEW b \in Int, NEW S, a \in S,
         \A n \in a..(b - 1) : n \in S => n + 1 \in S
  PROVE  a..b \subseteq S
<1> DEFINE T == {n \in Nat : a + n <= b => a + n \in S}
<1>1. 0 \in T
  OBVIOUS
<1>2. \A n \in Nat : n \in T => n + 1 \in T
  OBVIOUS
<1>3. Nat \subseteq T
  <2> HIDE DEF T
  <2>. QED BY <1>1, <1>2, SetInduction
<1>4. ASSUME NEW k \in a..b PROVE k \in S
  <2>1. k - a \in T
    BY <1>3
  <2>. QED BY <2>1
<1>. QED BY <1>4

(***************************************************************************)
(* Reachability in a graph, as the sets that no edge leads out of.         *)
(***************************************************************************)

Leads(g, x, y) ==
  \A S \in SUBSET DOMAIN g : (\A z \in S : g[z] \subseteq S) => (x \in S => y \in S)
Both(g, x, y) == Leads(g, x, y) /\ Leads(g, y, x)

\* A graph has its nodes numbered, and for each the set of those its edges lead to.
Graph(g, n) == n \in Nat /\ g \in [1..n -> SUBSET (1..n)]

LEMMA LeadsSelf ==
  ASSUME NEW g, NEW x PROVE Leads(g, x, x) /\ Both(g, x, x)
BY DEF Leads, Both

LEMMA LeadsEdge ==
  ASSUME NEW g, NEW x \in DOMAIN g, NEW y \in g[x] PROVE Leads(g, x, y)
BY DEF Leads

LEMMA LeadsOn ==
  ASSUME NEW g, NEW x, NEW y, NEW z, Leads(g, x, y), Leads(g, y, z) PROVE Leads(g, x, z)
BY DEF Leads

LEMMA BothOn ==
  ASSUME NEW g, NEW x, NEW y, NEW z, Both(g, x, y), Both(g, y, z)
  PROVE  Both(g, x, z) /\ Both(g, z, x)
BY LeadsOn DEF Both

LEMMA LeadsInside ==
  ASSUME NEW n, NEW g, Graph(g, n), NEW x \in 1..n, NEW y, Leads(g, x, y) PROVE y \in 1..n
BY DEF Leads, Graph

\* The same edges the other way.
LEMMA TransposedGraph ==
  ASSUME NEW n, NEW g, Graph(g, n)
  PROVE  /\ Graph(Transposed(g), n)
         /\ \A x, y \in 1..n : x \in Transposed(g)[y] <=> y \in g[x]
         /\ Transposed(Transposed(g)) = g
<1>1. DOMAIN g = 1..n
  BY DEF Graph
<1>2. Transposed(g) = [y \in 1..n |-> {x \in 1..n : y \in g[x]}]
  BY <1>1, Zenon DEF Transposed
<1>3. Graph(Transposed(g), n)
  BY <1>2 DEF Graph
<1>4. Transposed(Transposed(g)) = [y \in 1..n |-> {x \in 1..n : y \in Transposed(g)[x]}]
  BY <1>2, Zenon DEF Transposed
<1>5. ASSUME NEW y \in 1..n
      PROVE  {x \in 1..n : y \in Transposed(g)[x]} = g[y]
  BY <1>2 DEF Graph
<1>6. [y \in 1..n |-> {x \in 1..n : y \in Transposed(g)[x]}] = g
  BY <1>5 DEF Graph
<1>. QED BY <1>2, <1>3, <1>4, <1>6

LEMMA TransposedBack ==
  ASSUME NEW n, NEW g, Graph(g, n), NEW x \in 1..n, NEW y \in 1..n, Leads(Transposed(g), x, y)
  PROVE  Leads(g, y, x)
<1> SUFFICES ASSUME NEW S \in SUBSET (1..n), \A z \in S : g[z] \subseteq S, y \in S, x \notin S
             PROVE  FALSE
  BY DEF Leads, Graph
<1> DEFINE rest == (1..n) \ S
<1>1. ASSUME NEW z \in rest, NEW w \in Transposed(g)[z] PROVE w \in rest
  <2>1. Transposed(g) \in [1..n -> SUBSET (1..n)] /\ z \in 1..n
    BY TransposedGraph DEF Graph
  <2>2. w \in 1..n
    BY <2>1
  <2>3. z \in g[w]
    BY <2>1, <2>2, TransposedGraph
  <2>. QED BY <2>2, <2>3
<1>2. rest \in SUBSET DOMAIN Transposed(g)
  BY TransposedGraph DEF Graph
<1>. QED BY <1>1, <1>2 DEF Leads

LEMMA TransposedLeads ==
  ASSUME NEW n, NEW g, Graph(g, n), NEW x \in 1..n, NEW y \in 1..n
  PROVE  Leads(Transposed(g), x, y) <=> Leads(g, y, x)
<1>1. Graph(Transposed(g), n) /\ Transposed(Transposed(g)) = g
  BY TransposedGraph
<1>2. Leads(Transposed(g), x, y) => Leads(g, y, x)
  BY TransposedBack
<1>3. Leads(Transposed(Transposed(g)), y, x) => Leads(Transposed(g), x, y)
  BY <1>1, TransposedBack
<1>. QED BY <1>1, <1>2, <1>3

LEMMA LeastOne ==
  ASSUME NEW S \in SUBSET Nat, S # {} PROVE Least(S) \in S
BY LeastNatural DEF Least

(***************************************************************************)
(* The first search.                                                       *)
(***************************************************************************)

Holds(s, x) == \E i \in 1..Len(s) : s[i] = x
Distinct(s) == \A i, j \in 1..Len(s) : s[i] = s[j] => i = j

\* x has finished, and what it leads to before something that leads to it and back.
Outlasted(g, order, x) ==
  \A y : Leads(g, x, y) =>
    /\ Holds(order, y)
    /\ \A j \in 1..Len(order) : order[j] = y =>
         \E i \in j..Len(order) : Both(g, x, order[i])

\* What is true after k turns.
Lists(n, stack, visited, order) ==
  /\ n \in Nat /\ stack \in Seq(1..n) /\ order \in Seq(1..n) /\ visited \in SUBSET (1..n)
Marks(n, stack, visited, order) ==
  /\ \A x \in 1..n : x \in visited <=> Holds(stack, x) \/ Holds(order, x)
  /\ \A x \in 1..n : ~(Holds(stack, x) /\ Holds(order, x))
  /\ Distinct(stack) /\ Distinct(order)
  /\ Cardinality(visited) = Len(stack) + Len(order)
Turns(n, k, stack, visited, order) ==
  \/ Len(stack) + 2 * Len(order) = k
  \/ Len(stack) = 0 /\ visited = 1..n
Climbs(g, stack) == \A i, j \in 1..Len(stack) : i <= j => Leads(g, stack[i], stack[j])
Explored(g, visited, order) == \A j \in 1..Len(order) : g[order[j]] \subseteq visited
Settled(g, stack, order) ==
  \A j \in 1..Len(order) :
    (\E i \in 1..Len(stack) : Both(g, order[j], stack[i])) \/ Outlasted(g, order, order[j])
Searching(g, n, k, stack, visited, order) ==
  /\ Lists(n, stack, visited, order) /\ Marks(n, stack, visited, order)
  /\ Turns(n, k, stack, visited, order) /\ Climbs(g, stack)
  /\ Explored(g, visited, order) /\ Settled(g, stack, order)

LEMMA SearchBegins ==
  ASSUME NEW n, NEW g, Graph(g, n) PROVE Searching(g, n, 0, <<>>, {}, <<>>)
BY FS_EmptySet DEF Searching, Lists, Marks, Turns, Climbs, Explored, Settled, Holds, Distinct, Graph

LEMMA HoldsAppend ==
  ASSUME NEW S, NEW s \in Seq(S), NEW v \in S
  PROVE  /\ \A x : Holds(Append(s, v), x) <=> Holds(s, x) \/ x = v
         /\ ~Holds(s, v) /\ Distinct(s) => Distinct(Append(s, v))
<1> DEFINE t == Append(s, v)
<1>1. /\ t \in Seq(S) /\ Len(t) = Len(s) + 1 /\ t[Len(s) + 1] = v
      /\ \A i \in 1..Len(s) : t[i] = s[i]
      /\ Len(s) \in Nat
  OBVIOUS
<1> HIDE DEF t
<1>2. \A i \in 1..Len(t) : i \in 1..Len(s) \/ i = Len(s) + 1
  BY <1>1
<1>3. ASSUME NEW x PROVE Holds(t, x) <=> Holds(s, x) \/ x = v
  BY <1>1, <1>2 DEF Holds
<1>4. ASSUME ~Holds(s, v), Distinct(s) PROVE Distinct(t)
  BY <1>1, <1>2, <1>4 DEF Holds, Distinct
<1>. QED BY <1>3, <1>4 DEF t

\* A node that was not visited goes onto the stack.
LEMMA SearchPushes ==
  ASSUME NEW n, NEW g, Graph(g, n), NEW k \in Nat, NEW stack, NEW visited, NEW order,
         Searching(g, n, k, stack, visited, order),
         NEW v \in (1..n) \ visited,
         Len(stack) > 0 => v \in g[stack[Len(stack)]]
  PROVE  Searching(g, n, k + 1, Append(stack, v), visited \cup {v}, order)
<1> DEFINE t == Append(stack, v)
<1>1. /\ t \in Seq(1..n) /\ Len(t) = Len(stack) + 1 /\ t[Len(stack) + 1] = v
      /\ \A i \in 1..Len(stack) : t[i] = stack[i] /\ stack[i] \in 1..n
      /\ Len(stack) \in Nat /\ Len(order) \in Nat /\ stack \in Seq(1..n)
  BY DEF Searching, Lists
<1>2. /\ \A x : Holds(t, x) <=> Holds(stack, x) \/ x = v
      /\ ~Holds(stack, v) /\ Distinct(stack) => Distinct(t)
  BY <1>1, HoldsAppend
<1> HIDE DEF t
<1>3. Lists(n, t, visited \cup {v}, order)
  BY <1>1 DEF Searching, Lists
<1>4. Marks(n, t, visited \cup {v}, order)
  <2>1. IsFiniteSet(visited)
    <3>1. IsFiniteSet(1..n) /\ visited \in SUBSET (1..n)
      BY FS_Interval DEF Searching, Lists
    <3>. QED BY <3>1, FS_Subset
  <2>2. Cardinality(visited \cup {v}) = Cardinality(visited) + 1
    BY <2>1, FS_AddElement
  <2>3. ~Holds(stack, v) /\ ~Holds(order, v)
    BY DEF Searching, Marks
  <2>4. Cardinality(visited \cup {v}) = Len(t) + Len(order)
    BY <1>1, <2>2 DEF Searching, Marks
  <2>. QED BY <1>2, <2>3, <2>4 DEF Searching, Marks
<1>5. Turns(n, k + 1, t, visited \cup {v}, order)
  BY <1>1 DEF Searching, Turns
<1>6. Climbs(g, t)
  <2>1. ASSUME NEW i \in 1..Len(stack) PROVE Leads(g, stack[i], v)
    <3>1. Leads(g, stack[i], stack[Len(stack)]) /\ Len(stack) \in 1..Len(stack)
      BY <1>1 DEF Searching, Climbs
    <3>2. stack[Len(stack)] \in DOMAIN g /\ v \in g[stack[Len(stack)]]
      BY <1>1, <3>1 DEF Graph
    <3>3. Leads(g, stack[Len(stack)], v)
      BY <3>2, LeadsEdge
    <3>. QED BY <3>1, <3>3, LeadsOn
  <2>2. \A i \in 1..Len(t) : i \in 1..Len(stack) \/ i = Len(stack) + 1
    BY <1>1
  <2>3. Leads(g, v, v)
    BY LeadsSelf
  <2>. QED BY <1>1, <2>1, <2>2, <2>3 DEF Searching, Climbs
<1>7. Explored(g, visited \cup {v}, order)
  BY DEF Searching, Explored
<1>8. Settled(g, t, order)
  <2>1. \A i \in 1..Len(stack) : i \in 1..Len(t)
    BY <1>1
  <2>. QED BY <1>1, <2>1 DEF Searching, Settled
<1>. QED BY <1>3, <1>4, <1>5, <1>6, <1>7, <1>8 DEF Searching, t

LEMMA HoldsFront ==
  ASSUME NEW S, NEW s \in Seq(S), Len(s) > 0
  PROVE  LET t == SubSeq(s, 1, Len(s) - 1) IN
         /\ t \in Seq(S) /\ Len(t) = Len(s) - 1 /\ \A i \in 1..Len(t) : t[i] = s[i]
         /\ \A x : Holds(s, x) <=> Holds(t, x) \/ x = s[Len(s)]
         /\ Distinct(s) => Distinct(t) /\ ~Holds(t, s[Len(s)])
<1> DEFINE t == SubSeq(s, 1, Len(s) - 1)
<1>1. /\ t \in Seq(S) /\ Len(t) = Len(s) - 1 /\ \A i \in 1..Len(t) : t[i] = s[i]
      /\ Len(s) \in Nat /\ Len(s) \in 1..Len(s)
  <2>1. PICK m : m = Len(s) - 1
    OBVIOUS
  <2>2. m \in Nat /\ Len(s) \in Nat /\ Len(s) = m + 1 /\ \A i \in 1..m : s[i] \in S
    BY <2>1
  <2>3. /\ SubSeq(s, 1, m) \in Seq(S)
        /\ Len(SubSeq(s, 1, m)) = IF 1 <= m THEN m - 1 + 1 ELSE 0
        /\ \A i \in 1..m - 1 + 1 : SubSeq(s, 1, m)[i] = s[1 + i - 1]
    BY <2>2, SubSeqProperties
  <2>4. t = SubSeq(s, 1, m)
    BY <2>1
  <2> HIDE DEF t
  <2>5. t \in Seq(S) /\ Len(t) = m
    BY <2>2, <2>3, <2>4
  <2>6. \A i \in 1..m : t[i] = s[i]
    BY <2>2, <2>3, <2>4
  <2>. QED BY <2>2, <2>5, <2>6
<1> HIDE DEF t
<1>2. \A i \in 1..Len(s) : i \in 1..Len(t) \/ i = Len(s)
  BY <1>1
<1>3. \A i \in 1..Len(t) : i \in 1..Len(s) /\ i # Len(s)
  BY <1>1
<1>4. ASSUME NEW x PROVE Holds(s, x) <=> Holds(t, x) \/ x = s[Len(s)]
  BY <1>1, <1>2, <1>3 DEF Holds
<1>5. ASSUME Distinct(s) PROVE Distinct(t) /\ ~Holds(t, s[Len(s)])
  BY <1>1, <1>3, <1>5 DEF Holds, Distinct
<1>. QED BY <1>1, <1>4, <1>5 DEF t

\* What the node that finishes leads to, if nothing below it on the stack leads back:
\* all of it has finished.
LEMMA NothingLeft ==
  ASSUME NEW n, NEW g, Graph(g, n), NEW k \in Nat, NEW stack, NEW visited, NEW order,
         Searching(g, n, k, stack, visited, order),
         Len(stack) > 0, g[stack[Len(stack)]] \subseteq visited,
         \A i \in 1..(Len(stack) - 1) : ~Both(g, stack[Len(stack)], stack[i]),
         NEW y, Leads(g, stack[Len(stack)], y)
  PROVE  Holds(order, y) \/ y = stack[Len(stack)]
<1> DEFINE top == stack[Len(stack)]
           W == {w \in 1..n : Leads(g, top, w) /\ (Holds(order, w) \/ w = top)}
<1>1. /\ Len(stack) \in Nat /\ Len(stack) \in 1..Len(stack) /\ top \in 1..n
      /\ \A i \in 1..Len(stack) : stack[i] \in 1..n
      /\ \A j \in 1..Len(order) : order[j] \in 1..n
  BY DEF Searching, Lists
<1>2. DOMAIN g = 1..n /\ \A z \in 1..n : g[z] \subseteq 1..n
  BY DEF Graph
<1> HIDE DEF top
<1>3. ASSUME NEW z \in 1..n, Leads(g, top, z), Holds(order, z) \/ z = top, NEW w \in g[z]
      PROVE  w \in 1..n /\ Leads(g, top, w) /\ (Holds(order, w) \/ w = top)
  <2>1. w \in visited /\ w \in 1..n
    BY <1>2, <1>3 DEF Searching, Explored, Holds, top
  <2>2. Leads(g, top, w)
    <3>1. Leads(g, z, w)
      BY <1>2, <1>3, LeadsEdge
    <3>. QED BY <1>3, <3>1, LeadsOn
  <2>3. CASE Holds(stack, w)
    <3>1. PICK i \in 1..Len(stack) : stack[i] = w
      BY <2>3 DEF Holds
    <3>2. Leads(g, w, top)
      BY <1>1, <3>1 DEF Searching, Climbs, top
    <3>3. Both(g, top, stack[i])
      BY <2>2, <3>1, <3>2 DEF Both
    <3>4. i = Len(stack)
      BY <1>1, <3>3 DEF top
    <3>. QED BY <2>1, <2>2, <3>1, <3>4 DEF top
  <2>4. Holds(stack, w) \/ Holds(order, w)
    BY <2>1 DEF Searching, Marks
  <2>. QED BY <2>1, <2>2, <2>3, <2>4
<1>4. \A z \in W : g[z] \subseteq W
  BY <1>3
<1>5. top \in W /\ W \in SUBSET DOMAIN g
  BY <1>1, <1>2, LeadsSelf
<1>6. y \in W
  <2> HIDE DEF W
  <2>. QED BY <1>4, <1>5 DEF Leads, top
<1>. QED BY <1>6 DEF top

\* A node that leads nowhere new leaves the stack and has finished.
LEMMA SearchPops ==
  ASSUME NEW n, NEW g, Graph(g, n), NEW k \in Nat, NEW stack, NEW visited, NEW order,
         Searching(g, n, k, stack, visited, order),
         Len(stack) > 0, g[stack[Len(stack)]] \subseteq visited
  PROVE  Searching(g, n, k + 1, SubSeq(stack, 1, Len(stack) - 1), visited,
                   Append(order, stack[Len(stack)]))
<1> DEFINE t == SubSeq(stack, 1, Len(stack) - 1)
           top == stack[Len(stack)]
           done == Append(order, top)
<1>1. /\ stack \in Seq(1..n) /\ order \in Seq(1..n)
      /\ Len(stack) \in Nat /\ Len(order) \in Nat /\ top \in 1..n
      /\ Len(stack) \in 1..Len(stack)
  BY DEF Searching, Lists
<1>2. /\ t \in Seq(1..n) /\ Len(t) = Len(stack) - 1
      /\ \A i \in 1..Len(t) : t[i] = stack[i]
      /\ \A x : Holds(stack, x) <=> Holds(t, x) \/ x = top
      /\ Distinct(stack) => Distinct(t) /\ ~Holds(t, top)
  BY <1>1, HoldsFront
<1>3. /\ done \in Seq(1..n) /\ Len(done) = Len(order) + 1 /\ done[Len(order) + 1] = top
      /\ \A i \in 1..Len(order) : done[i] = order[i]
  BY <1>1
<1>4. /\ \A x : Holds(done, x) <=> Holds(order, x) \/ x = top
      /\ ~Holds(order, top) /\ Distinct(order) => Distinct(done)
  BY <1>1, HoldsAppend
<1>5. Holds(stack, top)
  BY <1>1 DEF Holds
<1>a. g[top] \subseteq visited
  OBVIOUS
<1> HIDE DEF t, done, top
<1>6. \A j \in 1..Len(done) : j \in 1..Len(order) \/ j = Len(order) + 1
  BY <1>1, <1>3
<1>7. Lists(n, t, visited, done)
  BY <1>2, <1>3 DEF Searching, Lists
<1>8. Marks(n, t, visited, done)
  <2>1. ~Holds(order, top)
    BY <1>1, <1>5 DEF Searching, Marks
  <2>2. Len(t) + Len(done) = Len(stack) + Len(order)
    BY <1>1, <1>2, <1>3
  <2>. QED BY <1>2, <1>4, <2>1, <2>2 DEF Searching, Marks
<1>9. Turns(n, k + 1, t, visited, done)
  <2>1. Len(stack) + 2 * Len(order) = k
    BY DEF Searching, Turns
  <2>2. Len(t) + 2 * Len(done) = k + 1
    <3>1. Len(t) \in Int /\ Len(done) \in Int
      BY <1>1, <1>2, <1>3
    <3>2. PICK a \in Int, b \in Int, c \in Int, d \in Int :
            a = Len(stack) /\ b = Len(order) /\ c = Len(t) /\ d = Len(done)
      BY <1>1, <3>1
    <3>3. a + 2 * b = k /\ c = a - 1 /\ d = b + 1
      BY <1>2, <1>3, <2>1, <3>2
    <3>4. c + 2 * d = k + 1
      BY <3>3
    <3>. QED BY <3>2, <3>4
  <2>. QED BY <2>2 DEF Turns
<1>10. Climbs(g, t)
  <2>1. \A i \in 1..Len(t) : i \in 1..Len(stack)
    BY <1>1, <1>2
  <2>. QED BY <1>2, <2>1 DEF Searching, Climbs
<1>11. Explored(g, visited, done)
  BY <1>3, <1>6, <1>a DEF Searching, Explored
<1>12. Settled(g, t, done)
  <2>1. ASSUME NEW i \in 1..Len(t), NEW x, Both(g, x, stack[i])
        PROVE  \E l \in 1..Len(t) : Both(g, x, t[l])
    BY <1>2, <2>1
  <2>2. ASSUME \A i \in 1..Len(t) : ~Both(g, top, t[i]), NEW x, Both(g, x, top)
        PROVE  Outlasted(g, done, x)
    <3>1. ASSUME NEW y, Leads(g, x, y) PROVE Holds(done, y)
      <4>1. Leads(g, top, y)
        BY <2>2, <3>1, LeadsOn DEF Both
      <4>2. \A i \in 1..(Len(stack) - 1) : ~Both(g, stack[Len(stack)], stack[i])
        BY <1>2, <2>2 DEF top
      <4>3. Holds(order, y) \/ y = top
        BY <1>1, <4>1, <4>2, <1>a, NothingLeft DEF top
      <4>. QED BY <1>4, <4>3
    <3>2. ASSUME NEW j \in 1..Len(done)
          PROVE  Len(order) + 1 \in j..Len(done) /\ Both(g, x, done[Len(order) + 1])
      BY <1>1, <1>3, <2>2
    <3>. QED BY <3>1, <3>2 DEF Outlasted
  <2>3. ASSUME NEW j \in 1..Len(order), Outlasted(g, order, order[j])
        PROVE  Outlasted(g, done, order[j])
    <3>1. ASSUME NEW y, Leads(g, order[j], y) PROVE Holds(done, y)
      BY <1>4, <2>3, <3>1 DEF Outlasted
    <3>2. ASSUME NEW y, Leads(g, order[j], y), NEW m \in 1..Len(done), done[m] = y
          PROVE  \E i \in m..Len(done) : Both(g, order[j], done[i])
      <4>1. y # top
        <5>1. Holds(order, y) /\ ~Holds(order, top)
          BY <2>3, <3>2, <1>1, <1>5 DEF Outlasted, Searching, Marks
        <5>. QED BY <5>1
      <4>2. m \in 1..Len(order) /\ order[m] = y
        BY <1>3, <1>6, <3>2, <4>1
      <4>3. PICK i \in m..Len(order) : Both(g, order[j], order[i])
        BY <2>3, <3>2, <4>2 DEF Outlasted
      <4>4. i \in m..Len(done) /\ done[i] = order[i]
        BY <1>1, <1>3, <4>2
      <4>. QED BY <4>3, <4>4
    <3>. QED BY <3>1, <3>2 DEF Outlasted
  <2>4. ASSUME NEW j \in 1..Len(done)
        PROVE  (\E i \in 1..Len(t) : Both(g, done[j], t[i])) \/ Outlasted(g, done, done[j])
    <3>1. CASE j = Len(order) + 1
      BY <1>3, <2>2, <3>1, LeadsSelf
    <3>2. CASE j \in 1..Len(order)
      <4>1. CASE Outlasted(g, order, order[j])
        BY <1>3, <2>3, <3>2, <4>1
      <4>2. CASE \E i \in 1..Len(stack) : Both(g, order[j], stack[i])
        <5>1. PICK i \in 1..Len(stack) : Both(g, order[j], stack[i])
          BY <4>2
        <5>2. CASE i \in 1..Len(t)
          BY <1>3, <2>1, <3>2, <5>1, <5>2
        <5>3. CASE i = Len(stack)
          <6>1. Both(g, order[j], top)
            BY <5>1, <5>3 DEF top
          <6>2. CASE \E l \in 1..Len(t) : Both(g, top, t[l])
            BY <1>3, <3>2, <6>1, <6>2, BothOn
          <6>3. CASE \A l \in 1..Len(t) : ~Both(g, top, t[l])
            BY <1>3, <2>2, <3>2, <6>1, <6>3
          <6>. QED BY <6>2, <6>3
        <5>. QED BY <1>1, <1>2, <5>2, <5>3
      <4>. QED BY <3>2, <4>1, <4>2 DEF Searching, Settled
    <3>. QED BY <1>6, <3>1, <3>2
  <2>. QED BY <2>4 DEF Settled
<1>. QED BY <1>7, <1>8, <1>9, <1>10, <1>11, <1>12 DEF Searching, t, done, top

(***************************************************************************)
(* What the recursive functions of the model are: a function with a first  *)
(* value, and with each value made of the one before.                      *)
(***************************************************************************)

Iterates(n, S, a, step) ==
  \E f \in [0..n -> S] : f[0] = a /\ \A k \in 1..n : f[k] = step[k][f[k - 1]]
LEMMA Iteration ==
  ASSUME NEW n \in Nat, NEW S, NEW a \in S, NEW step \in [1..n -> [S -> S]]
  PROVE  Iterates(n, S, a, step)
<1> DEFINE Good(k, f) == f[0] = a /\ \A i \in 1..k : f[i] = step[i][f[i - 1]]
           T == {k \in Nat : k <= n => \E f \in [0..k -> S] : Good(k, f)}
<1>1. 0 \in T
  <2> DEFINE f == [k \in 0..0 |-> a]
  <2>1. f \in [0..0 -> S] /\ Good(0, f)
    OBVIOUS
  <2>. QED BY <2>1
<1>2. ASSUME NEW k \in Nat, k \in T PROVE k + 1 \in T
  <2> SUFFICES ASSUME k + 1 <= n PROVE \E f \in [0..(k + 1) -> S] : Good(k + 1, f)
    OBVIOUS
  <2>1. PICK f \in [0..k -> S] : Good(k, f)
    BY <1>2
  <2>2. PICK v : v = step[k + 1][f[k]]
    OBVIOUS
  <2>3. v \in S
    <3>1. step[k + 1] \in [S -> S] /\ f[k] \in S
      OBVIOUS
    <3>. QED BY <2>2, <3>1
  <2>4. PICK g : g = [i \in 0..(k + 1) |-> IF i = k + 1 THEN v ELSE f[i]]
    OBVIOUS
  <2>5. g[k + 1] = v /\ (\A i \in 0..k : g[i] = f[i]) /\ g \in [0..(k + 1) -> S]
    BY <2>3, <2>4
  <2>6. g[0] = a
    BY <2>1, <2>5
  <2>7. ASSUME NEW i \in 1..(k + 1) PROVE g[i] = step[i][g[i - 1]]
    <3>1. CASE i = k + 1
      BY <2>2, <2>5, <3>1
    <3>2. CASE i \in 1..k
      <4>1. i \in 0..k /\ i - 1 \in 0..k /\ f[i] = step[i][f[i - 1]]
        BY <2>1, <3>2
      <4>. QED BY <2>5, <4>1
    <3>. QED BY <3>1, <3>2
  <2>. QED BY <2>5, <2>6, <2>7
<1>3. Nat \subseteq T
  <2> HIDE DEF T
  <2>. QED BY <1>1, <1>2, SetInduction
<1>. QED BY <1>3 DEF Iterates

SearchStates(n) == [stack : Seq(1..n), visited : SUBSET (1..n), order : Seq(1..n)]
SearchStart == [stack |-> <<>>, visited |-> {}, order |-> <<>>]

\* One turn of the search.
LEMMA TurnTyped ==
  ASSUME NEW n, NEW g, Graph(g, n), NEW s \in SearchStates(n)
  PROVE  Turn(g, s) \in SearchStates(n)
<1>1. PICK stack, visited, order : stack = s.stack /\ visited = s.visited /\ order = s.order
  OBVIOUS
<1>2. /\ stack \in Seq(1..n) /\ visited \in SUBSET (1..n) /\ order \in Seq(1..n)
      /\ n \in Nat /\ DOMAIN g = 1..n
  BY <1>1 DEF SearchStates, Graph
<1>3. PICK fresh : fresh = IF stack = <<>> THEN DOMAIN g \ visited
                           ELSE g[stack[Len(stack)]] \ visited
  OBVIOUS
<1>4. Turn(g, s) =
        IF fresh # {}
          THEN [stack |-> Append(stack, Least(fresh)),
                visited |-> visited \cup {Least(fresh)}, order |-> order]
        ELSE IF stack # <<>>
          THEN [stack |-> SubSeq(stack, 1, Len(stack) - 1),
                visited |-> visited, order |-> Append(order, stack[Len(stack)])]
        ELSE s
  BY <1>1, <1>3, Zenon DEF Turn
<1>5. stack # <<>> => Len(stack) > 0 /\ stack[Len(stack)] \in 1..n
  BY <1>2
<1>6. fresh \in SUBSET (1..n)
  BY <1>2, <1>3, <1>5 DEF Graph
<1>7. CASE fresh # {}
  <2>1. Least(fresh) \in fresh
    BY <1>6, <1>7, LeastOne
  <2>2. Least(fresh) \in 1..n
    BY <1>6, <2>1
  <2>3. Append(stack, Least(fresh)) \in Seq(1..n) /\ visited \cup {Least(fresh)} \in SUBSET (1..n)
    <3>1. PICK v \in 1..n : v = Least(fresh)
      BY <2>2
    <3>2. Append(stack, v) \in Seq(1..n)
      BY <1>2
    <3>3. visited \cup {v} \in SUBSET (1..n)
      BY <1>2
    <3>. QED BY <3>1, <3>2, <3>3
  <2>. QED BY <1>2, <1>4, <1>7, <2>3 DEF SearchStates
<1>8. CASE fresh = {} /\ stack # <<>>
  <2>1. SubSeq(stack, 1, Len(stack) - 1) \in Seq(1..n)
    BY <1>2, <1>5, <1>8, HoldsFront
  <2>2. Append(order, stack[Len(stack)]) \in Seq(1..n)
    BY <1>2, <1>5, <1>8
  <2>. QED BY <1>2, <1>4, <1>8, <2>1, <2>2 DEF SearchStates
<1>9. CASE fresh = {} /\ stack = <<>>
  BY <1>4, <1>9
<1>. QED BY <1>7, <1>8, <1>9

LEMMA TurnSearches ==
  ASSUME NEW n, NEW g, Graph(g, n), NEW k \in Nat, NEW s \in SearchStates(n),
         Searching(g, n, k, s.stack, s.visited, s.order)
  PROVE  Searching(g, n, k + 1, Turn(g, s).stack, Turn(g, s).visited, Turn(g, s).order)
<1>1. PICK stack, visited, order : stack = s.stack /\ visited = s.visited /\ order = s.order
  OBVIOUS
<1>2. /\ stack \in Seq(1..n) /\ visited \in SUBSET (1..n) /\ order \in Seq(1..n)
      /\ n \in Nat /\ DOMAIN g = 1..n /\ Searching(g, n, k, stack, visited, order)
  BY <1>1 DEF SearchStates, Graph
<1>3. PICK fresh : fresh = IF stack = <<>> THEN DOMAIN g \ visited
                           ELSE g[stack[Len(stack)]] \ visited
  OBVIOUS
<1>4. Turn(g, s) =
        IF fresh # {}
          THEN [stack |-> Append(stack, Least(fresh)),
                visited |-> visited \cup {Least(fresh)}, order |-> order]
        ELSE IF stack # <<>>
          THEN [stack |-> SubSeq(stack, 1, Len(stack) - 1),
                visited |-> visited, order |-> Append(order, stack[Len(stack)])]
        ELSE s
  BY <1>1, <1>3, Zenon DEF Turn
<1>5. /\ stack # <<>> => Len(stack) > 0 /\ stack[Len(stack)] \in 1..n
      /\ stack = <<>> => Len(stack) = 0
  BY <1>2
<1>6. fresh \in SUBSET (1..n)
  BY <1>2, <1>3, <1>5 DEF Graph
<1>7. CASE fresh # {}
  <2>1. Least(fresh) \in fresh
    BY <1>6, <1>7, LeastOne
  <2>2. Least(fresh) \in (1..n) \ visited /\ (Len(stack) > 0 => Least(fresh) \in g[stack[Len(stack)]])
    BY <1>3, <1>5, <1>6, <2>1
  <2>3. Searching(g, n, k + 1, Append(stack, Least(fresh)), visited \cup {Least(fresh)}, order)
    BY <1>2, <2>2, SearchPushes
  <2>. QED BY <1>4, <1>7, <2>3
<1>8. CASE fresh = {} /\ stack # <<>>
  <2>1. g[stack[Len(stack)]] \subseteq visited
    BY <1>3, <1>8
  <2>2. Searching(g, n, k + 1, SubSeq(stack, 1, Len(stack) - 1), visited,
                  Append(order, stack[Len(stack)]))
    BY <1>2, <1>5, <1>8, <2>1, SearchPops
  <2>. QED BY <1>4, <1>8, <2>2
<1>9. CASE fresh = {} /\ stack = <<>>
  <2>1. visited = 1..n
    BY <1>2, <1>3, <1>9
  <2>2. Searching(g, n, k + 1, stack, visited, order)
    BY <1>2, <1>5, <1>9, <2>1 DEF Searching, Turns
  <2>. QED BY <1>1, <1>4, <1>9, <2>2
<1>. QED BY <1>7, <1>8, <1>9

\* The order in which the nodes finish: each once, and what a node leads to before
\* something that leads to the node and back.
LEMMA FinishingOrderRight ==
  ASSUME NEW n, NEW g, Graph(g, n)
  PROVE  LET order == FinishingOrder(g) IN
         /\ order \in Seq(1..n) /\ Distinct(order)
         /\ \A x \in 1..n : Holds(order, x)
         /\ \A x \in 1..n : Outlasted(g, order, x)
<1>0. PICK m : m = 2 * n
  OBVIOUS
<1> DEFINE E(f, k) == IF k = 0 THEN SearchStart ELSE Turn(g, f[k - 1])
           Solves(f) == f = [k \in 0..m |-> E(f, k)]
           step == [k \in 1..m |-> [s \in SearchStates(n) |-> Turn(g, s)]]
           After == CHOOSE f : Solves(f)
<1>1. n \in Nat /\ m \in Nat /\ Len(g) = n
  <2>1. n \in Nat /\ DOMAIN g = 1..n
    BY DEF Graph
  <2>2. g \in Seq(SUBSET (1..n)) /\ Len(g) = n
    BY <2>1, LenProperties, SeqDef DEF Graph
  <2>. QED BY <1>0, <2>1, <2>2
<1>2. SearchStart \in SearchStates(n)
  BY DEF SearchStart, SearchStates
<1>3. \E f : Solves(f)
  <2>1. step \in [1..m -> [SearchStates(n) -> SearchStates(n)]]
    BY TurnTyped
  <2>2. PICK f \in [0..m -> SearchStates(n)] :
           f[0] = SearchStart /\ \A k \in 1..m : f[k] = step[k][f[k - 1]]
    <3> HIDE DEF step
    <3>1. Iterates(m, SearchStates(n), SearchStart, step)
      BY <1>1, <1>2, <2>1, Iteration
    <3>. QED BY <3>1 DEF Iterates
  <2>3. ASSUME NEW k \in 0..m PROVE f[k] = E(f, k)
    <3>1. CASE k = 0
      BY <2>2, <3>1
    <3>2. CASE k \in 1..m
      <4>1. f[k] = step[k][f[k - 1]] /\ f[k - 1] \in SearchStates(n)
        BY <1>1, <2>2, <3>2
      <4>2. f[k] = Turn(g, f[k - 1])
        BY <3>2, <4>1
      <4>. QED BY <3>2, <4>2
    <3>. QED BY <1>1, <3>1, <3>2
  <2>4. Solves(f)
    BY <2>3
  <2>. QED BY <2>4
<1>4. Solves(After)
  <2> HIDE DEF Solves
  <2>. QED BY <1>3
<1>5. FinishingOrder(g) = After[m].order
  BY <1>0, <1>1, Zenon DEF FinishingOrder, SearchStart
<1> HIDE DEF After
<1>6. \A k \in 0..m : After[k] = E(After, k)
  BY <1>4
<1> DEFINE T == {k \in 0..m : /\ After[k] \in SearchStates(n)
                                   /\ Searching(g, n, k, After[k].stack, After[k].visited, After[k].order)}
<1>7. 0 \in T
  <2>1. 0 \in 0..m
    BY <1>1
  <2>3. After[0] = SearchStart
    BY <1>6, <2>1
  <2>4. /\ SearchStart.stack = <<>> /\ SearchStart.visited = {} /\ SearchStart.order = <<>>
    BY DEF SearchStart
  <2>2. Searching(g, n, 0, <<>>, {}, <<>>)
    BY SearchBegins
  <2>. QED BY <1>2, <2>1, <2>2, <2>3, <2>4
<1>8. \A k \in 0..(m - 1) : k \in T => k + 1 \in T
  <2> TAKE k \in 0..(m - 1)
  <2> HAVE k \in T
  <2>1. k \in Nat /\ k + 1 \in 0..m /\ k + 1 # 0 /\ (k + 1) - 1 = k
    BY <1>1
  <2>2. After[k + 1] = Turn(g, After[k])
    BY <1>6, <2>1
  <2>. QED BY <2>1, <2>2, TurnTyped, TurnSearches
<1>9. m \in T
  <2> HIDE DEF T
  <2>1. 0 \in Int /\ m \in Int
    BY <1>1
  <2>2. 0..m \subseteq T
    BY <1>7, <1>8, <2>1, IntervalInduction, Zenon
  <2>. QED BY <1>1, <2>2
<1>10. PICK stack, visited, order :
          stack = After[m].stack /\ visited = After[m].visited /\ order = After[m].order
  OBVIOUS
<1>11. Searching(g, n, 2 * n, stack, visited, order)
  BY <1>0, <1>9, <1>10
<1>12. Len(stack) = 0 /\ visited = 1..n
  <2>1. /\ stack \in Seq(1..n) /\ order \in Seq(1..n) /\ visited \in SUBSET (1..n)
        /\ Len(stack) \in Nat /\ Len(order) \in Nat
    BY <1>11 DEF Searching, Lists
  <2>2. Cardinality(1..n) = n /\ IsFiniteSet(1..n)
    BY <1>1, FS_Interval
  <2>3. Cardinality(visited) <= n /\ (Cardinality(visited) = n => visited = 1..n)
    BY <2>1, <2>2, FS_Subset
  <2>4. Cardinality(visited) = Len(stack) + Len(order)
    BY <1>11 DEF Searching, Marks
  <2>5. CASE Len(stack) + 2 * Len(order) = 2 * n
    <3>1. PICK a \in Nat, b \in Nat : a = Len(stack) /\ b = Len(order)
      BY <2>1
    <3>2. a + 2 * b = 2 * n /\ a + b <= n
      BY <2>3, <2>4, <2>5, <3>1
    <3>3. a = 0 /\ b = n
      BY <1>1, <3>2
    <3>. QED BY <1>1, <2>3, <2>4, <3>1, <3>3
  <2>. QED BY <2>5, <1>11 DEF Searching, Turns
<1>13. order \in Seq(1..n) /\ Distinct(order) /\ \A x \in 1..n : Holds(order, x)
  BY <1>11, <1>12 DEF Searching, Lists, Marks, Holds
<1>14. ASSUME NEW x \in 1..n PROVE Outlasted(g, order, x)
  <2>1. PICK j \in 1..Len(order) : order[j] = x
    BY <1>13 DEF Holds
  <2>. QED BY <1>11, <1>12, <2>1 DEF Searching, Settled
<1>. QED BY <1>5, <1>10, <1>13, <1>14

(***************************************************************************)
(* The second search.                                                      *)
(***************************************************************************)

Component(g, x) == {y \in DOMAIN g : Both(g, x, y)}

GatherStates(n) == [stack : SUBSET (1..n), members : SUBSET (1..n)]

LEMMA GatherTyped ==
  ASSUME NEW n, NEW e, Graph(e, n), NEW taken, NEW s \in GatherStates(n)
  PROVE  Gather(e, taken, s) \in GatherStates(n)
<1>1. PICK stack, members : stack = s.stack /\ members = s.members
  OBVIOUS
<1>2. stack \in SUBSET (1..n) /\ members \in SUBSET (1..n) /\ n \in Nat
  BY <1>1 DEF GatherStates, Graph
<1>3. CASE stack = {}
  BY <1>1, <1>3 DEF Gather
<1>4. CASE stack # {}
  <2>1. Least(stack) \in stack
    BY <1>2, <1>4, LeastOne
  <2>2. e[Least(stack)] \in SUBSET (1..n)
    BY <1>2, <2>1 DEF Graph
  <2>3. PICK fresh : fresh = e[Least(stack)] \ (members \cup taken)
    OBVIOUS
  <2>4. Gather(e, taken, s) =
          [stack |-> (stack \ {Least(stack)}) \cup fresh, members |-> members \cup fresh]
    BY <1>1, <1>4, <2>3, Zenon DEF Gather
  <2>5. /\ (stack \ {Least(stack)}) \cup fresh \in SUBSET (1..n)
        /\ members \cup fresh \in SUBSET (1..n)
    BY <1>2, <2>2, <2>3
  <2>. QED BY <2>4, <2>5 DEF GatherStates
<1>. QED BY <1>3, <1>4

\* The turns of the loop one after the other.
LEMMA CollectTurns ==
  ASSUME NEW n, NEW e, Graph(e, n), NEW start \in 1..n, NEW taken
  PROVE  \E f : /\ Collect(e, start, taken) = f[n].members
               /\ f[0] = [stack |-> {start}, members |-> {start}]
               /\ \A k \in 0..(n - 1) : f[k + 1] = Gather(e, taken, f[k])
<1> DEFINE a == [stack |-> {start}, members |-> {start}]
           E(f, k) == IF k = 0 THEN a ELSE Gather(e, taken, f[k - 1])
           Solves(f) == f = [k \in 0..n |-> E(f, k)]
           step == [k \in 1..n |-> [s \in GatherStates(n) |-> Gather(e, taken, s)]]
           After == CHOOSE f : Solves(f)
<1>1. n \in Nat /\ Len(e) = n
  <2>1. n \in Nat /\ DOMAIN e = 1..n
    BY DEF Graph
  <2>2. e \in Seq(SUBSET (1..n)) /\ Len(e) = n
    BY <2>1, LenProperties, SeqDef DEF Graph
  <2>. QED BY <2>1, <2>2
<1>2. a \in GatherStates(n)
  BY DEF GatherStates
<1>3. \E f : Solves(f)
  <2>1. step \in [1..n -> [GatherStates(n) -> GatherStates(n)]]
    BY GatherTyped
  <2>2. PICK f \in [0..n -> GatherStates(n)] :
           f[0] = a /\ \A k \in 1..n : f[k] = step[k][f[k - 1]]
    <3> HIDE DEF step, a
    <3>1. Iterates(n, GatherStates(n), a, step)
      BY <1>1, <1>2, <2>1, Iteration
    <3>. QED BY <3>1 DEF Iterates
  <2> HIDE DEF a
  <2>3. ASSUME NEW k \in 0..n PROVE f[k] = E(f, k)
    <3>1. CASE k = 0
      BY <2>2, <3>1
    <3>2. CASE k \in 1..n
      <4>1. f[k] = step[k][f[k - 1]] /\ f[k - 1] \in GatherStates(n)
        BY <1>1, <2>2, <3>2
      <4>2. f[k] = Gather(e, taken, f[k - 1])
        BY <3>2, <4>1
      <4>. QED BY <3>2, <4>2
    <3>. QED BY <1>1, <3>1, <3>2
  <2>4. Solves(f)
    BY <2>3
  <2>. QED BY <2>4
<1>4. Solves(After)
  <2> HIDE DEF Solves
  <2>. QED BY <1>3
<1>5. Collect(e, start, taken) = After[n].members
  BY <1>1, Zenon DEF Collect
<1> HIDE DEF After, a
<1>6. \A k \in 0..n : After[k] = E(After, k)
  BY <1>4
<1>7. After[0] = a
  BY <1>1, <1>6
<1>8. \A k \in 0..(n - 1) : After[k + 1] = Gather(e, taken, After[k])
  <2> TAKE k \in 0..(n - 1)
  <2>1. k + 1 \in 0..n /\ k + 1 # 0 /\ (k + 1) - 1 = k
    BY <1>1
  <2>. QED BY <1>6, <2>1
<1>. QED BY <1>5, <1>7, <1>8 DEF a

\* What is true of the nodes gathered after k turns: all are of the component, and
\* those that have left the stack have brought in what leads to them.
Gathering(g, n, start, taken, k, stack, members) ==
  /\ members \in SUBSET (1..n) /\ stack \in SUBSET members /\ start \in members
  /\ \A x \in members \ stack : \A w \in 1..n : x \in g[w] => w \in members \cup taken
  /\ \A x \in members : Both(g, start, x)
  /\ stack = {} \/ Cardinality(members \ stack) = k

LEMMA GatherGathers ==
  ASSUME NEW n, NEW g, Graph(g, n), NEW start \in 1..n, NEW taken, NEW k \in Nat,
         \A w \in (1..n) \ taken : Leads(g, w, start) => Both(g, start, w),
         NEW s \in GatherStates(n),
         Gathering(g, n, start, taken, k, s.stack, s.members)
  PROVE  LET t == Gather(Transposed(g), taken, s)
         IN Gathering(g, n, start, taken, k + 1, t.stack, t.members)
<1> DEFINE e == Transposed(g)
<1>1. PICK stack, members : stack = s.stack /\ members = s.members
  OBVIOUS
<1>2. /\ stack \in SUBSET (1..n) /\ members \in SUBSET (1..n) /\ n \in Nat
      /\ Gathering(g, n, start, taken, k, stack, members)
  BY <1>1 DEF GatherStates, Graph
<1>3. CASE stack = {}
  <2>1. Gather(e, taken, s) = s
    BY <1>1, <1>3 DEF Gather
  <2>2. Gathering(g, n, start, taken, k + 1, stack, members)
    BY <1>2, <1>3 DEF Gathering
  <2>. QED BY <1>1, <2>1, <2>2
<1>4. CASE stack # {}
  <2>1. Least(stack) \in stack
    BY <1>2, <1>4, LeastOne
  <2>2. PICK x : x = Least(stack)
    OBVIOUS
  <2>3. PICK fresh : fresh = e[x] \ (members \cup taken)
    OBVIOUS
  <2>4. Gather(e, taken, s) =
          [stack |-> (stack \ {x}) \cup fresh, members |-> members \cup fresh]
    BY <1>1, <1>4, <2>2, <2>3, Zenon DEF Gather
  <2>5. /\ e \in [1..n -> SUBSET (1..n)] /\ x \in 1..n /\ x \in stack
        /\ \A w \in 1..n : w \in e[x] <=> x \in g[w]
        /\ DOMAIN g = 1..n
    BY <1>2, <2>1, <2>2, TransposedGraph DEF Graph
  <2> HIDE DEF e
  <2>6. fresh \in SUBSET (1..n)
    BY <2>3, <2>5
  <2>7. \A w \in 1..n : x \in g[w] => w \in (members \cup fresh) \cup taken
    BY <2>3, <2>5
  <2>8. (members \cup fresh) \ ((stack \ {x}) \cup fresh) = (members \ stack) \cup {x}
    BY <1>2, <2>3, <2>5 DEF Gathering
  <2>9. ASSUME NEW w \in fresh PROVE Both(g, start, w)
    <3>1. w \in 1..n /\ x \in g[w] /\ w \notin taken
      BY <2>3, <2>5, <2>6
    <3>2. Leads(g, w, x)
      BY <2>5, <3>1, LeadsEdge
    <3>3. Leads(g, x, start)
      BY <1>2, <2>5 DEF Gathering, Both
    <3>4. Leads(g, w, start)
      BY <3>2, <3>3, LeadsOn
    <3>. QED BY <3>1, <3>4
  <2>10. Cardinality((members \ stack) \cup {x}) = k + 1
    <3>1. IsFiniteSet(members \ stack)
      <4>1. IsFiniteSet(1..n) /\ members \ stack \in SUBSET (1..n)
        BY <1>2, FS_Interval
      <4>. QED BY <4>1, FS_Subset
    <3>2. x \notin members \ stack /\ Cardinality(members \ stack) = k
      BY <1>2, <1>4, <2>5 DEF Gathering
    <3>. QED BY <3>1, <3>2, FS_AddElement
  <2>11. \A y \in (members \ stack) \cup {x} : \A w \in 1..n :
            y \in g[w] => w \in (members \cup fresh) \cup taken
    BY <1>2, <2>7 DEF Gathering
  <2>12. Gathering(g, n, start, taken, k + 1, (stack \ {x}) \cup fresh, members \cup fresh)
    BY <1>2, <2>6, <2>8, <2>9, <2>10, <2>11 DEF Gathering
  <2>. QED BY <2>4, <2>12 DEF e
<1>. QED BY <1>3, <1>4

\* The component that is collected, if none of it was taken and what leads into it
\* from outside was.
LEMMA CollectRight ==
  ASSUME NEW n, NEW g, Graph(g, n), NEW start \in 1..n, NEW taken,
         \A w \in (1..n) \ taken : Leads(g, w, start) => Both(g, start, w),
         \A w \in taken : ~Both(g, start, w)
  PROVE  Collect(Transposed(g), start, taken) = Component(g, start)
<1>1. n \in Nat /\ Graph(Transposed(g), n) /\ DOMAIN g = 1..n
  BY TransposedGraph DEF Graph
<1>2. PICK f : /\ Collect(Transposed(g), start, taken) = f[n].members
               /\ f[0] = [stack |-> {start}, members |-> {start}]
               /\ \A k \in 0..(n - 1) : f[k + 1] = Gather(Transposed(g), taken, f[k])
  BY <1>1, CollectTurns
<1> DEFINE T == {k \in 0..n : /\ f[k] \in GatherStates(n)
                             /\ Gathering(g, n, start, taken, k, f[k].stack, f[k].members)}
<1>3. 0 \in T
  <2>1. Cardinality({start} \ {start}) = 0
    BY FS_EmptySet
  <2>2. Gathering(g, n, start, taken, 0, {start}, {start})
    BY <2>1, LeadsSelf DEF Gathering
  <2>3. f[0] \in GatherStates(n) /\ f[0].stack = {start} /\ f[0].members = {start}
    BY <1>2 DEF GatherStates
  <2>4. Gathering(g, n, start, taken, 0, f[0].stack, f[0].members)
    BY <2>2, <2>3
  <2>5. 0 \in 0..n
    BY <1>1
  <2>. QED BY <2>3, <2>4, <2>5
<1>4. \A k \in 0..(n - 1) : k \in T => k + 1 \in T
  <2> TAKE k \in 0..(n - 1)
  <2> HAVE k \in T
  <2>1. k \in Nat /\ k + 1 \in 0..n /\ f[k + 1] = Gather(Transposed(g), taken, f[k])
    BY <1>1, <1>2
  <2>2. f[k + 1] \in GatherStates(n)
    BY <1>1, <2>1, GatherTyped
  <2>3. Gathering(g, n, start, taken, k + 1, f[k + 1].stack, f[k + 1].members)
    BY <2>1, GatherGathers
  <2>. QED BY <2>1, <2>2, <2>3
<1>5. n \in T
  <2> HIDE DEF T
  <2>1. 0 \in Int /\ n \in Int
    BY <1>1
  <2>2. 0..n \subseteq T
    BY <1>3, <1>4, <2>1, IntervalInduction, Zenon
  <2>. QED BY <1>1, <2>2
<1>6. PICK stack, members : stack = f[n].stack /\ members = f[n].members
  OBVIOUS
<1>7. Gathering(g, n, start, taken, n, stack, members)
  BY <1>5, <1>6
<1>8. stack = {}
  <2>1. IsFiniteSet(1..n) /\ Cardinality(1..n) = n /\ members \ stack \in SUBSET (1..n)
    BY <1>1, <1>7, FS_Interval DEF Gathering
  <2>2. Cardinality(members \ stack) = n => members \ stack = 1..n
    BY <2>1, FS_Subset
  <2>. QED BY <1>7, <2>2 DEF Gathering
<1>9. ASSUME NEW y \in 1..n, Both(g, start, y) PROVE y \in members
  <2> DEFINE S == {w \in 1..n : Leads(g, start, w) => w \in members}
             rest == (1..n) \ S
  <2>1. ASSUME NEW w \in rest, NEW v \in g[w] PROVE v \in rest
    <3>1. w \in 1..n /\ v \in 1..n /\ Leads(g, start, w) /\ w \notin members
      BY DEF Graph
    <3>2. Leads(g, w, v)
      BY <1>1, <3>1, LeadsEdge
    <3>3. Leads(g, start, v)
      BY <3>1, <3>2, LeadsOn
    <3>4. ASSUME v \in members PROVE FALSE
      <4>1. w \in taken
        BY <1>7, <1>8, <3>1, <3>4 DEF Gathering
      <4>2. Leads(g, v, start)
        BY <1>7, <3>4 DEF Gathering, Both
      <4>3. Both(g, start, w)
        BY <3>1, <3>2, <4>2, LeadsOn DEF Both
      <4>. QED BY <4>1, <4>3
    <3>. QED BY <3>1, <3>3, <3>4
  <2>2. ASSUME y \in rest PROVE start \in rest
    <3>1. \A w \in rest : g[w] \subseteq rest
      BY <2>1
    <3>2. rest \in SUBSET DOMAIN g
      BY <1>1
    <3> HIDE DEF rest
    <3>. QED BY <1>9, <2>2, <3>1, <3>2 DEF Both, Leads
  <2>3. start \in S
    BY <1>7 DEF Gathering
  <2>. QED BY <1>9, <2>2, <2>3 DEF Both
<1>10. \A y \in members : y \in 1..n /\ Both(g, start, y)
  BY <1>7 DEF Gathering
<1>11. members = Component(g, start)
  BY <1>1, <1>9, <1>10 DEF Component
<1>. QED BY <1>2, <1>6, <1>11

LEMMA CollectTyped ==
  ASSUME NEW n, NEW e, Graph(e, n), NEW start \in 1..n, NEW taken
  PROVE  Collect(e, start, taken) \in SUBSET (1..n)
<1>1. n \in Nat
  BY DEF Graph
<1>2. PICK f : /\ Collect(e, start, taken) = f[n].members
               /\ f[0] = [stack |-> {start}, members |-> {start}]
               /\ \A k \in 0..(n - 1) : f[k + 1] = Gather(e, taken, f[k])
  BY CollectTurns
<1> DEFINE T == {k \in 0..n : f[k] \in GatherStates(n)}
<1>3. 0 \in T
  <2>1. 0 \in 0..n
    BY <1>1
  <2>. QED BY <1>2, <2>1 DEF GatherStates
<1>4. \A k \in 0..(n - 1) : k \in T => k + 1 \in T
  <2> TAKE k \in 0..(n - 1)
  <2> HAVE k \in T
  <2>1. k + 1 \in 0..n /\ f[k + 1] = Gather(e, taken, f[k])
    BY <1>1, <1>2
  <2>. QED BY <2>1, GatherTyped
<1>5. n \in T
  <2> HIDE DEF T
  <2>1. 0 \in Int /\ n \in Int
    BY <1>1
  <2>2. 0..n \subseteq T
    BY <1>3, <1>4, <2>1, IntervalInduction, Zenon
  <2>. QED BY <1>1, <2>2
<1>. QED BY <1>2, <1>5 DEF GatherStates

\* The next component that is found.
Extended(e, start, found) ==
  IF start \in UNION found THEN found ELSE found \cup {Collect(e, start, UNION found)}

LEMMA ComponentsTurns ==
  ASSUME NEW n, NEW e, Graph(e, n), NEW order \in Seq(1..n)
  PROVE  \E f : /\ Components(e, order) = f[Len(order)]
               /\ f[0] = {}
               /\ \A k \in 0..(Len(order) - 1) :
                    f[k + 1] = Extended(e, order[Len(order) - k], f[k])
<1>0. PICK m \in Nat : m = Len(order)
  OBVIOUS
<1> DEFINE S == SUBSET SUBSET (1..n)
           E(f, k) == IF k = 0 THEN {} ELSE Extended(e, order[m - k + 1], f[k - 1])
           Solves(f) == f = [k \in 0..m |-> E(f, k)]
           step == [k \in 1..m |-> [found \in S |-> Extended(e, order[m - k + 1], found)]]
           Found == CHOOSE f : Solves(f)
<1>3. \E f : Solves(f)
  <2>1. step \in [1..m -> [S -> S]]
    <3>1. ASSUME NEW k \in 1..m, NEW found \in S
          PROVE  Extended(e, order[m - k + 1], found) \in S
      <4>1. order[m - k + 1] \in 1..n
        <5>1. m - k + 1 \in 1..Len(order) /\ n \in Nat
          BY <1>0 DEF Graph
        <5>. QED BY <5>1
      <4>2. Collect(e, order[m - k + 1], UNION found) \in SUBSET (1..n)
        BY <4>1, CollectTyped
      <4>. QED BY <4>2 DEF Extended
    <3>. QED BY <3>1
  <2>2. PICK f \in [0..m -> S] : f[0] = {} /\ \A k \in 1..m : f[k] = step[k][f[k - 1]]
    <3>1. {} \in S
      OBVIOUS
    <3> HIDE DEF step, S
    <3>2. Iterates(m, S, {}, step)
      BY <2>1, <3>1, Iteration
    <3>. QED BY <3>2 DEF Iterates
  <2>3. ASSUME NEW k \in 0..m PROVE f[k] = E(f, k)
    <3>1. CASE k = 0
      BY <2>2, <3>1
    <3>2. CASE k \in 1..m
      <4>1. f[k] = step[k][f[k - 1]] /\ f[k - 1] \in S
        <5> HIDE DEF S, step
        <5>. QED BY <2>2, <3>2
      <4>2. f[k] = Extended(e, order[m - k + 1], f[k - 1])
        <5> HIDE DEF S
        <5>. QED BY <3>2, <4>1
      <4>. QED BY <3>2, <4>2
    <3>. QED BY <3>1, <3>2
  <2>4. Solves(f)
    BY <2>3
  <2>. QED BY <2>4
<1>4. Solves(Found)
  <2> HIDE DEF Solves
  <2>. QED BY <1>3
<1>5. Components(e, order) = Found[m]
  BY <1>0, Zenon DEF Components, Extended
<1> HIDE DEF Found
<1>6. \A k \in 0..m : Found[k] = E(Found, k)
  BY <1>4
<1>7. Found[0] = {}
  BY <1>6
<1>8. \A k \in 0..(m - 1) : Found[k + 1] = Extended(e, order[m - k], Found[k])
  <2> TAKE k \in 0..(m - 1)
  <2>1. k + 1 \in 0..m /\ k + 1 # 0 /\ (k + 1) - 1 = k /\ m - (k + 1) + 1 = m - k
    OBVIOUS
  <2>. QED BY <1>6, <2>1
<1>. QED BY <1>0, <1>5, <1>7, <1>8

\* The components are the sets of nodes that lead to each other.
LEMMA ComponentsRight ==
  ASSUME NEW n, NEW g, Graph(g, n)
  PROVE  Components(Transposed(g), FinishingOrder(g)) = {Component(g, x) : x \in 1..n}
<1>1. PICK order : order = FinishingOrder(g)
  OBVIOUS
<1>2. /\ order \in Seq(1..n) /\ Distinct(order)
      /\ \A x \in 1..n : Holds(order, x)
      /\ \A x \in 1..n : Outlasted(g, order, x)
  BY <1>1, FinishingOrderRight
<1>3. PICK m \in Nat : m = Len(order)
  BY <1>2
<1>4. Graph(Transposed(g), n) /\ n \in Nat /\ DOMAIN g = 1..n
  BY TransposedGraph DEF Graph
<1>5. PICK f : /\ Components(Transposed(g), order) = f[m]
               /\ f[0] = {}
               /\ \A k \in 0..(m - 1) : f[k + 1] = Extended(Transposed(g), order[m - k], f[k])
  <2>1. PICK f : /\ Components(Transposed(g), order) = f[Len(order)]
                 /\ f[0] = {}
                 /\ \A k \in 0..(Len(order) - 1) :
                      f[k + 1] = Extended(Transposed(g), order[Len(order) - k], f[k])
    BY <1>2, <1>4, ComponentsTurns
  <2>. QED BY <1>3, <2>1
<1>6. \A i \in 1..m : order[i] \in 1..n
  BY <1>2, <1>3, <1>4
<1> DEFINE Last(k) == {Component(g, order[i]) : i \in (m - k + 1)..m}
           T == {k \in 0..m : f[k] = Last(k)}
<1>7. 0 \in T
  <2>1. Last(0) = {}
    OBVIOUS
  <2>. QED BY <1>5, <2>1
<1>8. ASSUME NEW k \in 0..(m - 1), k \in T PROVE k + 1 \in T
  <2>1. PICK start : start = order[m - k]
    OBVIOUS
  <2>2. start \in 1..n /\ m - k \in 1..m
    BY <1>6, <2>1
  <2>3. f[k] = Last(k) /\ f[k + 1] = Extended(Transposed(g), start, f[k])
    BY <1>5, <1>8, <2>1
  <2>4. \A i : i \in (m - (k + 1) + 1)..m <=> i = m - k \/ i \in (m - k + 1)..m
    OBVIOUS
  <2>5. Last(k + 1) = Last(k) \cup {Component(g, start)}
    BY <2>1, <2>4
  <2>6. \A w : w \in UNION Last(k) <=>
               w \in 1..n /\ \E i \in (m - k + 1)..m : Both(g, order[i], w)
    BY <1>4 DEF Component
  <2>7. \A i \in (m - k + 1)..m : i \in 1..m
    OBVIOUS
  <2> HIDE DEF Last
  <2>8. CASE start \in UNION Last(k)
    <3>1. PICK i \in (m - k + 1)..m : Both(g, order[i], start)
      BY <2>6, <2>8
    <3>2. Both(g, start, order[i])
      BY <3>1 DEF Both
    <3>3. \A y : Both(g, order[i], y) <=> Both(g, start, y)
      BY <3>1, <3>2, BothOn
    <3>4. Component(g, start) = Component(g, order[i])
      BY <3>3 DEF Component
    <3>5. Component(g, start) \in Last(k)
      BY <3>4 DEF Last
    <3>6. f[k + 1] = f[k]
      BY <2>3, <2>8 DEF Extended
    <3>. QED BY <2>3, <2>5, <3>5, <3>6
  <2>9. CASE start \notin UNION Last(k)
    <3>1. \A w \in UNION Last(k) : ~Both(g, start, w)
      <4> SUFFICES ASSUME NEW w, w \in UNION Last(k), Both(g, start, w) PROVE FALSE
        OBVIOUS
      <4>1. PICK i \in (m - k + 1)..m : Both(g, order[i], w)
        BY <2>6
      <4>2. Both(g, w, start)
        BY DEF Both
      <4>3. Both(g, order[i], start)
        BY <4>1, <4>2, BothOn
      <4>. QED BY <2>2, <2>6, <2>9, <4>3
    <3>2. ASSUME NEW w \in (1..n) \ UNION Last(k), Leads(g, w, start) PROVE Both(g, start, w)
      <4>1. PICK i \in (m - k)..m : Both(g, w, order[i])
        BY <1>2, <1>3, <2>1, <2>2, <3>2 DEF Outlasted
      <4>2. CASE i = m - k
        BY <2>1, <4>1, <4>2 DEF Both
      <4>3. CASE i \in (m - k + 1)..m
        <5>1. Both(g, order[i], w)
          BY <4>1 DEF Both
        <5>. QED BY <2>6, <3>2, <4>3, <5>1
      <4>. QED BY <4>2, <4>3
    <3>3. Collect(Transposed(g), start, UNION Last(k)) = Component(g, start)
      BY <2>2, <3>1, <3>2, CollectRight
    <3>4. f[k + 1] = f[k] \cup {Component(g, start)}
      BY <2>3, <2>9, <3>3 DEF Extended
    <3>. QED BY <2>3, <2>5, <3>4
  <2>. QED BY <2>8, <2>9
<1>9. m \in T
  <2> HIDE DEF T
  <2>1. 0 \in Int /\ m \in Int
    OBVIOUS
  <2>2. 0..m \subseteq T
    BY <1>7, <1>8, <2>1, IntervalInduction, Zenon
  <2>. QED BY <2>2
<1>10. Last(m) = {Component(g, x) : x \in 1..n}
  <2>1. ASSUME NEW x \in 1..n PROVE Component(g, x) \in Last(m)
    <3>1. PICK i \in 1..m : order[i] = x
      BY <1>2, <1>3 DEF Holds
    <3>. QED BY <3>1
  <2>2. ASSUME NEW i \in (m - m + 1)..m PROVE order[i] \in 1..n
    BY <1>6
  <2>. QED BY <2>1, <2>2
<1>. QED BY <1>1, <1>5, <1>9, <1>10

(***************************************************************************)
(* The nodes and the entries they stand for.                               *)
(***************************************************************************)

Numbering(names, n, S) ==
  /\ n \in Nat /\ names \in [1..n -> S]
  /\ \A i, j \in 1..n : names[i] = names[j] => i = j
  /\ \A x \in S : \E i \in 1..n : names[i] = x

LEMMA IndexedRight ==
  ASSUME NEW S, IsFiniteSet(S)
  PROVE  Numbering(Indexed(S), Cardinality(S), S)
<1>1. PICK n : n = Cardinality(S)
  OBVIOUS
<1>2. n \in Nat /\ ExistsBijection(1..n, S)
  BY <1>1, FS_CardinalityType
<1>3. PICK f : f \in Bijection(1..n, S)
  BY <1>2 DEF ExistsBijection
<1>4. f \in Injection(1..n, S)
  BY <1>3 DEF Bijection
<1>5. \E g \in [1..n -> S] : \A i, j \in 1..n : g[i] = g[j] => i = j
  BY <1>4 DEF Injection, IsInjective
<1>6. Indexed(S) = CHOOSE g \in [1..n -> S] : \A i, j \in 1..n : g[i] = g[j] => i = j
  BY <1>1, Zenon DEF Indexed
<1>7. Indexed(S) \in [1..n -> S] /\ \A i, j \in 1..n : Indexed(S)[i] = Indexed(S)[j] => i = j
  BY <1>5, <1>6, Zenon
<1>8. PICK names : names = Indexed(S)
  OBVIOUS
<1>9. names \in Injection(1..n, S)
  BY <1>7, <1>8 DEF Injection, IsInjective
<1>10. names \in Surjection(1..n, S)
  <2>1. IsFiniteSet(1..n) /\ Cardinality(1..n) = n
    BY <1>2, FS_Interval
  <2>. QED BY <1>1, <1>9, <2>1, FS_Injection
<1>11. \A x \in S : \E i \in 1..n : names[i] = x
  BY <1>10 DEF Surjection
<1>. QED BY <1>1, <1>2, <1>7, <1>8, <1>11 DEF Numbering

\* The resolved relations lead from one entry to another, finitely many of them.
Edged(list) ==
  /\ IsFiniteSet(Resolved(list))
  /\ \A i \in Resolved(list) : list[i].source # list[i].target

LEMMA NamesFinite ==
  ASSUME NEW list, IsFiniteSet(Resolved(list)) PROVE IsFiniteSet(Names(list))
<1> DEFINE R == Resolved(list)
           sources == [i \in R |-> list[i].source]
           targets == [i \in R |-> list[i].target]
           S == {list[i].source : i \in R}
           T == {list[i].target : i \in R}
<1>1. sources \in Surjection(R, S) /\ targets \in Surjection(R, T)
  BY DEF Surjection
<1>2. IsFiniteSet(S) /\ IsFiniteSet(T)
  <2> HIDE DEF sources, targets, S, T, R
  <2>1. IsFiniteSet(R)
    BY DEF R
  <2>. QED BY <1>1, <2>1, FS_Surjection
<1>. QED BY <1>2, FS_Union DEF Names

LEMMA AdjacencyGraph ==
  ASSUME NEW list, NEW n, NEW names, Numbering(names, n, Names(list))
  PROVE  /\ Graph(Adjacency(list, names), n)
         /\ \A a, b \in 1..n : b \in Adjacency(list, names)[a] <=>
              \E i \in Resolved(list) : list[i].source = names[a] /\ list[i].target = names[b]
<1>1. DOMAIN names = 1..n /\ n \in Nat
  BY DEF Numbering
<1>2. Adjacency(list, names) =
        [a \in 1..n |-> {b \in 1..n : \E i \in Resolved(list) :
                           list[i].source = names[a] /\ list[i].target = names[b]}]
  BY <1>1 DEF Adjacency
<1>. QED BY <1>1, <1>2 DEF Graph

\* An entry reaches another if its node leads to the other one's.
LEMMA ReachesLeads ==
  ASSUME NEW list, NEW n, NEW names, Numbering(names, n, Names(list)),
         NEW a \in 1..n, NEW b \in 1..n
  PROVE  Reaches(Enclosed(list), names[a], names[b]) <=> Leads(Adjacency(list, names), a, b)
<1>1. PICK g : g = Adjacency(list, names)
  OBVIOUS
<1>2. /\ Graph(g, n) /\ DOMAIN g = 1..n
      /\ \A x, y \in 1..n : y \in g[x] <=>
           \E i \in Resolved(list) : list[i].source = names[x] /\ list[i].target = names[y]
  BY <1>1, AdjacencyGraph DEF Graph
<1>3. ASSUME Reaches(Enclosed(list), names[a], names[b]) PROVE Leads(g, a, b)
  <2> SUFFICES ASSUME NEW S \in SUBSET (1..n), \A z \in S : g[z] \subseteq S, a \in S
               PROVE  b \in S
    BY <1>2 DEF Leads
  <2> DEFINE T == {names[z] : z \in S}
  <2>1. T \in SUBSET Names(list)
    BY DEF Numbering
  <2>2. ASSUME NEW i \in Resolved(list), list[i].source \in T PROVE list[i].target \in T
    <3>1. PICK z \in S : list[i].source = names[z]
      BY <2>2
    <3>2. list[i].target \in Names(list)
      BY DEF Names
    <3>3. PICK w \in 1..n : names[w] = list[i].target
      BY <3>2 DEF Numbering
    <3>4. w \in g[z]
      BY <1>2, <3>1, <3>3
    <3>. QED BY <3>3, <3>4
  <2>3. T \in Enclosed(list)
    BY <2>1, <2>2 DEF Enclosed
  <2>4. names[b] \in T
    <3>1. names[a] \in T
      OBVIOUS
    <3> HIDE DEF T
    <3>. QED BY <1>3, <2>3, <3>1 DEF Reaches
  <2>. QED BY <2>4 DEF Numbering
<1>4. ASSUME Leads(g, a, b) PROVE Reaches(Enclosed(list), names[a], names[b])
  <2> SUFFICES ASSUME NEW T \in Enclosed(list), names[a] \in T PROVE names[b] \in T
    BY DEF Reaches
  <2> DEFINE S == {z \in 1..n : names[z] \in T}
  <2>1. ASSUME NEW z \in S, NEW w \in g[z] PROVE w \in S
    <3>1. z \in 1..n /\ w \in 1..n
      BY <1>2 DEF Graph
    <3>2. PICK i \in Resolved(list) : list[i].source = names[z] /\ list[i].target = names[w]
      BY <1>2, <3>1
    <3>3. names[w] \in T
      BY <3>2 DEF Enclosed
    <3>. QED BY <3>1, <3>3
  <2>2. S \in SUBSET DOMAIN g /\ a \in S /\ \A z \in S : g[z] \subseteq S
    BY <1>2, <2>1
  <2>3. b \in S
    <3> HIDE DEF S
    <3>. QED BY <1>4, <2>2 DEF Leads
  <2>. QED BY <2>3
<1>. QED BY <1>1, <1>3, <1>4

LEMMA TwoMembers ==
  ASSUME NEW S, IsFiniteSet(S), NEW x \in S PROVE Cardinality(S) >= 2 <=> S # {x}
<1>1. Cardinality(S) \in Nat /\ (Cardinality(S) = 0 <=> S = {})
  BY FS_CardinalityType, FS_EmptySet
<1>2. Cardinality(S) = 1 <=> \E y : S = {y}
  BY FS_Singleton
<1>3. Cardinality({x}) = 1
  BY FS_Singleton
<1>. QED BY <1>1, <1>2, <1>3

\* In a component of more than one node an edge leads from each to another of it.
LEMMA EdgeInside ==
  ASSUME NEW n, NEW g, Graph(g, n), NEW a \in 1..n, NEW b \in 1..n, a # b, Both(g, a, b)
  PROVE  \E w \in g[a] : Both(g, a, w)
<1> SUFFICES ASSUME \A w \in g[a] : ~Both(g, a, w) PROVE FALSE
  OBVIOUS
<1>1. DOMAIN g = 1..n /\ \A z \in 1..n : g[z] \subseteq 1..n
  BY DEF Graph
<1> DEFINE S == {z \in 1..n : z = a \/ ~Leads(g, z, a)}
<1>2. ASSUME NEW z \in 1..n, z = a \/ ~Leads(g, z, a), NEW w \in g[z]
      PROVE  w \in 1..n /\ ~Leads(g, w, a)
  <2>1. w \in 1..n /\ Leads(g, z, w)
    BY <1>1, LeadsEdge
  <2>2. CASE z = a
    BY <2>1, <2>2 DEF Both
  <2>3. CASE ~Leads(g, z, a)
    BY <2>1, <2>3, LeadsOn
  <2>. QED BY <1>2, <2>1, <2>2, <2>3
<1>3. a \in S /\ S \in SUBSET DOMAIN g /\ \A z \in S : g[z] \subseteq S
  BY <1>1, <1>2
<1>4. b \in S
  <2> HIDE DEF S
  <2>. QED BY <1>3 DEF Both, Leads
<1>. QED BY <1>4 DEF Both

\* What mark_cycles finds is what reachability says.
LEMMA MarkCyclesRight ==
  ASSUME NEW list, Edged(list), NEW report,
         report.in_cycle = MarkCycles(list).inCycle, report.groups = MarkCycles(list).groups
  PROVE  Mutual(report, list, Enclosed(list))
<1> DEFINE n == Cardinality(Names(list))
           names == Indexed(Names(list))
           g == Adjacency(list, names)
           comps == Components(Backward(g), FinishingOrder(g))
           Joins(i, c) == \E x, y \in c : list[i].source = names[x] /\ list[i].target = names[y]
           Edges(c) == {i \in Resolved(list) : Joins(i, c)}
           cyclic == {c \in comps : Cardinality(c) >= 2}
           marked == UNION {Edges(c) : c \in cyclic}
           groups == {[members |-> {names[x] : x \in c}, edges |-> Cardinality(Edges(c))] :
                        c \in {c \in cyclic : Edges(c) # {}}}
<1>1. MarkCycles(list) = [inCycle |-> marked, groups |-> groups]
  BY Zenon DEF MarkCycles
<1>2. Numbering(names, n, Names(list))
  BY NamesFinite, IndexedRight DEF Edged
<1> HIDE DEF n, names
<1>3. /\ Graph(g, n) /\ DOMAIN g = 1..n
      /\ \A x, y \in 1..n : y \in g[x] <=>
           \E i \in Resolved(list) : list[i].source = names[x] /\ list[i].target = names[y]
  BY <1>2, AdjacencyGraph DEF Graph
<1>4. \A a, b \in 1..n : Reaches(Enclosed(list), names[a], names[b]) <=> Leads(g, a, b)
  BY <1>2, ReachesLeads
<1> HIDE DEF g
<1>5. comps = {Component(g, x) : x \in 1..n}
  BY <1>3, ComponentsRight DEF Backward
<1> HIDE DEF comps
<1> DEFINE Reach(x, y) == Reaches(Enclosed(list), x, y)
           Class(x) == {y \in Names(list) : Reach(x, y) /\ Reach(y, x)}
<1>6. ASSUME NEW i \in Resolved(list)
      PROVE  \E a, b \in 1..n : /\ list[i].source = names[a] /\ list[i].target = names[b]
                               /\ b \in g[a] /\ a # b /\ Leads(g, a, b)
  <2>1. list[i].source \in Names(list) /\ list[i].target \in Names(list)
    BY DEF Names
  <2>2. PICK a \in 1..n, b \in 1..n : names[a] = list[i].source /\ names[b] = list[i].target
    BY <1>2, <2>1 DEF Numbering
  <2>3. b \in g[a]
    BY <1>3, <2>2
  <2>4. Leads(g, a, b)
    BY <1>3, <2>3, LeadsEdge
  <2>. QED BY <2>2, <2>3, <2>4 DEF Edged
<1>7. ASSUME NEW c \in comps
      PROVE  /\ c \in SUBSET (1..n)
             /\ \E x \in 1..n : c = Component(g, x)
             /\ \A a \in c : c = Component(g, a)
             /\ \A a \in c : Cardinality(c) >= 2 <=> c # {a}
  <2>1. PICK x \in 1..n : c = Component(g, x)
    BY <1>5
  <2>2. c \in SUBSET (1..n)
    BY <1>3, <2>1 DEF Component
  <2>3. ASSUME NEW a \in c PROVE c = Component(g, a)
    <3>1. Both(g, x, a) /\ Both(g, a, x)
      BY <2>1 DEF Component, Both
    <3>2. \A y : Both(g, x, y) <=> Both(g, a, y)
      BY <3>1, BothOn
    <3>. QED BY <2>1, <3>2 DEF Component
  <2>4. IsFiniteSet(c)
    <3>1. IsFiniteSet(1..n)
      BY <1>2, FS_Interval DEF Numbering
    <3>. QED BY <2>2, <3>1, FS_Subset
  <2>. QED BY <2>1, <2>2, <2>3, <2>4, TwoMembers
<1>8. ASSUME NEW a \in 1..n
      PROVE  Component(g, a) \in comps /\ a \in Component(g, a)
  BY <1>3, <1>5, LeadsSelf DEF Component
<1>9. ASSUME NEW a \in 1..n
      PROVE  {names[x] : x \in Component(g, a)} = Class(names[a])
  <2>1. ASSUME NEW x \in Component(g, a) PROVE names[x] \in Class(names[a])
    BY <1>2, <1>3, <1>4 DEF Component, Both, Numbering
  <2>2. ASSUME NEW y \in Class(names[a]) PROVE \E x \in Component(g, a) : names[x] = y
    <3>1. PICK x \in 1..n : names[x] = y
      BY <1>2 DEF Numbering
    <3>2. x \in Component(g, a)
      BY <1>3, <1>4, <3>1 DEF Component, Both
    <3>. QED BY <3>1, <3>2
  <2> HIDE DEF Class
  <2>. QED BY <2>1, <2>2
<1>10. ASSUME NEW c \in comps, NEW i \in Resolved(list), NEW a \in 1..n, NEW b \in 1..n,
              list[i].source = names[a], list[i].target = names[b]
       PROVE  i \in Edges(c) <=> a \in c /\ b \in c
  BY <1>2, <1>7, <1>10 DEF Numbering
<1>11. \A c \in comps : Edges(c) \in SUBSET Resolved(list)
  OBVIOUS
<1> HIDE DEF Edges
<1>12. ASSUME NEW c \in comps, Cardinality(c) >= 2 PROVE Edges(c) # {}
  <2>1. PICK a \in 1..n : c = Component(g, a)
    BY <1>7
  <2>2. a \in c
    BY <1>8, <2>1
  <2>3. PICK b \in c : a # b
    <3>1. c # {a}
      BY <1>7, <1>12, <2>2
    <3>. QED BY <2>2, <3>1
  <2>4. Both(g, a, b) /\ b \in 1..n
    BY <1>3, <2>1 DEF Component
  <2>5. PICK w \in g[a] : Both(g, a, w)
    BY <1>3, <2>3, <2>4, EdgeInside
  <2>6. w \in 1..n
    BY <1>3 DEF Graph
  <2>7. w \in c
    BY <1>3, <2>1, <2>5, <2>6 DEF Component
  <2>8. PICK i \in Resolved(list) : list[i].source = names[a] /\ list[i].target = names[w]
    BY <1>3, <2>6
  <2>9. i \in Edges(c)
    BY <1>10, <2>2, <2>6, <2>7, <2>8
  <2>. QED BY <2>9
<1>13. ASSUME NEW i \in Resolved(list)
       PROVE  i \in marked <=> Reach(list[i].target, list[i].source)
  <2>1. PICK a \in 1..n, b \in 1..n :
           /\ list[i].source = names[a] /\ list[i].target = names[b]
           /\ b \in g[a] /\ a # b /\ Leads(g, a, b)
    BY <1>6
  <2>2. Reach(list[i].target, list[i].source) <=> Leads(g, b, a)
    BY <1>4, <2>1
  <2>3. ASSUME NEW c \in cyclic, i \in Edges(c) PROVE Leads(g, b, a)
    <3>1. a \in c /\ b \in c
      BY <1>10, <2>1, <2>3
    <3>2. b \in Component(g, a)
      BY <1>7, <3>1
    <3>. QED BY <3>2 DEF Component, Both
  <2>4. ASSUME Leads(g, b, a) PROVE i \in marked
    <3>1. b \in Component(g, a)
      BY <1>3, <2>1, <2>4 DEF Component, Both
    <3>2. Component(g, a) \in comps /\ a \in Component(g, a)
      BY <1>8
    <3>3. Component(g, a) \in cyclic
      BY <1>7, <2>1, <3>1, <3>2
    <3>4. i \in Edges(Component(g, a))
      BY <1>10, <2>1, <3>1, <3>2
    <3>. QED BY <3>3, <3>4
  <2>. QED BY <2>2, <2>3, <2>4
<1>14. marked = {i \in Resolved(list) : Reach(list[i].target, list[i].source)}
  BY <1>11, <1>13
<1>15. ASSUME NEW c \in cyclic
       PROVE  /\ Edges(c) # {}
              /\ Edges(c) = {i \in marked : list[i].source \in {names[x] : x \in c}}
              /\ \E a \in c : a \in 1..n /\ {names[x] : x \in c} = Class(names[a])
                            /\ Class(names[a]) # {names[a]}
  <2>1. c \in comps /\ Cardinality(c) >= 2
    OBVIOUS
  <2>2. ASSUME NEW i \in Edges(c)
        PROVE  i \in marked /\ list[i].source \in {names[x] : x \in c}
    <3>1. i \in Resolved(list) /\ i \in marked
      BY <1>11, <2>1
    <3>2. PICK a \in 1..n, b \in 1..n : list[i].source = names[a] /\ list[i].target = names[b]
      BY <1>6, <3>1
    <3>3. a \in c
      BY <1>10, <2>1, <3>1, <3>2
    <3>. QED BY <3>1, <3>2, <3>3
  <2>3. ASSUME NEW i \in marked, NEW x \in c, list[i].source = names[x] PROVE i \in Edges(c)
    <3>1. i \in Resolved(list) /\ x \in 1..n
      BY <1>7, <1>14, <2>1
    <3>2. PICK a \in 1..n, b \in 1..n :
             /\ list[i].source = names[a] /\ list[i].target = names[b] /\ Leads(g, a, b)
      BY <1>6, <3>1
    <3>3. a = x
      BY <1>2, <2>3, <3>1, <3>2 DEF Numbering
    <3>4. Leads(g, b, a)
      BY <1>4, <1>14, <3>2
    <3>5. b \in c
      BY <1>3, <1>7, <2>1, <3>2, <3>3, <3>4 DEF Component, Both
    <3>. QED BY <1>10, <2>1, <3>1, <3>2, <3>3, <3>5
  <2>4. PICK a \in 1..n : c = Component(g, a)
    BY <1>7, <2>1
  <2>5. a \in c /\ {names[x] : x \in c} = Class(names[a])
    BY <1>8, <1>9, <2>4
  <2>6. PICK b \in c : b # a
    BY <1>7, <2>1, <2>5
  <2>7. names[b] # names[a]
    BY <1>2, <1>7, <2>1, <2>5, <2>6 DEF Numbering
  <2>8. Class(names[a]) # {names[a]}
    <3> HIDE DEF Class
    <3>. QED BY <2>5, <2>6, <2>7
  <2>9. Edges(c) # {}
    BY <1>12, <2>1
  <2>10. Edges(c) = {i \in marked : list[i].source \in {names[x] : x \in c}}
    <3> HIDE DEF marked, cyclic
    <3>. QED BY <2>2, <2>3
  <2> HIDE DEF Class, marked, cyclic
  <2>. QED BY <2>5, <2>8, <2>9, <2>10
<1>16. ASSUME NEW x \in Names(list), Class(x) # {x}
       PROVE  \E c \in cyclic : Class(x) = {names[y] : y \in c}
  <2>1. PICK a \in 1..n : names[a] = x
    BY <1>2 DEF Numbering
  <2>2. PICK c : c = Component(g, a)
    OBVIOUS
  <2>3. c \in comps /\ a \in c /\ {names[y] : y \in c} = Class(x)
    BY <1>8, <1>9, <2>1, <2>2
  <2>4. c # {a}
    <3> HIDE DEF Class
    <3>. QED BY <1>16, <2>1, <2>3
  <2>5. c \in cyclic
    BY <1>7, <2>3, <2>4
  <2>. QED BY <2>3, <2>5
<1>17. {h.members : h \in groups} = {Class(x) : x \in {x \in Names(list) : Class(x) # {x}}}
  <2>1. ASSUME NEW h \in groups
        PROVE  \E x \in Names(list) : Class(x) # {x} /\ h.members = Class(x)
    <3>1. PICK c \in cyclic : h = [members |-> {names[x] : x \in c}, edges |-> Cardinality(Edges(c))]
      OBVIOUS
    <3>2. PICK a \in c : /\ a \in 1..n /\ {names[x] : x \in c} = Class(names[a])
                        /\ Class(names[a]) # {names[a]}
      BY <1>15
    <3>3. names[a] \in Names(list)
      BY <1>2, <3>2 DEF Numbering
    <3>4. h.members = Class(names[a])
      <4> HIDE DEF Class
      <4>. QED BY <3>1, <3>2
    <3>. QED BY <3>2, <3>3, <3>4
  <2>2. ASSUME NEW x \in Names(list), Class(x) # {x} PROVE \E h \in groups : h.members = Class(x)
    <3>1. PICK c \in cyclic : Class(x) = {names[y] : y \in c}
      BY <1>16, <2>2
    <3>2. Edges(c) # {}
      BY <1>15
    <3>3. PICK h : h = [members |-> {names[y] : y \in c}, edges |-> Cardinality(Edges(c))]
      OBVIOUS
    <3>4. h \in groups
      BY <3>2, <3>3
    <3>5. h.members = Class(x)
      <4> HIDE DEF Class
      <4>. QED BY <3>1, <3>3
    <3>. QED BY <3>4, <3>5
  <2> HIDE DEF Class, groups
  <2>. QED BY <2>1, <2>2
<1>18. ASSUME NEW h \in groups
       PROVE  h.edges = Cardinality({i \in marked : list[i].source \in h.members})
  <2>1. PICK c \in cyclic : h = [members |-> {names[x] : x \in c}, edges |-> Cardinality(Edges(c))]
    OBVIOUS
  <2>2. Edges(c) = {i \in marked : list[i].source \in {names[x] : x \in c}}
    BY <1>15
  <2>3. PICK members : members = {names[x] : x \in c}
    OBVIOUS
  <2>4. h.members = members /\ h.edges = Cardinality(Edges(c))
    BY <2>1, <2>3
  <2>5. Edges(c) = {i \in marked : list[i].source \in h.members}
    BY <2>2, <2>3, <2>4
  <2>. QED BY <2>4, <2>5
<1>20. report.in_cycle = marked /\ report.groups = groups
  <2> HIDE DEF marked, groups
  <2>. QED BY <1>1
<1> HIDE DEF marked, groups
<1>21. Mutual(report, list, Enclosed(list))
  <2>1. report.in_cycle = {i \in Resolved(list) : Reach(list[i].target, list[i].source)}
    BY <1>14, <1>20
  <2>2. {h.members : h \in report.groups} = {Class(x) : x \in {x \in Names(list) : Class(x) # {x}}}
    BY <1>17, <1>20
  <2>3. \A h \in report.groups :
           h.edges = Cardinality({i \in report.in_cycle : list[i].source \in h.members})
    BY <1>18, <1>20
  <2>. QED BY <2>1, <2>2, <2>3 DEF Mutual
<1>. QED BY <1>21

(***************************************************************************)
(* The audits and the reports.                                             *)
(***************************************************************************)

Fields == {"phase", "overwrite", "commit", "read", "again", "overlapped"}
Reading == {"first", "second", "prepared", "between"}
Of(c) == {c} \cup Later[c]

\* What an audit has read: the corpus of its commit or later ones, in both passes as
\* many files as its phase says.
HasRead(x) ==
  LET files == Len(Corpora[x.commit]) IN
  /\ x.commit \in DOMAIN Later /\ tree \in Of(x.commit)
  /\ x.read \in Seq(Of(x.commit)) /\ Len(x.read) <= files
  /\ x.again \in Seq(Of(x.commit)) /\ Len(x.again) <= files
  /\ x.phase # "first" => Len(x.read) = files
  /\ x.phase \in {"prepared", "between"} => Len(x.again) = files

\* An audit that is between its commits has written the JSON report that is there,
\* or another one's commits overlapped with its own.
AuditOk(x) ==
  /\ DOMAIN x = Fields
  /\ x.phase = "clean" => x.read = <<>> /\ x.again = <<>>
  /\ x.phase \in Reading => HasRead(x)
  /\ x.phase = "between" => x.overlapped \/ reports.json = <<x.read, x.again>>
  /\ x.overlapped \in BOOLEAN
  /\ x.overlapped => x.phase \in {"between", "done", "torn"}

CutShort(x) == x.phase \in {"between", "torn"} \/ x.overlapped

IInv ==
  /\ head \in DOMAIN Later /\ tree \in Of(head)
  /\ DOMAIN reports = {"json", "markdown"}
  /\ DOMAIN audit = Audits /\ \A a \in Audits : AuditOk(audit[a])
  /\ reports.json # reports.markdown => \E a \in Audits : CutShort(audit[a])

LEMMA IInvMixed == IInv => MixedOnlyWhenCutShort
BY DEF IInv, MixedOnlyWhenCutShort, CutShort

LEMMA IdleIs ==
  /\ DOMAIN Idle = Fields /\ Idle.phase = "idle" /\ Idle.overlapped = FALSE
  /\ Idle.read = <<>> /\ Idle.again = <<>>
BY DEF Idle, Fields

LEMMA TreeLater ==
  ASSUME NEW c \in DOMAIN Later, NEW d \in Of(c)
  PROVE  d \in DOMAIN Later /\ Of(d) \subseteq Of(c) /\ DOMAIN Corpora[d] = DOMAIN Corpora[c]
BY LaterAssumption DEF Of

LEMMA InitIInv == Init => IInv
<1> SUFFICES ASSUME Init PROVE IInv
  OBVIOUS
<1>1. \A a \in Audits : audit[a] = Idle
  BY DEF Init
<1>2. AuditOk(Idle)
  BY IdleIs DEF AuditOk, Reading
<1>3. reports.json = reports.markdown /\ DOMAIN reports = {"json", "markdown"}
  BY DEF Init
<1>4. head \in DOMAIN Later /\ tree \in Of(head) /\ DOMAIN audit = Audits
  BY DEF Init, Of
<1>. QED BY <1>1, <1>2, <1>3, <1>4 DEF IInv

\* A step of one audit that leaves everything else alone.
LEMMA SetStep ==
  ASSUME IInv, NEW a \in Audits, NEW x, Set(a, x), Keeps, AuditOk(x),
         CutShort(audit[a]) => CutShort(x)
  PROVE  IInv'
<1>1. audit' = [audit EXCEPT ![a] = x] /\ DOMAIN audit = Audits
  BY DEF Set, IInv
<1>2. DOMAIN audit' = Audits /\ audit'[a] = x /\ \A b \in Audits \ {a} : audit'[b] = audit[b]
  BY <1>1
<1>3. head' = head /\ tree' = tree /\ reports' = reports
  BY DEF Keeps
<1>4. ASSUME NEW y, AuditOk(y) PROVE AuditOk(y)'
  BY <1>3, <1>4 DEF AuditOk, HasRead
<1>5. ASSUME NEW b \in Audits PROVE AuditOk(audit[b])'
  <2>1. PICK y : y = audit'[b]
    OBVIOUS
  <2>2. AuditOk(y)
    BY <1>2, <2>1 DEF IInv
  <2>3. AuditOk(y)'
    BY <1>4, <2>2
  <2>. QED BY <2>1, <2>3 DEF AuditOk, HasRead
<1>6. reports'.json # reports'.markdown => \E b \in Audits : CutShort(audit'[b])
  <2>1. \A b \in Audits : CutShort(audit[b]) => CutShort(audit'[b])
    BY <1>2
  <2>. QED BY <1>3, <2>1 DEF IInv
<1>7. (reports.json # reports.markdown => \E b \in Audits : CutShort(audit[b]))'
  BY <1>6 DEF CutShort
<1>8. (head \in DOMAIN Later /\ tree \in Of(head) /\ DOMAIN reports = {"json", "markdown"})'
  BY <1>3 DEF IInv
<1>. QED BY <1>2, <1>5, <1>7, <1>8 DEF IInv

\* An audit that has failed, or that is over, has nothing to answer for.
LEMMA FailedOk ==
  ASSUME IInv PROVE AuditOk(Failed)
<1>1. DOMAIN Failed = Fields /\ Failed.phase = "failed" /\ Failed.overlapped = FALSE
  BY IdleIs DEF Failed, Fields
<1>. QED BY <1>1 DEF AuditOk, Reading

LEMMA OverOk ==
  ASSUME IInv, NEW a \in Audits, audit[a].phase = "between", NEW phase \in {"done", "torn"}
  PROVE  /\ AuditOk(Over(a, phase)) /\ Over(a, phase).phase = phase
         /\ Over(a, phase).overlapped = audit[a].overlapped
<1>1. AuditOk(audit[a])
  BY DEF IInv
<1>2. PICK o \in BOOLEAN : o = audit[a].overlapped
  BY <1>1 DEF AuditOk
<1>3. PICK y : y = [Idle EXCEPT !.phase = phase]
  OBVIOUS
<1>4. DOMAIN y = Fields /\ y.phase = phase
  BY <1>3, IdleIs DEF Fields
<1>5. Over(a, phase) = [y EXCEPT !.overlapped = o]
  BY <1>2, <1>3 DEF Over
<1>6. PICK x : x = Over(a, phase)
  OBVIOUS
<1>7. DOMAIN x = Fields /\ x.phase = phase /\ x.overlapped = o
  BY <1>4, <1>5, <1>6 DEF Fields
<1>8. AuditOk(x)
  BY <1>7 DEF AuditOk, Reading
<1>. QED BY <1>2, <1>6, <1>7, <1>8

LEMMA CheckCleanStep ==
  ASSUME IInv, NEW a \in Audits, NEW overwrite \in BOOLEAN, CheckClean(a, overwrite) PROVE IInv'
<1>1. PICK x : x = IF tree = head THEN [Idle EXCEPT !.phase = "clean", !.overwrite = overwrite]
                   ELSE Failed
  OBVIOUS
<1>2. Set(a, x) /\ Keeps /\ audit[a].phase = "idle"
  BY <1>1 DEF CheckClean, At
<1>3. AuditOk([Idle EXCEPT !.phase = "clean", !.overwrite = overwrite])
  BY IdleIs DEF AuditOk, Reading, Fields
<1>4. AuditOk(x)
  BY <1>1, <1>3, FailedOk
<1>5. ~CutShort(audit[a])
  BY <1>2 DEF IInv, AuditOk, CutShort
<1>. QED BY <1>2, <1>4, <1>5, SetStep

\* The number of files of the commit.
LEMMA FilesCounted ==
  ASSUME NEW c \in DOMAIN Later
  PROVE  Len(Corpora[c]) \in Nat /\ DOMAIN Corpora[c] = 1..Len(Corpora[c])
BY CorporaAssumption, LaterAssumption

LEMMA IdentifyStep ==
  ASSUME IInv, NEW a \in Audits, Identify(a) PROVE IInv'
<1>1. PICK e : e = [audit[a] EXCEPT !.phase = "first", !.commit = head]
  OBVIOUS
<1>2. PICK x : x = IF ~audit[a].overwrite /\ (reports.json # <<>> \/ reports.markdown # <<>>)
                   THEN Failed ELSE e
  OBVIOUS
<1>3. Set(a, x) /\ Keeps /\ audit[a].phase = "clean"
  BY <1>1, <1>2 DEF Identify, At
<1>4. AuditOk(audit[a])
  BY DEF IInv
<1>5. PICK y : y = [audit[a] EXCEPT !.phase = "first"]
  OBVIOUS
<1>6. /\ DOMAIN y = Fields /\ y.phase = "first" /\ y.read = <<>> /\ y.again = <<>>
      /\ y.overlapped = FALSE
  BY <1>3, <1>4, <1>5 DEF AuditOk, Fields
<1>7. e = [y EXCEPT !.commit = head]
  BY <1>1, <1>5
<1>8. /\ DOMAIN e = Fields /\ e.phase = "first" /\ e.read = <<>> /\ e.again = <<>>
      /\ e.overlapped = FALSE /\ e.commit = head
  BY <1>6, <1>7 DEF Fields
<1>9. HasRead(e)
  <2>1. Len(Corpora[head]) \in Nat
    BY FilesCounted DEF IInv
  <2>. QED BY <1>8, <2>1 DEF IInv, HasRead
<1>10. AuditOk(e)
  BY <1>8, <1>9 DEF AuditOk
<1>11. ~CutShort(audit[a])
  BY <1>3, <1>4 DEF AuditOk, CutShort
<1>. QED BY <1>2, <1>3, <1>10, <1>11, FailedOk, SetStep

LEMMA ReadFirstStep ==
  ASSUME IInv, NEW a \in Audits, ReadFirst(a) PROVE IInv'
<1>1. PICK e : e = [audit[a] EXCEPT !.read = Append(@, tree)]
  OBVIOUS
<1>2. PICK x : x = IF Whole(Len(audit[a].read) + 1) THEN e ELSE Failed
  OBVIOUS
<1>3. /\ Set(a, x) /\ Keeps /\ audit[a].phase = "first"
      /\ Len(audit[a].read) < Len(Corpora[audit[a].commit])
  BY <1>1, <1>2 DEF ReadFirst, At, FilesLeft
<1>4. AuditOk(audit[a]) /\ HasRead(audit[a])
  BY <1>3 DEF IInv, AuditOk, Reading
<1>5. PICK c, list : c = audit[a].commit /\ list = Append(audit[a].read, tree)
  OBVIOUS
<1>6. /\ DOMAIN e = Fields /\ e.phase = "first" /\ e.read = list /\ e.again = audit[a].again
      /\ e.overlapped = audit[a].overlapped /\ e.commit = c
  BY <1>1, <1>3, <1>4, <1>5 DEF AuditOk, Fields
<1>7. Len(Corpora[c]) \in Nat
  BY <1>4, <1>5, FilesCounted DEF HasRead
<1>8. list \in Seq(Of(c)) /\ Len(list) <= Len(Corpora[c])
  BY <1>3, <1>4, <1>5, <1>7 DEF HasRead
<1>9. HasRead(e)
  BY <1>4, <1>5, <1>6, <1>8 DEF HasRead
<1>10. ~CutShort(audit[a])
  BY <1>3, <1>4 DEF AuditOk, CutShort
<1>11. AuditOk(e)
  BY <1>4, <1>6, <1>9, <1>10 DEF AuditOk, CutShort
<1>. QED BY <1>2, <1>3, <1>10, <1>11, FailedOk, SetStep

LEMMA ReadSecondStep ==
  ASSUME IInv, NEW a \in Audits, ReadSecond(a) PROVE IInv'
<1>1. PICK e : e = [audit[a] EXCEPT !.again = Append(@, tree)]
  OBVIOUS
<1>2. PICK x : x = IF Whole(Len(audit[a].again) + 1) THEN e ELSE Failed
  OBVIOUS
<1>3. /\ Set(a, x) /\ Keeps /\ audit[a].phase = "second"
      /\ Len(audit[a].again) < Len(Corpora[audit[a].commit])
  BY <1>1, <1>2 DEF ReadSecond, At, FilesLeft
<1>4. AuditOk(audit[a]) /\ HasRead(audit[a])
  BY <1>3 DEF IInv, AuditOk, Reading
<1>5. PICK c, list : c = audit[a].commit /\ list = Append(audit[a].again, tree)
  OBVIOUS
<1>6. /\ DOMAIN e = Fields /\ e.phase = "second" /\ e.again = list /\ e.read = audit[a].read
      /\ e.overlapped = audit[a].overlapped /\ e.commit = c
  BY <1>1, <1>3, <1>4, <1>5 DEF AuditOk, Fields
<1>7. Len(Corpora[c]) \in Nat
  BY <1>4, <1>5, FilesCounted DEF HasRead
<1>8. list \in Seq(Of(c)) /\ Len(list) <= Len(Corpora[c])
  BY <1>3, <1>4, <1>5, <1>7 DEF HasRead
<1>9. HasRead(e)
  BY <1>3, <1>4, <1>5, <1>6, <1>8 DEF HasRead
<1>10. ~CutShort(audit[a])
  BY <1>3, <1>4 DEF AuditOk, CutShort
<1>11. AuditOk(e)
  BY <1>4, <1>6, <1>9, <1>10 DEF AuditOk, CutShort
<1>. QED BY <1>2, <1>3, <1>10, <1>11, FailedOk, SetStep

\* The end of a pass.
LEMMA EndStep ==
  ASSUME IInv, NEW a \in Audits, EndFirst(a) \/ Prepare(a) PROVE IInv'
<1>1. AuditOk(audit[a]) /\ HasRead(audit[a])
  BY DEF EndFirst, Prepare, At, IInv, AuditOk, Reading
<1>2. PICK c : c = audit[a].commit
  OBVIOUS
<1>3. Len(Corpora[c]) \in Nat /\ Len(audit[a].read) \in Nat /\ Len(audit[a].again) \in Nat
  BY <1>1, <1>2, FilesCounted DEF HasRead
<1>4. ~CutShort(audit[a])
  BY <1>1 DEF EndFirst, Prepare, At, AuditOk, CutShort
<1>5. CASE EndFirst(a)
  <2>1. PICK x : x = [audit[a] EXCEPT !.phase = "second"]
    OBVIOUS
  <2>2. /\ DOMAIN x = Fields /\ x.phase = "second" /\ x.read = audit[a].read
        /\ x.again = audit[a].again /\ x.overlapped = audit[a].overlapped /\ x.commit = c
    BY <1>1, <1>2, <2>1 DEF AuditOk, Fields
  <2>3. Set(a, x) /\ Keeps /\ Len(audit[a].read) = Len(Corpora[c])
    BY <1>1, <1>2, <1>3, <1>5, <2>1 DEF EndFirst, FilesLeft, HasRead
  <2>4. HasRead(x)
    BY <1>1, <1>2, <2>2, <2>3 DEF HasRead
  <2>5. AuditOk(x)
    BY <1>1, <1>4, <2>2, <2>4 DEF AuditOk, CutShort
  <2>. QED BY <1>4, <2>3, <2>5, SetStep
<1>6. CASE Prepare(a)
  <2>1. PICK x : x = [audit[a] EXCEPT !.phase = "prepared"]
    OBVIOUS
  <2>2. /\ DOMAIN x = Fields /\ x.phase = "prepared" /\ x.read = audit[a].read
        /\ x.again = audit[a].again /\ x.overlapped = audit[a].overlapped /\ x.commit = c
    BY <1>1, <1>2, <2>1 DEF AuditOk, Fields
  <2>3. Set(a, x) /\ Keeps /\ Len(audit[a].again) = Len(Corpora[c]) /\ audit[a].phase = "second"
    BY <1>1, <1>2, <1>3, <1>6, <2>1 DEF Prepare, FilesLeft, HasRead, At
  <2>4. HasRead(x)
    BY <1>1, <1>2, <2>2, <2>3 DEF HasRead
  <2>5. AuditOk(x)
    BY <1>1, <1>4, <2>2, <2>4 DEF AuditOk, CutShort
  <2>. QED BY <1>4, <2>3, <2>5, SetStep
<1>. QED BY <1>5, <1>6

LEMMA FailStep ==
  ASSUME IInv, NEW a \in Audits, Fail(a) PROVE IInv'
<1>1. ~CutShort(audit[a])
  BY DEF Fail, IInv, AuditOk, CutShort
<1>. QED BY <1>1, FailedOk, SetStep DEF Fail

LEMMA CommitFailsStep ==
  ASSUME IInv, NEW a \in Audits, CommitFails(a) PROVE IInv'
<1>1. AuditOk(Over(a, "torn")) /\ CutShort(Over(a, "torn"))
  BY OverOk DEF CommitFails, At, CutShort
<1>. QED BY <1>1, SetStep DEF CommitFails

\* The report of one audit is written in the place of what was there. An audit that
\* is between its commits as well overlaps with it.
LEMMA CommitJsonStep ==
  ASSUME IInv, NEW a \in Audits, CommitJson(a) PROVE IInv'
<1>1. PICK others, input :
         others = {b \in Audits \ {a} : At(b, "between")} /\ input = Input(a)
  OBVIOUS
<1>2. PICK x : x = [audit[a] EXCEPT !.phase = "between", !.overlapped = others # {}]
  OBVIOUS
<1>3. /\ audit[a].phase = "prepared" /\ reports' = [reports EXCEPT !.json = input]
      /\ audit' = [b \in Audits |->
                     IF b = a THEN x
                     ELSE IF b \in others THEN [audit[b] EXCEPT !.overlapped = TRUE]
                     ELSE audit[b]]
      /\ head' = head /\ tree' = tree
  BY <1>1, <1>2, Zenon DEF CommitJson, At
<1>4. /\ reports'.json = input /\ reports'.markdown = reports.markdown
      /\ DOMAIN reports' = {"json", "markdown"}
  BY <1>3 DEF IInv
<1>5. AuditOk(audit[a]) /\ HasRead(audit[a])
  BY <1>3 DEF IInv, AuditOk, Reading
<1>6. /\ DOMAIN x = Fields /\ x.phase = "between" /\ x.read = audit[a].read
      /\ x.again = audit[a].again /\ x.overlapped \in BOOLEAN /\ x.commit = audit[a].commit
  <2>1. PICK o \in BOOLEAN : o = (others # {})
    OBVIOUS
  <2>2. PICK y : y = [audit[a] EXCEPT !.phase = "between"]
    OBVIOUS
  <2>3. /\ DOMAIN y = Fields /\ y.phase = "between" /\ y.read = audit[a].read
        /\ y.again = audit[a].again /\ y.commit = audit[a].commit
    BY <1>5, <2>2 DEF AuditOk, Fields
  <2>4. x = [y EXCEPT !.overlapped = o]
    BY <1>2, <2>1, <2>2
  <2>. QED BY <2>3, <2>4 DEF Fields
<1>7. ASSUME NEW b \in Audits PROVE AuditOk(audit[b])'
  <2>1. PICK y : y = audit'[b]
    OBVIOUS
  <2>2. CASE b = a
    <3>1. HasRead(x)'
      BY <1>3, <1>5, <1>6 DEF HasRead
    <3>2. AuditOk(x)'
      BY <1>1, <1>4, <1>6, <3>1 DEF AuditOk, Input
    <3>. QED BY <1>3, <2>2, <3>2 DEF AuditOk, HasRead
  <2>3. CASE b \in others
    <3>1. AuditOk(audit[b]) /\ audit[b].phase = "between" /\ b # a
      BY <1>1, <2>3 DEF IInv, At
    <3>2. y = [audit[b] EXCEPT !.overlapped = TRUE]
      BY <1>3, <2>1, <2>3, <3>1
    <3>3. /\ DOMAIN y = Fields /\ y.phase = "between" /\ y.read = audit[b].read
          /\ y.again = audit[b].again /\ y.overlapped = TRUE /\ y.commit = audit[b].commit
      BY <3>1, <3>2 DEF AuditOk, Fields
    <3>4. HasRead(y)'
      BY <1>3, <3>1, <3>3 DEF HasRead, AuditOk, Reading
    <3>5. AuditOk(y)'
      BY <3>3, <3>4 DEF AuditOk
    <3>. QED BY <2>1, <3>5 DEF AuditOk, HasRead
  <2>4. CASE b # a /\ b \notin others
    <3>1. AuditOk(audit[b]) /\ audit[b].phase # "between" /\ y = audit[b]
      BY <1>1, <1>3, <2>1, <2>4 DEF IInv, At
    <3>2. HasRead(y) => HasRead(y)'
      BY <1>3 DEF HasRead
    <3>3. AuditOk(y)'
      BY <3>1, <3>2 DEF AuditOk
    <3>. QED BY <2>1, <3>3 DEF AuditOk, HasRead
  <2>. QED BY <2>2, <2>3, <2>4
<1>8. (\E b \in Audits : CutShort(audit[b]))'
  BY <1>3, <1>6 DEF CutShort
<1>9. (head \in DOMAIN Later /\ tree \in Of(head) /\ DOMAIN audit = Audits)'
  BY <1>3 DEF IInv
<1>. QED BY <1>4, <1>7, <1>8, <1>9 DEF IInv

LEMMA CommitMarkdownStep ==
  ASSUME IInv, NEW a \in Audits, CommitMarkdown(a) PROVE IInv'
<1>1. PICK input, x : input = Input(a) /\ x = Over(a, "done")
  OBVIOUS
<1>2. /\ audit[a].phase = "between" /\ reports' = [reports EXCEPT !.markdown = input]
      /\ audit' = [audit EXCEPT ![a] = x] /\ head' = head /\ tree' = tree
      /\ DOMAIN audit = Audits
  BY <1>1 DEF CommitMarkdown, At, Set, IInv
<1>3. /\ reports'.json = reports.json /\ reports'.markdown = input
      /\ DOMAIN reports' = {"json", "markdown"}
  BY <1>2 DEF IInv
<1>4. DOMAIN audit' = Audits /\ audit'[a] = x /\ \A b \in Audits \ {a} : audit'[b] = audit[b]
  BY <1>2
<1>5. AuditOk(x) /\ x.phase = "done" /\ x.overlapped = audit[a].overlapped
  BY <1>1, <1>2, OverOk
<1>6. ASSUME NEW y, AuditOk(y) PROVE AuditOk(y)'
  BY <1>2, <1>3, <1>6 DEF AuditOk, HasRead
<1>7. ASSUME NEW b \in Audits PROVE AuditOk(audit[b])'
  <2>1. PICK y : y = audit'[b]
    OBVIOUS
  <2>2. AuditOk(y)
    BY <1>4, <1>5, <2>1 DEF IInv
  <2>3. AuditOk(y)'
    BY <1>6, <2>2
  <2>. QED BY <2>1, <2>3 DEF AuditOk, HasRead
<1>8. ASSUME reports'.json # reports'.markdown PROVE x.overlapped
  BY <1>1, <1>2, <1>3, <1>5, <1>8 DEF IInv, AuditOk, Input
<1>9. (reports.json # reports.markdown => \E b \in Audits : CutShort(audit[b]))'
  BY <1>4, <1>8 DEF CutShort
<1>10. (head \in DOMAIN Later /\ tree \in Of(head))'
  BY <1>2 DEF IInv
<1>. QED BY <1>3, <1>4, <1>7, <1>9, <1>10 DEF IInv

\* The tree stays one that changes of every commit lead to.
LEMMA ChangeStep ==
  ASSUME IInv, Change PROVE IInv'
<1>1. PICK corpus \in Later[tree] : tree' = corpus /\ head' \in {head, corpus}
  BY DEF Change
<1>2. audit' = audit /\ reports' = reports
  BY DEF Change
<1>3. ASSUME NEW c \in DOMAIN Later, tree \in Of(c) PROVE corpus \in Of(c)
  <2>1. corpus \in Of(tree)
    BY DEF Of
  <2>. QED BY <1>3, <2>1, TreeLater
<1>4. (head \in DOMAIN Later /\ tree \in Of(head))'
  <2>1. head \in DOMAIN Later /\ tree \in Of(head)
    BY DEF IInv
  <2>2. tree' \in Of(head)
    BY <1>1, <1>3, <2>1
  <2>3. tree' \in DOMAIN Later
    BY <2>1, <2>2, TreeLater
  <2>. QED BY <1>1, <2>1, <2>2, <2>3 DEF Of
<1>5. ASSUME NEW y, AuditOk(y) PROVE AuditOk(y)'
  <2>1. HasRead(y) => HasRead(y)'
    BY <1>1, <1>3 DEF HasRead
  <2>. QED BY <1>2, <1>5, <2>1 DEF AuditOk
<1>6. ASSUME NEW b \in Audits PROVE AuditOk(audit[b])'
  <2>1. PICK y : y = audit[b]
    OBVIOUS
  <2>2. AuditOk(y)'
    BY <1>5, <2>1 DEF IInv
  <2>. QED BY <1>2, <2>1, <2>2 DEF AuditOk, HasRead
<1>7. (/\ DOMAIN reports = {"json", "markdown"} /\ DOMAIN audit = Audits
       /\ reports.json # reports.markdown => \E a \in Audits : CutShort(audit[a]))'
  BY <1>2 DEF IInv, CutShort
<1>. QED BY <1>4, <1>6, <1>7 DEF IInv

LEMMA IdleNext == ASSUME IInv, UNCHANGED vars PROVE IInv'
<1>1. head' = head /\ tree' = tree /\ reports' = reports /\ audit' = audit
  BY DEF vars
<1>. QED BY <1>1 DEF IInv, AuditOk, HasRead, CutShort

LEMMA NextIInv == IInv /\ [Next]_vars => IInv'
<1> SUFFICES ASSUME IInv, [Next]_vars PROVE IInv'
  OBVIOUS
<1>1. ASSUME NEW a \in Audits, NEW overwrite \in BOOLEAN, CheckClean(a, overwrite) PROVE IInv'
  BY <1>1, CheckCleanStep
<1>2. ASSUME NEW a \in Audits, Identify(a) PROVE IInv'
  BY <1>2, IdentifyStep
<1>3. ASSUME NEW a \in Audits, ReadFirst(a) PROVE IInv'
  BY <1>3, ReadFirstStep
<1>4. ASSUME NEW a \in Audits, EndFirst(a) \/ Prepare(a) PROVE IInv'
  BY <1>4, EndStep
<1>5. ASSUME NEW a \in Audits, ReadSecond(a) PROVE IInv'
  BY <1>5, ReadSecondStep
<1>6. ASSUME NEW a \in Audits, CommitJson(a) PROVE IInv'
  BY <1>6, CommitJsonStep
<1>7. ASSUME NEW a \in Audits, CommitMarkdown(a) PROVE IInv'
  BY <1>7, CommitMarkdownStep
<1>8. ASSUME NEW a \in Audits, Fail(a) \/ CommitFails(a) PROVE IInv'
  BY <1>8, FailStep, CommitFailsStep
<1>9. CASE Change
  BY <1>9, ChangeStep
<1>10. CASE UNCHANGED vars
  BY <1>10, IdleNext
<1>. QED BY <1>1, <1>2, <1>3, <1>4, <1>5, <1>6, <1>7, <1>8, <1>9, <1>10 DEF Next

LEMMA AlwaysIInv == Spec => []IInv
BY InitIInv, NextIInv, PTL DEF Spec

\* Of any number of audits, over any corpora: the two reports are of one audit, unless
\* one was cut short between its commits or the commits of two overlapped.
THEOREM AuditReportsTogether == Spec => []MixedOnlyWhenCutShort
BY AlwaysIInv, IInvMixed, PTL

(***************************************************************************)
(* What parse_volume makes of a file: entries, each with its entities, one *)
(* of them the entry itself, and a list of relations.                      *)
(***************************************************************************)

IsSeq(s) == \E S : s \in Seq(S)

LEMMA SeqMade ==
  /\ IsSeq(<<>>) /\ \A x : IsSeq(<<x>>)
  /\ \A s, x : IsSeq(s) => IsSeq(Append(s, x))
<1>1. IsSeq(<<>>)
  <2>1. PICK S : S = {}
    OBVIOUS
  <2>2. <<>> \in Seq(S)
    BY <2>1
  <2>. QED BY <2>2 DEF IsSeq
<1>2. ASSUME NEW x PROVE IsSeq(<<x>>)
  <2>1. <<x>> \in Seq({x})
    OBVIOUS
  <2>. QED BY <2>1 DEF IsSeq
<1>3. ASSUME NEW s, IsSeq(s), NEW x PROVE IsSeq(Append(s, x))
  <2>1. PICK S : s \in Seq(S)
    BY <1>3 DEF IsSeq
  <2>2. PICK T : T = S \cup {x}
    OBVIOUS
  <2>3. s \in Seq(T) /\ x \in T
    BY <2>1, <2>2
  <2>4. Append(s, x) \in Seq(T)
    BY <2>3
  <2>. QED BY <2>4 DEF IsSeq
<1>. QED BY <1>1, <1>2, <1>3

\* Relations, each with the keys it was given.
FieldNames == {"type", "key", "word", "homonym", "unit", "url"}
RelationOk(r) ==
  /\ DOMAIN r = {"source", "ordinal", "fields"} /\ DOMAIN r.fields = FieldNames
  /\ IsSeq(r.fields.key)
RelationsOk(s) == \E S : s \in Seq(S) /\ \A r \in S : RelationOk(r)

LEMMA RelationsMade ==
  /\ RelationsOk(<<>>) /\ \A r : RelationOk(r) => RelationsOk(<<r>>)
  /\ \A s, r : RelationsOk(s) /\ RelationOk(r) => RelationsOk([s EXCEPT ![1] = r])
  /\ \A s, t : RelationsOk(s) /\ RelationsOk(t) => RelationsOk(s \o t)
<1>1. RelationsOk(<<>>)
  <2>1. PICK S : S = {}
    OBVIOUS
  <2>2. <<>> \in Seq(S) /\ \A r \in S : RelationOk(r)
    BY <2>1
  <2>. QED BY <2>2 DEF RelationsOk
<1>2. ASSUME NEW r, RelationOk(r) PROVE RelationsOk(<<r>>)
  <2>1. PICK S : S = {r}
    OBVIOUS
  <2>2. <<r>> \in Seq(S)
    BY <2>1
  <2>3. \A x \in S : RelationOk(x)
    BY <1>2, <2>1
  <2>. QED BY <2>2, <2>3 DEF RelationsOk
<1>3. ASSUME NEW s, NEW r, RelationsOk(s), RelationOk(r) PROVE RelationsOk([s EXCEPT ![1] = r])
  <2>1. PICK S : s \in Seq(S) /\ \A x \in S : RelationOk(x)
    BY <1>3 DEF RelationsOk
  <2>2. PICK T : T = S \cup {r}
    OBVIOUS
  <2>3. s \in Seq(T) /\ r \in T /\ \A x \in T : RelationOk(x)
    BY <1>3, <2>1, <2>2
  <2>4. PICK n \in Nat : s \in [1..n -> T]
    BY <2>3, SeqDef
  <2>5. [s EXCEPT ![1] = r] \in [1..n -> T]
    BY <2>3, <2>4
  <2>6. [s EXCEPT ![1] = r] \in Seq(T)
    BY <2>5, SeqDef
  <2>. QED BY <2>3, <2>6 DEF RelationsOk
<1>4. ASSUME NEW s, NEW t, RelationsOk(s), RelationsOk(t) PROVE RelationsOk(s \o t)
  <2>1. PICK S : s \in Seq(S) /\ \A x \in S : RelationOk(x)
    BY <1>4 DEF RelationsOk
  <2>2. PICK T : t \in Seq(T) /\ \A x \in T : RelationOk(x)
    BY <1>4 DEF RelationsOk
  <2>3. PICK U : U = S \cup T
    OBVIOUS
  <2>4. s \in Seq(U) /\ t \in Seq(U) /\ \A x \in U : RelationOk(x)
    BY <2>1, <2>2, <2>3
  <2>5. s \o t \in Seq(U)
    BY <2>4
  <2>. QED BY <2>4, <2>5 DEF RelationsOk
<1>. QED BY <1>1, <1>2, <1>3, <1>4

\* The entities of an entry with that locator: the entry itself first, then nested
\* ones, of each kind with the ordinals given out until now and never the same twice.
Ordinal(x) == x.locator.at[x.kind]
Nested(x, locator, count) ==
  /\ x.kind \in NestedKinds
  /\ x.locator.file = locator.file /\ x.locator.entry = locator.entry
  /\ Ordinal(x) \in 1..count[x.kind]
EntityFields == {"kind", "locator", "key"}
EntitiesOk(list, locator, count) ==
  /\ IsSeq(list) /\ 1 \in DOMAIN list
  /\ \A i \in DOMAIN list : DOMAIN list[i] = EntityFields
  /\ list[1].kind = "entry" /\ list[1].locator = locator
  /\ \A i \in DOMAIN list \ {1} : Nested(list[i], locator, count)
  /\ \A i, j \in DOMAIN list \ {1} :
       i # j /\ list[i].kind = list[j].kind => Ordinal(list[i]) # Ordinal(list[j])

BuilderFields == {"depth", "name", "path", "locator", "headword", "homonym", "entities",
                  "relations", "count", "current", "containers", "open"}
BuilderOk(b) ==
  /\ DOMAIN b = BuilderFields /\ RelationsOk(b.relations) /\ RelationsOk(b.open)
  /\ DOMAIN b.locator = {"file", "entry", "at"} /\ b.count \in [NestedKinds -> Nat]
  /\ EntitiesOk(b.entities, b.locator, b.count)

\* A builder of the same entry.
Still(b, c) == BuilderOk(c) /\ c.locator = b.locator

\* What a method that opens or closes no entity and no relation keeps.
Same(b, c) ==
  /\ DOMAIN c = DOMAIN b /\ c.relations = b.relations /\ c.open = b.open
  /\ c.locator = b.locator /\ c.count = b.count /\ c.entities = b.entities

LEMMA SameOk ==
  ASSUME NEW b, BuilderOk(b), NEW c, Same(b, c) PROVE Still(b, c)
BY DEF BuilderOk, Same, Still

LEMMA StillSelf ==
  ASSUME NEW b, BuilderOk(b) PROVE Still(b, b)
BY DEF Still

LEMMA StillOn ==
  ASSUME NEW b, NEW c, NEW e, Still(b, c), Still(c, e) PROVE Still(b, e)
BY DEF Still

LEMMA AddFieldOk ==
  ASSUME NEW b, BuilderOk(b), b.open # <<>>, NEW field, NEW value
  PROVE  Still(b, AddField(b, field, value))
<1>1. PICK r : r = b.open[1]
  OBVIOUS
<1>2. RelationOk(r)
  <2>1. PICK S : b.open \in Seq(S) /\ \A x \in S : RelationOk(x)
    BY DEF BuilderOk, RelationsOk
  <2>2. b.open[1] \in S
    BY <2>1
  <2>. QED BY <1>1, <2>1, <2>2
<1>3. PICK fields : fields = [r.fields EXCEPT ![field] = Append(@, value)]
  OBVIOUS
<1>4. DOMAIN fields = FieldNames /\ IsSeq(fields.key)
  <2>1. DOMAIN fields = FieldNames
    BY <1>2, <1>3 DEF RelationOk
  <2>2. "key" \in FieldNames
    BY DEF FieldNames
  <2>3. CASE field = "key"
    <3>1. fields.key = Append(r.fields.key, value)
      BY <1>2, <1>3, <2>2, <2>3 DEF RelationOk
    <3>. QED BY <1>2, <2>1, <3>1, SeqMade DEF RelationOk
  <2>4. CASE field # "key"
    <3>1. fields.key = r.fields.key
      BY <1>2, <1>3, <2>2, <2>4 DEF RelationOk
    <3>. QED BY <1>2, <2>1, <3>1 DEF RelationOk
  <2>. QED BY <2>3, <2>4
<1>5. PICK entry : entry = [r EXCEPT !.fields = fields]
  OBVIOUS
<1>6. RelationOk(entry)
  BY <1>2, <1>4, <1>5 DEF RelationOk
<1>7. PICK list : list = [b.open EXCEPT ![1] = entry]
  OBVIOUS
<1>8. RelationsOk(list)
  BY <1>6, <1>7, RelationsMade DEF BuilderOk
<1>9. PICK c : c = [b EXCEPT !.open = list]
  OBVIOUS
<1>10. Still(b, c)
  <2>1. /\ DOMAIN c = BuilderFields /\ c.open = list /\ c.relations = b.relations
        /\ c.locator = b.locator /\ c.count = b.count /\ c.entities = b.entities
    BY <1>9 DEF BuilderOk, BuilderFields
  <2>. QED BY <1>8, <2>1 DEF BuilderOk, Still
<1>11. [b EXCEPT !.open[1].fields[field] = Append(@, value)] = c
  BY <1>1, <1>3, <1>5, <1>7, <1>9
<1>. QED BY <1>10, <1>11, StillSelf, Zenon DEF AddField

\* Entities that differ in no more than their keys.
LEMMA SameEntities ==
  ASSUME NEW s, NEW locator, NEW count, EntitiesOk(s, locator, count), NEW t,
         DOMAIN t = DOMAIN s, t = [k \in DOMAIN t |-> t[k]],
         \A k \in DOMAIN s : DOMAIN t[k] = EntityFields /\ t[k].kind = s[k].kind
                             /\ t[k].locator = s[k].locator
  PROVE  EntitiesOk(t, locator, count)
<1>1. PICK S : s \in Seq(S)
  BY DEF EntitiesOk, IsSeq
<1>2. PICK n \in Nat : s \in [1..n -> S]
  BY <1>1, SeqDef
<1>3. PICK T : T = {t[k] : k \in 1..n}
  OBVIOUS
<1>4. t \in [1..n -> T]
  BY <1>2, <1>3
<1>5. t \in Seq(T)
  BY <1>4, SeqDef
<1>6. IsSeq(t)
  BY <1>5 DEF IsSeq
<1>. QED BY <1>6 DEF EntitiesOk, Nested, Ordinal

LEMMA SetEntityKeyOk ==
  ASSUME NEW b, BuilderOk(b), NEW locator, NEW value
  PROVE  Still(b, SetEntityKey(b, locator, value))
<1>1. PICK i : i = CHOOSE k \in DOMAIN b.entities : b.entities[k].locator = locator
  OBVIOUS
<1>2. PICK x, key : x = b.entities[i] /\ key = SetOnce(x.key, value)
  OBVIOUS
<1>3. PICK y : y = [x EXCEPT !.key = key]
  OBVIOUS
<1>4. PICK list : list = [b.entities EXCEPT ![i] = y]
  OBVIOUS
<1>5. EntitiesOk(list, b.locator, b.count)
  <2>1. i \in DOMAIN b.entities => DOMAIN y = EntityFields /\ y.kind = x.kind /\ y.locator = x.locator
    BY <1>2, <1>3 DEF BuilderOk, EntitiesOk, EntityFields
  <2>2. DOMAIN list = DOMAIN b.entities /\ list = [k \in DOMAIN list |-> list[k]]
    BY <1>4
  <2>3. \A k \in DOMAIN b.entities : list[k] = IF k = i THEN y ELSE b.entities[k]
    BY <1>4
  <2>4. \A k \in DOMAIN b.entities : DOMAIN b.entities[k] = EntityFields
    BY DEF BuilderOk, EntitiesOk
  <2>5. \A k \in DOMAIN b.entities : DOMAIN list[k] = EntityFields /\ list[k].kind = b.entities[k].kind
                             /\ list[k].locator = b.entities[k].locator
    BY <1>2, <2>1, <2>3, <2>4
  <2>. QED BY <2>2, <2>5, SameEntities DEF BuilderOk
<1>6. PICK c : c = [b EXCEPT !.entities = list]
  OBVIOUS
<1>7. SetEntityKey(b, locator, value) = [b EXCEPT !.entities[i].key = SetOnce(@, value)]
  BY <1>1, Zenon DEF SetEntityKey
<1>8. [b EXCEPT !.entities[i].key = SetOnce(@, value)] = c
  BY <1>2, <1>3, <1>4, <1>6
<1>9. /\ DOMAIN c = BuilderFields /\ c.open = b.open /\ c.relations = b.relations
      /\ c.locator = b.locator /\ c.count = b.count /\ c.entities = list
  BY <1>6 DEF BuilderOk, BuilderFields
<1>. QED BY <1>5, <1>7, <1>8, <1>9 DEF BuilderOk, Still

\* The fields that are set once.
LEMMA SetFieldOk ==
  ASSUME NEW b, BuilderOk(b), NEW value
  PROVE  /\ Still(b, [b EXCEPT !.headword = value]) /\ Still(b, [b EXCEPT !.homonym = value])
         /\ Still(b, [b EXCEPT !.path = value]) /\ Still(b, [b EXCEPT !.current = value])
<1>1. Same(b, [b EXCEPT !.headword = value])
  BY DEF BuilderOk, BuilderFields, Same
<1>2. Same(b, [b EXCEPT !.homonym = value])
  BY DEF BuilderOk, BuilderFields, Same
<1>3. Same(b, [b EXCEPT !.path = value])
  BY DEF BuilderOk, BuilderFields, Same
<1>4. Same(b, [b EXCEPT !.current = value])
  BY DEF BuilderOk, BuilderFields, Same
<1>. QED BY <1>1, <1>2, <1>3, <1>4, SameOk

LEMMA NewBuilderOk ==
  ASSUME NEW d, NEW locator, DOMAIN locator = {"file", "entry", "at"}, NEW r
  PROVE  BuilderOk(NewBuilder(d, locator, r)) /\ NewBuilder(d, locator, r).locator = locator
<1>1. PICK b : b = NewBuilder(d, locator, r)
  OBVIOUS
<1>2. PICK key : key = IF d = "krdict" THEN LmfIdentifier(r.attributes)
                       ELSE Attribute(r.attributes, "target_code")
  OBVIOUS
<1>3. PICK own : own = [kind |-> "entry", locator |-> locator, key |-> key]
  OBVIOUS
<1>4. /\ DOMAIN b = BuilderFields /\ b.relations = <<>> /\ b.open = <<>> /\ b.locator = locator
      /\ b.count = [kind \in NestedKinds |-> 0] /\ b.entities = <<own>>
  BY <1>1, <1>2, <1>3 DEF NewBuilder, BuilderFields
<1>5. own.kind = "entry" /\ own.locator = locator /\ DOMAIN own = EntityFields
  BY <1>3 DEF EntityFields
<1>6. DOMAIN <<own>> = {1} /\ <<own>>[1] = own
  OBVIOUS
<1>7. EntitiesOk(<<own>>, locator, b.count)
  BY <1>5, <1>6, SeqMade DEF EntitiesOk
<1>. QED BY <1>1, <1>4, <1>7, RelationsMade DEF BuilderOk

LEMMA KindsOfElements ==
  ASSUME NEW d, NEW name PROVE EntityElement(d, name) = "" \/ EntityElement(d, name) \in NestedKinds
BY DEF EntityElement, NestedKinds

LEMMA NestedLocatorIs ==
  ASSUME NEW b, BuilderOk(b), NEW kind \in NestedKinds
  PROVE  LET locator == NestedLocator(b, kind) IN
         /\ locator.file = b.locator.file /\ locator.entry = b.locator.entry
         /\ locator.at[kind] = b.count[kind] + 1
<1>1. PICK at : at = [k \in NestedKinds |->
         IF k = kind THEN b.count[k] + 1
         ELSE IF k \in Outer(kind) /\ b.current[k] # <<>> THEN b.current[k][1].at[k]
         ELSE 0]
  OBVIOUS
<1>2. at[kind] = b.count[kind] + 1
  BY <1>1
<1>3. PICK locator : locator = [b.locator EXCEPT !.at = at]
  OBVIOUS
<1>4. NestedLocator(b, kind) = locator
  BY <1>1, <1>3, Zenon DEF NestedLocator
<1>5. locator.file = b.locator.file /\ locator.entry = b.locator.entry /\ locator.at = at
  BY <1>3 DEF BuilderOk
<1>. QED BY <1>2, <1>4, <1>5

LEMMA OpenEntityOk ==
  ASSUME NEW b, BuilderOk(b), NEW d, NEW r, NEW kind \in NestedKinds
  PROVE  Still(b, OpenEntity(b, d, r, kind))
<1>1. PICK locator, key : /\ locator = NestedLocator(b, kind)
                          /\ key = IF d = "krdict" THEN LmfIdentifier(r.attributes) ELSE Absent
  OBVIOUS
<1>2. PICK x : x = [kind |-> kind, locator |-> locator, key |-> key]
  OBVIOUS
<1>3. PICK count, current, entities :
         /\ count = [b.count EXCEPT ![kind] = @ + 1]
         /\ current = [b.current EXCEPT ![kind] = <<locator>>]
         /\ entities = Append(b.entities, x)
  OBVIOUS
<1>4. OpenEntity(b, d, r, kind) =
        [b EXCEPT !.count[kind] = @ + 1, !.current[kind] = <<locator>>,
                  !.entities = Append(@, [kind |-> kind, locator |-> locator, key |-> key])]
  BY <1>1, Zenon DEF OpenEntity
<1>5. PICK b1, b2, b3 :
         /\ b1 = [b EXCEPT !.count = count] /\ b2 = [b1 EXCEPT !.current = current]
         /\ b3 = [b2 EXCEPT !.entities = entities]
  OBVIOUS
<1>6. /\ DOMAIN b1 = BuilderFields /\ b1.count = count /\ b1.current = b.current
      /\ b1.entities = b.entities /\ b1.open = b.open /\ b1.relations = b.relations
      /\ b1.locator = b.locator
  BY <1>5 DEF BuilderOk, BuilderFields
<1>7. /\ DOMAIN b2 = BuilderFields /\ b2.count = count
      /\ b2.entities = b.entities /\ b2.open = b.open /\ b2.relations = b.relations
      /\ b2.locator = b.locator
  BY <1>5, <1>6 DEF BuilderFields
<1>8. /\ DOMAIN b3 = BuilderFields /\ b3.count = count
      /\ b3.entities = entities /\ b3.open = b.open /\ b3.relations = b.relations
      /\ b3.locator = b.locator
  BY <1>5, <1>7 DEF BuilderFields
<1>9. [b EXCEPT !.count[kind] = @ + 1, !.current[kind] = <<locator>>,
                !.entities = Append(@, [kind |-> kind, locator |-> locator, key |-> key])] = b3
  BY <1>2, <1>3, <1>5, <1>6, <1>7 DEF BuilderOk, BuilderFields
<1>10. count \in [NestedKinds -> Nat] /\ count[kind] = b.count[kind] + 1
       /\ \A k \in NestedKinds : b.count[k] \in Nat /\ b.count[k] <= count[k]
  BY <1>3 DEF BuilderOk
<1>11. /\ DOMAIN x = EntityFields /\ x.kind = kind /\ x.locator.file = b.locator.file
       /\ x.locator.entry = b.locator.entry /\ Ordinal(x) = count[kind]
  BY <1>1, <1>2, <1>10, NestedLocatorIs DEF EntityFields, Ordinal
<1>12. EntitiesOk(entities, b.locator, count)
  <2>1. PICK old : old = b.entities
    OBVIOUS
  <2>2. EntitiesOk(old, b.locator, b.count)
    BY <2>1 DEF BuilderOk
  <2>3. PICK S : old \in Seq(S)
    BY <2>2 DEF EntitiesOk, IsSeq
  <2>4. PICK n \in Nat : n = Len(old) /\ DOMAIN old = 1..n
    BY <2>3
  <2>5. n >= 1
    BY <2>2, <2>4 DEF EntitiesOk
  <2>6. entities \in Seq(S \cup {x}) /\ DOMAIN entities = 1..(n + 1) /\ entities[n + 1] = x
        /\ \A i \in 1..n : entities[i] = old[i]
    BY <1>3, <2>1, <2>3, <2>4
  <2>7. IsSeq(entities) /\ 1 \in DOMAIN entities
    BY <2>5, <2>6 DEF IsSeq
  <2>8. \A i \in DOMAIN entities : DOMAIN entities[i] = EntityFields
    BY <1>11, <2>2, <2>4, <2>6 DEF EntitiesOk
  <2>9. entities[1].kind = "entry" /\ entities[1].locator = b.locator
    BY <2>2, <2>5, <2>6 DEF EntitiesOk
  <2>10. ASSUME NEW i \in 1..n, i # 1
         PROVE  /\ old[i].kind \in NestedKinds /\ Ordinal(old[i]) \in 1..b.count[old[i].kind]
                /\ Nested(old[i], b.locator, count)
    <3>1. Nested(old[i], b.locator, b.count)
      BY <2>2, <2>4, <2>10 DEF EntitiesOk
    <3>2. old[i].kind \in NestedKinds /\ Ordinal(old[i]) \in 1..b.count[old[i].kind]
      BY <3>1 DEF Nested
    <3>3. Ordinal(old[i]) \in 1..count[old[i].kind]
      BY <1>10, <3>2
    <3>. QED BY <3>1, <3>2, <3>3 DEF Nested
  <2>11. Nested(x, b.locator, count)
    BY <1>10, <1>11 DEF Nested
  <2>12. \A i \in DOMAIN entities \ {1} : Nested(entities[i], b.locator, count)
    BY <2>6, <2>10, <2>11
  <2>13. ASSUME NEW i \in DOMAIN entities \ {1}, NEW j \in DOMAIN entities \ {1}, i # j,
                entities[i].kind = entities[j].kind
         PROVE  Ordinal(entities[i]) # Ordinal(entities[j])
    <3>1. i \in 1..(n + 1) /\ j \in 1..(n + 1)
      BY <2>6, <2>13
    <3>2. CASE i = n + 1
      <4>1. j \in 1..n /\ entities[i] = x /\ entities[j] = old[j]
        BY <2>6, <2>13, <3>1, <3>2
      <4>2. old[j].kind = kind /\ Ordinal(old[j]) \in 1..b.count[kind]
        BY <1>11, <2>10, <2>13, <4>1
      <4>. QED BY <1>10, <1>11, <4>1, <4>2
    <3>3. CASE j = n + 1
      <4>1. i \in 1..n /\ entities[j] = x /\ entities[i] = old[i]
        BY <2>6, <2>13, <3>1, <3>3
      <4>2. old[i].kind = kind /\ Ordinal(old[i]) \in 1..b.count[kind]
        BY <1>11, <2>10, <2>13, <4>1
      <4>. QED BY <1>10, <1>11, <4>1, <4>2
    <3>4. CASE i \in 1..n /\ j \in 1..n
      BY <2>2, <2>4, <2>6, <2>13, <3>4 DEF EntitiesOk
    <3>. QED BY <3>1, <3>2, <3>3, <3>4
  <2>. QED BY <2>7, <2>8, <2>9, <2>12, <2>13 DEF EntitiesOk
<1>13. Still(b, b3)
  BY <1>8, <1>10, <1>12 DEF BuilderOk, Still
<1>. QED BY <1>4, <1>9, <1>13

LEMMA OpenRelationOk ==
  ASSUME NEW b, BuilderOk(b) PROVE Still(b, OpenRelation(b))
<1>1. PICK r : r = [source |-> Nearest(b), ordinal |-> b.containers + 1, fields |-> NoFields]
  OBVIOUS
<1>2. RelationOk(r)
  <2>1. DOMAIN NoFields = FieldNames /\ NoFields.key = <<>>
    BY DEF NoFields, FieldNames
  <2>2. DOMAIN r = {"source", "ordinal", "fields"} /\ r.fields = NoFields
    BY <1>1
  <2>. QED BY <2>1, <2>2, SeqMade DEF RelationOk
<1>3. PICK open, containers : open = <<r>> /\ containers = b.containers + 1
  OBVIOUS
<1>4. PICK b1, b2 : b1 = [b EXCEPT !.containers = containers] /\ b2 = [b1 EXCEPT !.open = open]
  OBVIOUS
<1>5. /\ DOMAIN b1 = BuilderFields /\ b1.open = b.open /\ b1.relations = b.relations
      /\ b1.locator = b.locator /\ b1.count = b.count /\ b1.entities = b.entities
  BY <1>4 DEF BuilderOk, BuilderFields
<1>6. /\ DOMAIN b2 = BuilderFields /\ b2.open = open /\ b2.relations = b.relations
      /\ b2.locator = b.locator /\ b2.count = b.count /\ b2.entities = b.entities
  BY <1>4, <1>5 DEF BuilderFields
<1>7. OpenRelation(b) = [b EXCEPT !.containers = containers, !.open = open]
  BY <1>1, <1>3, Zenon DEF OpenRelation
<1>8. OpenRelation(b) = b2
  BY <1>4, <1>7 DEF BuilderOk, BuilderFields
<1>9. RelationsOk(open)
  BY <1>2, <1>3, RelationsMade
<1>. QED BY <1>6, <1>8, <1>9 DEF BuilderOk, Still

LEMMA BuilderStartOk ==
  ASSUME NEW b, BuilderOk(b), NEW d, NEW r PROVE Still(b, BuilderStart(b, d, r))
<1>1. PICK c, kind : c = [b EXCEPT !.path = Append(@, r.name)] /\ kind = EntityElement(d, r.name)
  OBVIOUS
<1>2. Still(b, c)
  BY <1>1, SetFieldOk
<1>3. PICK e : e = Enter(c, d, r, kind)
  OBVIOUS
<1>4. Still(c, e)
  <2>1. BuilderOk(c)
    BY <1>2 DEF Still
  <2>2. CASE kind = ""
    BY <1>3, <2>1, <2>2, StillSelf, Zenon DEF Enter
  <2>3. CASE kind # ""
    <3>1. kind \in NestedKinds
      BY <1>1, <2>3, KindsOfElements
    <3>2. e = OpenEntity(c, d, r, kind)
      BY <1>3, <2>3, Zenon DEF Enter
    <3>. QED BY <2>1, <3>1, <3>2, OpenEntityOk
  <2>. QED BY <2>2, <2>3
<1>5. Still(e, Contain(e, d, r))
  <2>1. BuilderOk(e)
    BY <1>4 DEF Still
  <2>. QED BY <2>1, OpenRelationOk, StillSelf, Zenon DEF Contain
<1>6. BuilderStart(b, d, r) = Contain(e, d, r)
  BY <1>1, <1>3, Zenon DEF BuilderStart
<1>. QED BY <1>2, <1>4, <1>5, <1>6, StillOn

LEMMA BuilderEmptyOk ==
  ASSUME NEW b, BuilderOk(b), NEW d, NEW r PROVE Still(b, BuilderEmpty(b, d, r))
<1> DEFINE field == Attribute(r.attributes, "att")
           given == Attribute(r.attributes, "val")
           value == IF given = Absent THEN Plain("") ELSE given
           name == IF field.padded THEN "" ELSE FeatureField(field.text)
           c1 == d # "krdict" \/ r.name # "feat" \/ field = Absent
           c2 == b.open # <<>> /\ Innermost(b) = "SenseRelation"
           c3 == field = Plain("writtenForm") /\ Inside(b, "Lemma")
           c4 == field = Plain("homonym_number") /\ Len(b.path) = 1
           e2 == AddField(b, name, value)
           e3 == [b EXCEPT !.headword = SetOnce(@, value)]
           e4 == [b EXCEPT !.homonym = SetOnce(@, value)]
<1>1. (c2 => Still(b, e2)) /\ Still(b, e3) /\ Still(b, e4)
  <2> HIDE DEF value, name
  <2>. QED BY AddFieldOk, SetFieldOk
<1>2. BuilderEmpty(b, d, r) = CASE c1 -> b [] c2 -> e2 [] c3 -> e3 [] c4 -> e4 [] OTHER -> b
  BY Zenon DEF BuilderEmpty
<1> HIDE DEF c1, c2, c3, c4, e2, e3, e4
<1>3. \/ c2 /\ BuilderEmpty(b, d, r) = e2
      \/ BuilderEmpty(b, d, r) \in {b, e3, e4}
  BY <1>2
<1>. QED BY <1>1, <1>3, StillSelf

LEMMA BuilderTextOk ==
  ASSUME NEW b, BuilderOk(b), NEW d, NEW value PROVE Still(b, BuilderText(b, d, value))
<1> DEFINE name == Innermost(b)
           kind == KeyElement(d, name)
           c1 == b.open # <<>>
           c2 == b.open = <<>> /\ d = "krdict"
           c3 == b.open = <<>> /\ name = "target_code" /\ Len(b.path) = 2
           c4 == b.open = <<>> /\ kind # ""
           c5 == b.open = <<>> /\ name = "word"
                 /\ Inside(b, IF d = "stdict" THEN "word_info" ELSE "wordInfo")
           c6 == b.open = <<>> /\ name = "group_order" /\ Len(b.path) = 2 /\ d = "opendict"
           e1 == AddField(b, TextField(name), value)
           e3 == SetEntityKey(b, b.locator, value)
           e4 == IF b.current[kind] = <<>> THEN b ELSE SetEntityKey(b, b.current[kind][1], value)
           e5 == [b EXCEPT !.headword = SetOnce(@, value)]
           e6 == [b EXCEPT !.homonym = SetOnce(@, value)]
<1>1. /\ c1 => Still(b, e1)
      /\ Still(b, e3) /\ Still(b, e4) /\ Still(b, e5) /\ Still(b, e6)
  <2>1. c1 => Still(b, e1)
    BY AddFieldOk
  <2>2. Still(b, e3)
    BY SetEntityKeyOk
  <2>3. Still(b, e4)
    <3> HIDE DEF kind
    <3>. QED BY SetEntityKeyOk, StillSelf
  <2>4. Still(b, e5) /\ Still(b, e6)
    BY SetFieldOk
  <2>. QED BY <2>1, <2>2, <2>3, <2>4
<1>2. BuilderText(b, d, value) =
        CASE c1 -> e1 [] c2 -> b [] c3 -> e3 [] c4 -> e4 [] c5 -> e5 [] c6 -> e6 [] OTHER -> b
  BY Zenon DEF BuilderText
<1> HIDE DEF c1, c2, c3, c4, c5, c6, e1, e3, e4, e5, e6
<1>3. \/ c1 /\ BuilderText(b, d, value) = e1
      \/ BuilderText(b, d, value) \in {b, e3, e4, e5, e6}
  BY <1>2
<1>. QED BY <1>1, <1>3, StillSelf

LEMMA BuilderEndOk ==
  ASSUME NEW b, BuilderOk(b), NEW d, NEW name PROVE Still(b, BuilderEnd(b, d, name))
<1> DEFINE taken == IF IsContainer(d, name) /\ b.open # <<>>
                      THEN [b EXCEPT !.relations = @ \o b.open, !.open = <<>>] ELSE b
<1>1. Still(b, [b EXCEPT !.relations = @ \o b.open, !.open = <<>>])
  <2>1. PICK list : list = b.relations \o b.open
    OBVIOUS
  <2>2. RelationsOk(list)
    BY <2>1, RelationsMade DEF BuilderOk
  <2>3. PICK b1, b2 : b1 = [b EXCEPT !.relations = list] /\ b2 = [b1 EXCEPT !.open = <<>>]
    OBVIOUS
  <2>4. /\ DOMAIN b1 = BuilderFields /\ b1.relations = list
        /\ b1.locator = b.locator /\ b1.count = b.count /\ b1.entities = b.entities
    BY <2>3 DEF BuilderOk, BuilderFields
  <2>5. /\ DOMAIN b2 = BuilderFields /\ b2.relations = list /\ b2.open = <<>>
        /\ b2.locator = b.locator /\ b2.count = b.count /\ b2.entities = b.entities
    BY <2>3, <2>4 DEF BuilderFields
  <2>6. [b EXCEPT !.relations = @ \o b.open, !.open = <<>>] = b2
    BY <2>1, <2>3
  <2>. QED BY <2>2, <2>5, <2>6, RelationsMade DEF BuilderOk, Still
<1>2. PICK c : c = taken
  OBVIOUS
<1>3. Still(b, c)
  BY <1>1, <1>2, StillSelf
<1>4. PICK k : k = EntityElement(d, name)
  OBVIOUS
<1>5. PICK closed : closed = Closed(c, k)
  OBVIOUS
<1>6. Still(c, closed)
  <2>1. PICK current : current = [c.current EXCEPT ![k] = <<>>]
    OBVIOUS
  <2>2. BuilderOk(c)
    BY <1>3 DEF Still
  <2>3. Still(c, [c EXCEPT !.current = current])
    BY <2>2, SetFieldOk
  <2>4. [c EXCEPT !.current[k] = <<>>] = [c EXCEPT !.current = current]
    BY <2>1
  <2>. QED BY <1>5, <2>2, <2>3, <2>4, StillSelf, Zenon DEF Closed
<1>7. PICK path : path = SubSeq(closed.path, 1, Len(closed.path) - 1)
  OBVIOUS
<1>8. BuilderEnd(b, d, name) = [Closed(c, k) EXCEPT !.path = SubSeq(@, 1, Len(@) - 1)]
  BY <1>2, <1>4, Zenon DEF BuilderEnd
<1>9. BuilderEnd(b, d, name) = [closed EXCEPT !.path = path]
  BY <1>5, <1>7, <1>8
<1>10. Still(closed, [closed EXCEPT !.path = path])
  BY <1>6, SetFieldOk DEF Still
<1>. QED BY <1>3, <1>6, <1>9, <1>10, StillOn

\* The entities of an entry with that locator, of which no two have kind and locator in
\* common.
OwnEntities(list, locator) ==
  /\ IsSeq(list) /\ 1 \in DOMAIN list
  /\ list[1].kind = "entry" /\ list[1].locator = locator
  /\ \A i \in DOMAIN list \ {1} :
       /\ list[i].kind \in NestedKinds
       /\ list[i].locator.file = locator.file /\ list[i].locator.entry = locator.entry
  /\ \A i, j \in DOMAIN list :
       i # j /\ list[i].kind = list[j].kind => list[i].locator # list[j].locator
EntryOk(e) == OwnEntities(e.entities, e.locator) /\ RelationsOk(e.relations)

LEMMA EntitiesOwned ==
  ASSUME NEW list, NEW locator, NEW count, EntitiesOk(list, locator, count)
  PROVE  OwnEntities(list, locator)
<1>1. \A i \in DOMAIN list \ {1} : Nested(list[i], locator, count)
  BY DEF EntitiesOk
<1>2. \A i \in DOMAIN list \ {1} : list[i].kind \in NestedKinds /\ list[i].kind # "entry"
  BY <1>1 DEF Nested, NestedKinds
<1>3. ASSUME NEW i \in DOMAIN list, NEW j \in DOMAIN list, i # j, list[i].kind = list[j].kind,
             list[i].locator = list[j].locator
      PROVE  FALSE
  <2>1. i # 1 /\ j # 1
    BY <1>2, <1>3 DEF EntitiesOk
  <2>2. Ordinal(list[i]) # Ordinal(list[j])
    BY <1>3, <2>1 DEF EntitiesOk
  <2>. QED BY <1>3, <2>2 DEF Ordinal
<1>. QED BY <1>1, <1>2, <1>3 DEF EntitiesOk, OwnEntities, Nested

\* The entries of a file, each in its place.
EntriesOk(entries) == \E S : entries \in Seq(S) /\ \A e \in S : EntryOk(e)
Placed(entries, file) ==
  \A i \in DOMAIN entries : entries[i].locator.file = file /\ entries[i].locator.entry = i
ParsedFields == {"entries", "count", "builder"}
ParsedOk(p, file) ==
  /\ DOMAIN p = ParsedFields
  /\ EntriesOk(p.entries) /\ Placed(p.entries, file)
  /\ p.builder = <<>> => p.count = Len(p.entries)
  /\ p.builder # <<>> => /\ BuilderOk(p.builder[1])
                         /\ p.builder[1].locator = EntryLocator(file, p.count)
                         /\ p.count = Len(p.entries) + 1

LEMMA NothingParsedOk == ASSUME NEW file PROVE ParsedOk(NothingParsed, file)
<1>1. EntriesOk(<<>>)
  <2>1. PICK S : S = {}
    OBVIOUS
  <2>2. <<>> \in Seq(S) /\ \A e \in S : EntryOk(e)
    BY <2>1
  <2>. QED BY <2>2 DEF EntriesOk
<1>2. PICK p : p = NothingParsed
  OBVIOUS
<1>3. DOMAIN p = ParsedFields /\ p.entries = <<>> /\ p.builder = <<>> /\ p.count = 0
  BY <1>2 DEF NothingParsed, ParsedFields
<1>4. Len(<<>>) = 0 /\ DOMAIN <<>> = {}
  OBVIOUS
<1>. QED BY <1>1, <1>2, <1>3, <1>4 DEF ParsedOk, Placed

LEMMA LocatorIs ==
  ASSUME NEW file, NEW n
  PROVE  /\ DOMAIN EntryLocator(file, n) = {"file", "entry", "at"}
         /\ EntryLocator(file, n).file = file /\ EntryLocator(file, n).entry = n
BY DEF EntryLocator

LEMMA BuildsOk ==
  ASSUME NEW file, NEW p, ParsedOk(p, file), p.builder # <<>>, NEW b, Still(p.builder[1], b)
  PROVE  ParsedOk(Builds(p, b), file)
<1>1. PICK q : q = [p EXCEPT !.builder = <<b>>]
  OBVIOUS
<1>2. DOMAIN q = ParsedFields /\ q.entries = p.entries /\ q.builder = <<b>> /\ q.count = p.count
  BY <1>1 DEF ParsedOk, ParsedFields
<1>3. q.builder[1] = b /\ q.builder # <<>>
  BY <1>2
<1>4. BuilderOk(b) /\ b.locator = EntryLocator(file, p.count)
  BY DEF ParsedOk, Still
<1>. QED BY <1>1, <1>2, <1>3, <1>4 DEF ParsedOk, Builds

LEMMA BeginBuilderOk ==
  ASSUME NEW file, NEW p, ParsedOk(p, file), p.builder = <<>>, NEW d, NEW r
  PROVE  ParsedOk(BeginBuilder(d, file, p, r), file)
<1>1. PICK locator : locator = EntryLocator(file, p.count + 1)
  OBVIOUS
<1>2. PICK b : b = NewBuilder(d, locator, r)
  OBVIOUS
<1>3. BuilderOk(b) /\ b.locator = locator
  BY <1>1, <1>2, LocatorIs, NewBuilderOk
<1>4. PICK q1, q2, count :
         count = p.count + 1 /\ q1 = [p EXCEPT !.count = count] /\ q2 = [q1 EXCEPT !.builder = <<b>>]
  OBVIOUS
<1>5. DOMAIN q1 = ParsedFields /\ q1.entries = p.entries /\ q1.count = count
  BY <1>4 DEF ParsedOk, ParsedFields
<1>6. DOMAIN q2 = ParsedFields /\ q2.entries = p.entries /\ q2.builder = <<b>> /\ q2.count = count
  BY <1>4, <1>5 DEF ParsedFields
<1>7. q2.builder[1] = b /\ q2.builder # <<>>
  BY <1>6
<1>8. BeginBuilder(d, file, p, r) = q2
  BY <1>1, <1>2, <1>4 DEF BeginBuilder
<1>9. count = Len(p.entries) + 1
  BY <1>4 DEF ParsedOk
<1>. QED BY <1>1, <1>3, <1>4, <1>6, <1>7, <1>8, <1>9 DEF ParsedOk

LEMMA EntryFinishes ==
  ASSUME NEW file, NEW p, ParsedOk(p, file), p.builder # <<>>, NEW b, b = p.builder[1]
  PROVE  ParsedOk([p EXCEPT !.entries = Append(@, Finished(b)), !.builder = <<>>], file)
<1>0. BuilderOk(b) /\ b.locator = EntryLocator(file, p.count) /\ p.count = Len(p.entries) + 1
  BY DEF ParsedOk
<1>1. PICK e : e = Finished(b)
  OBVIOUS
<1>2. EntryOk(e) /\ e.locator.file = file /\ e.locator.entry = p.count
  <2>1. e.relations = b.relations /\ e.entities = b.entities /\ e.locator = b.locator
    BY <1>1 DEF Finished
  <2>. QED BY <1>0, <2>1, EntitiesOwned, LocatorIs DEF EntryOk, BuilderOk
<1>3. PICK S : p.entries \in Seq(S) /\ \A x \in S : EntryOk(x)
  BY DEF ParsedOk, EntriesOk
<1>4. PICK T : T = S \cup {e}
  OBVIOUS
<1>5. PICK entries : entries = Append(p.entries, e)
  OBVIOUS
<1>6. p.entries \in Seq(T) /\ e \in T /\ \A x \in T : EntryOk(x)
  BY <1>2, <1>3, <1>4
<1>7. PICK n \in Nat : n = Len(p.entries) /\ DOMAIN p.entries = 1..n
  BY <1>3
<1>8. /\ entries \in Seq(T) /\ Len(entries) = n + 1 /\ DOMAIN entries = 1..(n + 1)
      /\ entries[n + 1] = e /\ \A i \in 1..n : entries[i] = p.entries[i]
  BY <1>5, <1>6, <1>7
<1>9. EntriesOk(entries)
  BY <1>6, <1>8 DEF EntriesOk
<1>10. Placed(entries, file)
  <2>1. p.count = n + 1
    BY <1>0, <1>7
  <2>2. \A i \in 1..n : entries[i].locator.file = file /\ entries[i].locator.entry = i
    BY <1>7, <1>8 DEF ParsedOk, Placed
  <2>3. \A i \in 1..(n + 1) : i = n + 1 \/ i \in 1..n
    BY <1>7
  <2>. QED BY <1>2, <1>8, <2>1, <2>2, <2>3 DEF Placed
<1>11. PICK q1, q2 : q1 = [p EXCEPT !.entries = entries] /\ q2 = [q1 EXCEPT !.builder = <<>>]
  OBVIOUS
<1>12. DOMAIN q1 = ParsedFields /\ q1.entries = entries /\ q1.count = p.count
  BY <1>11 DEF ParsedOk, ParsedFields
<1>13. DOMAIN q2 = ParsedFields /\ q2.entries = entries /\ q2.builder = <<>> /\ q2.count = p.count
  BY <1>11, <1>12 DEF ParsedFields
<1>14. [p EXCEPT !.entries = Append(@, Finished(b)), !.builder = <<>>] = q2
  BY <1>1, <1>5, <1>11
<1>15. q2.count = Len(q2.entries)
  BY <1>0, <1>7, <1>8, <1>13
<1>. QED BY <1>9, <1>10, <1>13, <1>14, <1>15 DEF ParsedOk

LEMMA ParseRecordOk ==
  ASSUME NEW file, NEW p, ParsedOk(p, file), NEW d, NEW r,
         r.kind \in {"start", "empty", "text", "tail", "end"}
  PROVE  ParsedOk(ParseRecord(d, file, p, r), file)
<1> DEFINE b == p.builder[1]
           e1 == IF r.kind = "start" /\ r.name = EntryElement(d) THEN BeginBuilder(d, file, p, r)
                 ELSE p
           e2 == Builds(p, BuilderStart(b, d, r))
           e3 == Builds(p, BuilderEmpty(b, d, r))
           e4 == Builds(p, BuilderText(b, d, r.value))
           e6 == IF r.depth = b.depth /\ r.name = b.name
                   THEN [p EXCEPT !.entries = Append(@, Finished(b)), !.builder = <<>>]
                   ELSE Builds(p, BuilderEnd(b, d, r.name))
<1>1. ParseRecord(d, file, p, r) =
        CASE p.builder = <<>> -> e1
          [] p.builder # <<>> /\ r.kind = "start" -> e2
          [] p.builder # <<>> /\ r.kind = "empty" -> e3
          [] p.builder # <<>> /\ r.kind = "text" -> e4
          [] p.builder # <<>> /\ r.kind = "tail" -> p
          [] p.builder # <<>> /\ r.kind = "end" -> e6
  BY Zenon DEF ParseRecord
<1>2. ASSUME p.builder = <<>> PROVE ParsedOk(e1, file)
  BY <1>2, BeginBuilderOk, Zenon
<1>3. ASSUME p.builder # <<>>
      PROVE  ParsedOk(e2, file) /\ ParsedOk(e3, file) /\ ParsedOk(e4, file) /\ ParsedOk(e6, file)
  <2>1. BuilderOk(b)
    BY <1>3 DEF ParsedOk
  <2>2. ParsedOk(e2, file) /\ ParsedOk(e3, file) /\ ParsedOk(e4, file)
    <3>1. Still(b, BuilderStart(b, d, r)) /\ Still(b, BuilderEmpty(b, d, r))
          /\ Still(b, BuilderText(b, d, r.value))
      <4> HIDE DEF b
      <4>. QED BY <2>1, BuilderStartOk, BuilderEmptyOk, BuilderTextOk
    <3>. QED BY <1>3, <3>1, BuildsOk
  <2>3. ParsedOk(e6, file)
    <3>1. Still(b, BuilderEnd(b, d, r.name))
      <4> HIDE DEF b
      <4>. QED BY <2>1, BuilderEndOk
    <3>2. ParsedOk(Builds(p, BuilderEnd(b, d, r.name)), file)
      BY <1>3, <3>1, BuildsOk
    <3>3. PICK c : c = b
      OBVIOUS
    <3>4. ParsedOk([p EXCEPT !.entries = Append(@, Finished(c)), !.builder = <<>>], file)
      BY <1>3, <3>3, EntryFinishes
    <3>. QED BY <3>2, <3>3, <3>4, Zenon
  <2>. QED BY <2>2, <2>3
<1> HIDE DEF e1, e2, e3, e4, e6
<1>4. CASE p.builder = <<>>
  <2>1. ParseRecord(d, file, p, r) = e1
    BY <1>1, <1>4
  <2>. QED BY <1>2, <1>4, <2>1
<1>5. CASE p.builder # <<>>
  <2>1. ParseRecord(d, file, p, r) \in {e2, e3, e4, p, e6}
    BY <1>1, <1>5
  <2>. QED BY <1>3, <1>5, <2>1
<1>. QED BY <1>4, <1>5

\* The loop over the records of a file has its recursion solved, one record after the
\* other.
LoopOf(d, file, records, f) ==
  f = [n \in 0..Len(records) |-> IF n = 0 THEN NothingParsed
                                 ELSE ParseRecord(d, file, f[n - 1], records[n])]

LEMMA LoopExists ==
  ASSUME NEW d, NEW file, NEW records, Len(records) \in Nat
  PROVE  \E f : LoopOf(d, file, records, f)
<1> DEFINE E(f, n) == IF n = 0 THEN NothingParsed ELSE ParseRecord(d, file, f[n - 1], records[n])
           T == {n \in Nat : \E f : f = [m \in 0..n |-> E(f, m)]}
<1>1. 0 \in T
  <2> DEFINE f == [m \in 0..0 |-> NothingParsed]
  <2>1. f = [m \in 0..0 |-> E(f, m)]
    OBVIOUS
  <2> HIDE DEF f
  <2>. QED BY <2>1
<1>2. ASSUME NEW n \in Nat, n \in T PROVE n + 1 \in T
  <2>1. PICK f : f = [m \in 0..n |-> E(f, m)]
    BY <1>2
  <2> DEFINE v == ParseRecord(d, file, f[n], records[n + 1])
             g == [m \in 0..(n + 1) |-> IF m = n + 1 THEN v ELSE f[m]]
  <2>2. \A m \in 0..n : f[m] = E(f, m)
    BY <2>1
  <2>3. \A m \in 0..(n + 1) : g[m] = IF m = n + 1 THEN v ELSE f[m]
    OBVIOUS
  <2> HIDE DEF g
  <2>4. \A m \in 0..(n + 1) : g[m] = E(g, m)
    <3> TAKE m \in 0..(n + 1)
    <3>1. CASE m = n + 1
      <4>1. m # 0 /\ m - 1 = n /\ n \in 0..(n + 1) /\ n # n + 1
        BY <3>1
      <4>2. g[m - 1] = f[n]
        BY <2>3, <4>1
      <4>3. g[m] = v
        BY <2>3, <3>1
      <4>. QED BY <3>1, <4>1, <4>2, <4>3
    <3>2. CASE m = 0
      BY <2>2, <2>3, <3>2
    <3>3. CASE m \in 1..n
      <4>1. m - 1 \in 0..n /\ m \in 0..n /\ m # 0 /\ m # n + 1 /\ m - 1 # n + 1
            /\ m - 1 \in 0..(n + 1)
        BY <3>3
      <4>2. g[m - 1] = f[m - 1] /\ g[m] = f[m]
        BY <2>3, <4>1
      <4>. QED BY <2>2, <4>1, <4>2
    <3>. QED BY <3>1, <3>2, <3>3
  <2>5. g = [m \in 0..(n + 1) |-> E(g, m)]
    <3>1. g = [m \in 0..(n + 1) |-> g[m]]
      BY DEF g
    <3>. QED BY <2>4, <3>1
  <2>. QED BY <2>5
<1>3. Len(records) \in T
  <2> HIDE DEF T
  <2>. QED BY <1>1, <1>2, SetInduction
<1>. QED BY <1>3 DEF LoopOf

\* What parse_volume makes of the records of a source.
LEMMA ParseVolumeOk ==
  ASSUME NEW d, NEW file, NEW records \in Documents
  PROVE  /\ EntriesOk(ParseVolume(d, file, records).entries)
         /\ Placed(ParseVolume(d, file, records).entries, file)
<1>1. records \in Seq(SourceRecords) /\ Len(records) \in Nat
  BY DEF Documents
<1>2. PICK f : f = CHOOSE g : LoopOf(d, file, records, g)
  OBVIOUS
<1>3. LoopOf(d, file, records, f)
  BY <1>1, <1>2, LoopExists
<1>4. \A n \in 0..Len(records) :
         f[n] = IF n = 0 THEN NothingParsed ELSE ParseRecord(d, file, f[n - 1], records[n])
  BY <1>3 DEF LoopOf
<1> DEFINE T == {n \in 0..Len(records) : ParsedOk(f[n], file)}
<1>5. 0 \in T
  BY <1>1, <1>4, NothingParsedOk
<1>6. \A n \in 0..(Len(records) - 1) : n \in T => n + 1 \in T
  <2> TAKE n \in 0..(Len(records) - 1)
  <2> HAVE n \in T
  <2>1. PICK p, r : p = f[n] /\ r = records[n + 1]
    OBVIOUS
  <2>2. n + 1 \in 1..Len(records) /\ n + 1 \in 0..Len(records) /\ n + 1 # 0 /\ (n + 1) - 1 = n
    BY <1>1
  <2>3. r \in SourceRecords
    BY <1>1, <2>1, <2>2
  <2>4. ParsedOk(p, file) /\ r.kind \in {"start", "empty", "text", "tail", "end"}
    BY <2>1, <2>3 DEF SourceRecords
  <2>5. ParsedOk(ParseRecord(d, file, p, r), file)
    BY <2>4, ParseRecordOk
  <2>6. f[n + 1] = ParseRecord(d, file, p, r)
    BY <1>4, <2>1, <2>2
  <2>. QED BY <2>2, <2>5, <2>6
<1>7. Len(records) \in T
  <2> HIDE DEF T
  <2>1. Len(records) \in Int /\ 0 \in Int
    BY <1>1
  <2>2. 0..Len(records) \subseteq T
    BY <1>5, <1>6, <2>1, IntervalInduction, Zenon
  <2>. QED BY <1>1, <2>2
<1>8. ParsedOk(f[Len(records)], file)
  BY <1>7
<1>9. ParseVolume(d, file, records) = f[Len(records)]
  BY <1>2, Zenon DEF ParseVolume, LoopOf
<1>. QED BY <1>8, <1>9 DEF ParsedOk

(***************************************************************************)
(* What the passes hold in memory are lists.                               *)
(***************************************************************************)

LEMMA TableIs == ASSUME NEW f PROVE Table(f) = f
BY DEF Table

Members(s) == {s[i] : i \in DOMAIN s}

LEMMA SeqIs ==
  ASSUME NEW s, IsSeq(s)
  PROVE  /\ Len(s) \in Nat /\ DOMAIN s = 1..Len(s) /\ s = [i \in 1..Len(s) |-> s[i]]
         /\ s \in Seq(Members(s)) /\ IsFiniteSet(Members(s))
<1>1. PICK S : s \in Seq(S)
  BY DEF IsSeq
<1>2. PICK n \in Nat : n = Len(s) /\ s \in [1..n -> S]
  BY <1>1, LenProperties
<1>3. PICK M : M = Members(s)
  OBVIOUS
<1>4. \A i \in 1..n : s[i] \in M
  BY <1>2, <1>3 DEF Members
<1>5. s \in [1..n -> M]
  BY <1>2, <1>4
<1>6. s \in Seq(M)
  BY <1>5, SeqDef
<1>7. IsFiniteSet(Members(s))
  <2>1. IsFiniteSet(1..n)
    BY FS_Interval
  <2>2. s \in Surjection(1..n, M)
    BY <1>2, <1>3, <1>5 DEF Members, Surjection
  <2>. QED BY <1>3, <2>1, <2>2, FS_Surjection
<1>. QED BY <1>2, <1>3, <1>6, <1>7

LEMMA SeqOf ==
  ASSUME NEW n \in Nat, NEW s, DOMAIN s = 1..n, s = [i \in 1..n |-> s[i]] PROVE IsSeq(s) /\ Len(s) = n
<1>1. PICK M : M = Members(s)
  OBVIOUS
<1>2. \A i \in 1..n : s[i] \in M
  BY <1>1 DEF Members
<1>3. s \in [1..n -> M]
  BY <1>2
<1>4. s \in Seq(M)
  BY <1>3, SeqDef
<1>5. Len(s) = n
  BY <1>4, LenProperties
<1>. QED BY <1>4, <1>5 DEF IsSeq

Joint(s, t) == s \o t
\* f has the lists joined from the first one on.
Joins(m, S, lists, f) ==
  /\ f \in [0..m -> Seq(S)] /\ f[0] = <<>> /\ Concat(lists) = f[m]
  /\ \A k \in 1..m : f[k] = Joint(f[k - 1], lists[k])

LEMMA ConcatJoins ==
  ASSUME NEW m \in Nat, NEW S, NEW lists \in [1..m -> Seq(S)] PROVE \E f : Joins(m, S, lists, f)
<1>1. Len(lists) = m
  <2>1. lists \in Seq(Seq(S)) /\ DOMAIN lists = 1..m
    BY SeqDef
  <2>. QED BY <2>1, LenProperties
<1> DEFINE E(f, n) == IF n = 0 THEN <<>> ELSE Joint(f[n - 1], lists[n])
           Solves(f) == f = [n \in 0..m |-> E(f, n)]
           step == [n \in 1..m |-> [s \in Seq(S) |-> Joint(s, lists[n])]]
           Joined == CHOOSE f : Solves(f)
<1>2. <<>> \in Seq(S) /\ \A s, t \in Seq(S) : Joint(s, t) \in Seq(S)
  BY DEF Joint
<1>3. Concat(lists) = Joined[m]
  BY <1>1, Zenon DEF Concat, Joint
<1>4. PICK e : e = <<>>
  OBVIOUS
<1>5. PICK f \in [0..m -> Seq(S)] : f[0] = e /\ \A k \in 1..m : f[k] = step[k][f[k - 1]]
  <2>1. step \in [1..m -> [Seq(S) -> Seq(S)]]
    BY <1>2
  <2> HIDE DEF step
  <2>2. Iterates(m, Seq(S), e, step)
    BY <1>2, <1>4, <2>1, Iteration
  <2>. QED BY <2>2 DEF Iterates
<1>6. \A k \in 0..m : f[k] = E(f, k)
  <2> TAKE k \in 0..m
  <2>1. CASE k = 0
    BY <1>4, <1>5, <2>1
  <2>2. CASE k \in 1..m
    <3>1. k - 1 \in 0..m
      BY <2>2
    <3>2. f[k] = step[k][f[k - 1]]
      <4> HIDE DEF step
      <4>. QED BY <1>5, <2>2
    <3>3. f[k - 1] \in Seq(S)
      BY <1>5, <3>1
    <3>4. step[k][f[k - 1]] = Joint(f[k - 1], lists[k])
      BY <2>2, <3>3
    <3>. QED BY <2>2, <3>2, <3>4
  <2>. QED BY <2>1, <2>2
<1>7. \E g : Solves(g)
  <2>1. f = [n \in 0..m |-> f[n]]
    BY <1>5
  <2>2. Solves(f)
    BY <1>6, <2>1
  <2>. QED BY <2>2
<1>8. PICK j : j = Joined
  OBVIOUS
<1>9. j = [n \in 0..m |-> E(j, n)]
  <2> HIDE DEF E
  <2>. QED BY <1>7, <1>8
<1>10. \A n \in 0..m : j[n] = E(j, n)
  BY <1>9
<1> DEFINE T == {n \in 0..m : j[n] \in Seq(S)}
<1>11. 0 \in T
  <2>1. j[0] = e /\ 0 \in 0..m
    BY <1>4, <1>10
  <2>. QED BY <1>2, <1>4, <2>1
<1>12. \A n \in 0..(m - 1) : n \in T => n + 1 \in T
  <2> TAKE n \in 0..(m - 1)
  <2> HAVE n \in T
  <2>1. n + 1 \in 0..m /\ n + 1 # 0 /\ (n + 1) - 1 = n /\ n + 1 \in 1..m
    OBVIOUS
  <2>2. j[n + 1] = Joint(j[n], lists[n + 1])
    BY <1>10, <2>1
  <2>3. j[n] \in Seq(S) /\ lists[n + 1] \in Seq(S)
    BY <2>1
  <2>. QED BY <1>2, <2>1, <2>2, <2>3
<1>13. 0..m \subseteq T
  <2> HIDE DEF T
  <2>1. m \in Int /\ 0 \in Int
    OBVIOUS
  <2>. QED BY <1>11, <1>12, <2>1, IntervalInduction, Zenon
<1>14. \A n \in 0..m : j[n] \in Seq(S)
  BY <1>13
<1>15. j \in [0..m -> Seq(S)]
  <2>1. DOMAIN j = 0..m /\ j = [n \in 0..m |-> j[n]]
    <3> HIDE DEF E
    <3>. QED BY <1>9
  <2>. QED BY <1>14, <2>1
<1>16. j[0] = <<>>
  BY <1>10
<1>17. ASSUME NEW k \in 1..m PROVE j[k] = Joint(j[k - 1], lists[k])
  BY <1>10
<1>. QED BY <1>3, <1>8, <1>15, <1>16, <1>17 DEF Joins

\* Lists with elements of any kind, and what is in all of them together.
LEMMA ConcatMembers ==
  ASSUME NEW m \in Nat, NEW lists, DOMAIN lists = 1..m, lists = [n \in 1..m |-> lists[n]],
         \A n \in 1..m : IsSeq(lists[n])
  PROVE  /\ IsSeq(Concat(lists))
         /\ Members(Concat(lists)) = UNION {Members(lists[n]) : n \in 1..m}
<1>1. PICK S : S = UNION {Members(lists[n]) : n \in 1..m}
  OBVIOUS
<1>2. ASSUME NEW n \in 1..m PROVE lists[n] \in Seq(S)
  <2>1. PICK l : l = lists[n]
    OBVIOUS
  <2>2. IsSeq(l)
    BY <2>1
  <2>3. l \in Seq(Members(l)) /\ Members(l) \subseteq S
    BY <1>1, <2>1, <2>2, SeqIs
  <2>4. PICK M : M = Members(l)
    OBVIOUS
  <2>5. l \in Seq(S)
    BY <2>3, <2>4
  <2>. QED BY <2>1, <2>5
<1>3. lists \in [1..m -> Seq(S)]
  BY <1>2
<1>4. PICK f : Joins(m, S, lists, f)
  BY <1>3, ConcatJoins
<1>5. PICK all : all = Concat(lists)
  OBVIOUS
<1>6. all = f[m] /\ all \in Seq(S)
  BY <1>4, <1>5 DEF Joins
<1>7. Members(all) \subseteq S
  <2>1. PICK l \in Nat : all \in [1..l -> S]
    BY <1>6, SeqDef
  <2>. QED BY <2>1 DEF Members
<1>8. ASSUME NEW n \in 1..m, NEW x \in Members(lists[n]) PROVE x \in Members(all)
  <2> DEFINE T == {k \in n..m : x \in Members(f[k])}
  <2>1. \A k \in 1..m : k \in 0..m /\ k - 1 \in 0..m
    OBVIOUS
  <2>2. \A k \in 1..m : /\ f[k] = Joint(f[k - 1], lists[k])
                        /\ f[k - 1] \in Seq(S) /\ lists[k] \in Seq(S)
    BY <1>2, <1>4, <2>1 DEF Joins
  <2>3. ASSUME NEW s \in Seq(S), NEW t \in Seq(S)
        PROVE  Members(s) \subseteq Members(Joint(s, t)) /\ Members(t) \subseteq Members(Joint(s, t))
    <3>1. PICK u : u = Joint(s, t)
      OBVIOUS
    <3>2. PICK a \in Nat, b \in Nat : a = Len(s) /\ b = Len(t)
      OBVIOUS
    <3>3. DOMAIN s = 1..a /\ DOMAIN t = 1..b /\ DOMAIN u = 1..(a + b)
      BY <3>1, <3>2 DEF Joint
    <3>4. /\ \A i \in 1..a : u[i] = s[i] /\ i \in 1..(a + b)
          /\ \A i \in 1..b : u[a + i] = t[i] /\ a + i \in 1..(a + b)
      BY <3>1, <3>2 DEF Joint
    <3>. QED BY <3>1, <3>3, <3>4 DEF Members
  <2>4. n \in T
    BY <1>8, <2>2, <2>3
  <2>5. \A k \in n..(m - 1) : k \in T => k + 1 \in T
    <3> TAKE k \in n..(m - 1)
    <3> HAVE k \in T
    <3>1. k + 1 \in 1..m /\ k + 1 \in n..m /\ (k + 1) - 1 = k
      OBVIOUS
    <3>2. f[k + 1] = Joint(f[k], lists[k + 1]) /\ f[k] \in Seq(S) /\ lists[k + 1] \in Seq(S)
      BY <2>2, <3>1
    <3>3. x \in Members(f[k + 1])
      BY <2>3, <3>2
    <3>. QED BY <3>1, <3>3
  <2>6. m \in T
    <3> HIDE DEF T
    <3>1. m \in Int /\ n \in Int
      OBVIOUS
    <3>2. n..m \subseteq T
      BY <2>4, <2>5, <3>1, IntervalInduction, Zenon
    <3>. QED BY <3>2
  <2>. QED BY <1>6, <2>6
<1>9. S \subseteq Members(all)
  BY <1>1, <1>8
<1>. QED BY <1>1, <1>5, <1>6, <1>7, <1>9 DEF IsSeq

\* If no list has anything twice and no two have anything in common.
LEMMA ConcatDistinct ==
  ASSUME NEW m \in Nat, NEW lists, DOMAIN lists = 1..m, lists = [n \in 1..m |-> lists[n]],
         \A n \in 1..m : IsSeq(lists[n]) /\ Distinct(lists[n]),
         \A n, k \in 1..m : n # k => Members(lists[n]) \cap Members(lists[k]) = {}
  PROVE  Distinct(Concat(lists))
<1>1. PICK S : S = UNION {Members(lists[n]) : n \in 1..m}
  OBVIOUS
<1>2. ASSUME NEW n \in 1..m PROVE lists[n] \in Seq(S)
  <2>1. PICK l : l = lists[n]
    OBVIOUS
  <2>2. IsSeq(l)
    BY <2>1
  <2>3. l \in Seq(Members(l)) /\ Members(l) \subseteq S
    BY <1>1, <2>1, <2>2, SeqIs
  <2>4. PICK M : M = Members(l)
    OBVIOUS
  <2>5. l \in Seq(S)
    BY <2>3, <2>4
  <2>. QED BY <2>1, <2>5
<1>3. lists \in [1..m -> Seq(S)]
  BY <1>2
<1>4. PICK f : Joins(m, S, lists, f)
  BY <1>3, ConcatJoins
<1> DEFINE T == {k \in 0..m : /\ Distinct(f[k])
                              /\ \A x \in Members(f[k]) : \E n \in 1..k : x \in Members(lists[n])}
<1>5. 0 \in T
  <2>1. f[0] = <<>> /\ Len(<<>>) = 0 /\ DOMAIN <<>> = {}
    BY <1>4 DEF Joins
  <2>. QED BY <2>1 DEF Distinct, Members
<1>6. \A k \in 0..(m - 1) : k \in T => k + 1 \in T
  <2> TAKE k \in 0..(m - 1)
  <2> HAVE k \in T
  <2>1. k \in 0..m /\ k + 1 \in 1..m /\ (k + 1) - 1 = k /\ k \in Nat /\ k + 1 \notin 1..k
    OBVIOUS
  <2>2. PICK s, t, u : s = f[k] /\ t = lists[k + 1] /\ u = f[k + 1]
    OBVIOUS
  <2>3. s \in Seq(S) /\ t \in Seq(S) /\ u = s \o t
    BY <1>2, <1>4, <2>1, <2>2 DEF Joins, Joint
  <2>4. PICK a \in Nat, b \in Nat : a = Len(s) /\ b = Len(t)
    <3>1. Len(s) \in Nat /\ Len(t) \in Nat
      BY <2>3
    <3>. QED BY <3>1
  <2>5. /\ DOMAIN s = 1..a /\ DOMAIN t = 1..b /\ DOMAIN u = 1..(a + b) /\ Len(u) = a + b
        /\ \A i \in 1..a : u[i] = s[i]
        /\ \A i \in (a + 1)..(a + b) : u[i] = t[i - a] /\ i - a \in 1..b
    BY <2>3, <2>4
  <2>6. /\ Distinct(s) /\ Distinct(t)
        /\ \A x \in Members(s) : \E n \in 1..k : x \in Members(lists[n])
    BY <2>1, <2>2
  <2>7. ASSUME NEW x \in Members(s), x \in Members(t) PROVE FALSE
    <3>1. PICK n \in 1..k : x \in Members(lists[n])
      BY <2>6
    <3>2. n \in 1..m /\ n # k + 1
      BY <2>1
    <3>. QED BY <2>1, <2>2, <2>7, <3>1, <3>2
  <2>8. \A i \in 1..a : s[i] \in Members(s)
    BY <2>5 DEF Members
  <2>9. \A i \in 1..b : t[i] \in Members(t)
    BY <2>5 DEF Members
  <2>10. ASSUME NEW i \in 1..(a + b), NEW j \in 1..(a + b), u[i] = u[j] PROVE i = j
    <3>1. CASE i \in 1..a /\ j \in 1..a
      BY <2>4, <2>5, <2>6, <2>10, <3>1 DEF Distinct
    <3>2. CASE i \in (a + 1)..(a + b) /\ j \in (a + 1)..(a + b)
      <4>1. t[i - a] = t[j - a] /\ i - a \in 1..b /\ j - a \in 1..b
        BY <2>5, <2>10, <3>2
      <4>2. i - a = j - a
        BY <2>4, <2>6, <4>1 DEF Distinct
      <4>. QED BY <4>2
    <3>3. CASE i \in 1..a /\ j \in (a + 1)..(a + b)
      BY <2>5, <2>7, <2>8, <2>9, <2>10, <3>3
    <3>4. CASE i \in (a + 1)..(a + b) /\ j \in 1..a
      BY <2>5, <2>7, <2>8, <2>9, <2>10, <3>4
    <3>. QED BY <3>1, <3>2, <3>3, <3>4
  <2>11. Distinct(u)
    BY <2>5, <2>10 DEF Distinct
  <2>12. ASSUME NEW x \in Members(u) PROVE \E n \in 1..(k + 1) : x \in Members(lists[n])
    <3>1. PICK i \in 1..(a + b) : x = u[i]
      BY <2>5 DEF Members
    <3>2. CASE i \in 1..a
      <4>1. x \in Members(s)
        BY <2>5, <2>8, <3>1, <3>2
      <4>2. PICK n \in 1..k : x \in Members(lists[n])
        BY <2>6, <4>1
      <4>3. n \in 1..(k + 1)
        BY <2>1
      <4>. QED BY <4>2, <4>3
    <3>3. CASE i \in (a + 1)..(a + b)
      <4>1. x \in Members(lists[k + 1])
        BY <2>2, <2>5, <2>9, <3>1, <3>3
      <4>2. k + 1 \in 1..(k + 1)
        BY <2>1
      <4>. QED BY <4>1, <4>2
    <3>. QED BY <3>2, <3>3
  <2>13. k + 1 \in 0..m
    BY <2>1
  <2>. QED BY <2>2, <2>11, <2>12, <2>13
<1>7. m \in T
  <2> HIDE DEF T
  <2>1. m \in Int /\ 0 \in Int
    OBVIOUS
  <2>2. 0..m \subseteq T
    BY <1>5, <1>6, <2>1, IntervalInduction, Zenon
  <2>. QED BY <2>2
<1>8. Distinct(f[m])
  BY <1>7
<1>9. Concat(lists) = f[m]
  BY <1>4 DEF Joins
<1>. QED BY <1>8, <1>9

(***************************************************************************)
(* The entries of a corpus.                                                *)
(***************************************************************************)

\* The list of files that a reading is of, and what is known of each file.
LEMMA ReadingOk ==
  ASSUME NEW c \in DOMAIN Later, NEW read \in Readings(c)
  PROVE  /\ Len(Corpora[c]) \in Nat /\ DOMAIN Corpora[c] = 1..Len(Corpora[c])
         /\ DOMAIN read = 1..Len(Corpora[c])
         /\ \A n \in DOMAIN read :
              /\ read[n] \in DOMAIN Corpora /\ n \in DOMAIN Corpora[read[n]]
              /\ Corpora[read[n]][n].records \in Documents
<1>1. c \in DOMAIN Corpora /\ Len(Corpora[c]) \in Nat /\ DOMAIN Corpora[c] = 1..Len(Corpora[c])
  BY CorporaAssumption, LaterAssumption
<1>2. read \in [DOMAIN Corpora[c] -> Of(c)]
  BY DEF Readings, Of
<1>3. ASSUME NEW n \in DOMAIN read
      PROVE  /\ read[n] \in DOMAIN Corpora /\ n \in DOMAIN Corpora[read[n]]
             /\ Corpora[read[n]][n].records \in Documents
  <2>1. PICK d \in Of(c) : d = read[n]
    BY <1>2
  <2>2. d \in DOMAIN Later /\ DOMAIN Corpora[d] = DOMAIN Corpora[c]
    BY TreeLater
  <2>3. d \in DOMAIN Corpora /\ n \in DOMAIN Corpora[d]
    BY <1>2, <2>2, LaterAssumption
  <2>. QED BY <2>1, <2>3, CorporaAssumption
<1>. QED BY <1>1, <1>2, <1>3

LEMMA ParsedIs ==
  ASSUME NEW c \in DOMAIN Corpora, NEW n \in DOMAIN Corpora[c]
  PROVE  Parsed[c][n] = ParseVolume(Corpora[c][n].dictionary, n, Corpora[c][n].records)
<1>1. PICK p : p = [k \in DOMAIN Corpora[c] |->
                      ParseVolume(Corpora[c][k].dictionary, k, Corpora[c][k].records)]
  OBVIOUS
<1>2. Parsed[c] = p
  <2> DEFINE P(k) == Table([i \in DOMAIN Corpora[k] |->
                              ParseVolume(Corpora[k][i].dictionary, i, Corpora[k][i].records)])
             all == [k \in DOMAIN Corpora |-> P(k)]
  <2>1. Parsed = Table(all)
    BY Zenon DEF Parsed
  <2>2. P(c) = p
    BY <1>1, TableIs, Zenon
  <2> HIDE DEF P
  <2>3. Parsed = all
    BY <2>1, TableIs
  <2>. QED BY <2>2, <2>3
<1>. QED BY <1>1, <1>2

\* An entry of the corpus: EntryOk, and its entities have its dictionary.
CorpusEntry(e) ==
  /\ EntryOk(e)
  /\ \A i \in DOMAIN e.entities : e.entities[i].dictionary = e.dictionary
\* Lists of entries, no two in the same place.
SamePlace(e, f) == e.locator.file = f.locator.file /\ e.locator.entry = f.locator.entry
CorpusOk(entries) ==
  /\ IsSeq(entries)
  /\ \A e \in Members(entries) : CorpusEntry(e)
  /\ \A e, f \in Members(entries) : SamePlace(e, f) => e = f

\* Each entry is in a file that was read, and of its dictionary.
Filed(read, entries) ==
  \A e \in Members(entries) :
    /\ e.locator.file \in DOMAIN read
    /\ e.dictionary = Corpora[read[e.locator.file]][e.locator.file].dictionary

LEMMA WithDictionaryOk ==
  ASSUME NEW d, NEW e, EntryOk(e)
  PROVE  /\ CorpusEntry(WithDictionary(d, e)) /\ WithDictionary(d, e).locator = e.locator
         /\ WithDictionary(d, e).dictionary = d
<1>1. PICK own : own = e.entities
  OBVIOUS
<1>2. IsSeq(own) /\ 1 \in DOMAIN own /\ OwnEntities(own, e.locator) /\ RelationsOk(e.relations)
  BY <1>1 DEF EntryOk, OwnEntities
<1>3. PICK l \in Nat : l = Len(own) /\ DOMAIN own = 1..l
  BY <1>2, SeqIs
<1> DEFINE D(x) == [dictionary |-> d, kind |-> x.kind, key |-> Normalized(x.key), locator |-> x.locator]
<1>4. PICK list : list = [i \in 1..l |-> D(own[i])]
  OBVIOUS
<1>5. PICK f : f = WithDictionary(d, e)
  OBVIOUS
<1>6. f = [dictionary |-> d, locator |-> e.locator, headword |-> e.headword, homonym |-> e.homonym,
           relations |-> e.relations, entities |-> list]
  BY <1>1, <1>3, <1>4, <1>5 DEF WithDictionary
<1>7. f.dictionary = d /\ f.locator = e.locator /\ f.relations = e.relations /\ f.entities = list
  BY <1>6
<1>8. DOMAIN list = 1..l /\ list = [i \in 1..l |-> list[i]]
  BY <1>4
<1>9. ASSUME NEW i \in 1..l
      PROVE  list[i].dictionary = d /\ list[i].kind = own[i].kind /\ list[i].locator = own[i].locator
  BY <1>4
<1>10. IsSeq(list)
  BY <1>8, SeqOf
<1>11. OwnEntities(list, e.locator)
  <2>1. list[1].kind = "entry" /\ list[1].locator = e.locator
    BY <1>2, <1>3, <1>9 DEF OwnEntities
  <2>2. ASSUME NEW i \in DOMAIN list \ {1}
        PROVE  /\ list[i].kind \in NestedKinds
               /\ list[i].locator.file = e.locator.file /\ list[i].locator.entry = e.locator.entry
    BY <1>2, <1>3, <1>8, <1>9 DEF OwnEntities
  <2>3. ASSUME NEW i \in DOMAIN list, NEW j \in DOMAIN list, i # j, list[i].kind = list[j].kind
        PROVE  list[i].locator # list[j].locator
    BY <1>2, <1>3, <1>8, <1>9, <2>3 DEF OwnEntities
  <2>. QED BY <1>2, <1>3, <1>8, <1>10, <2>1, <2>2, <2>3 DEF OwnEntities
<1>. QED BY <1>2, <1>5, <1>7, <1>8, <1>9, <1>11 DEF CorpusEntry, EntryOk

LEMMA FileOk ==
  ASSUME NEW d, NEW n, NEW entries, EntriesOk(entries), Placed(entries, n)
  PROVE  /\ CorpusOk(AllWithDictionary(d, entries))
         /\ \A e \in Members(AllWithDictionary(d, entries)) : e.locator.file = n /\ e.dictionary = d
         /\ Distinct(AllWithDictionary(d, entries))
<1>1. PICK S : entries \in Seq(S) /\ \A e \in S : EntryOk(e)
  BY DEF EntriesOk
<1>2. PICK l \in Nat : entries \in [1..l -> S]
  BY <1>1, SeqDef
<1>3. PICK list : list = AllWithDictionary(d, entries)
  OBVIOUS
<1>4. DOMAIN list = 1..l /\ list = [i \in 1..l |-> list[i]]
      /\ \A i \in 1..l : list[i] = WithDictionary(d, entries[i])
  BY <1>2, <1>3 DEF AllWithDictionary
<1>5. ASSUME NEW i \in 1..l
      PROVE  /\ CorpusEntry(list[i]) /\ list[i].dictionary = d
             /\ list[i].locator.file = n /\ list[i].locator.entry = i
  <2>1. PICK e : e = entries[i]
    OBVIOUS
  <2>2. EntryOk(e) /\ e.locator.file = n /\ e.locator.entry = i
    BY <1>1, <1>2, <2>1 DEF Placed
  <2>3. list[i] = WithDictionary(d, e)
    BY <1>4, <2>1
  <2>. QED BY <2>2, <2>3, WithDictionaryOk
<1>6. IsSeq(list) /\ Len(list) = l
  BY <1>4, SeqOf
<1>7. \A e \in Members(list) : \E i \in 1..l : e = list[i]
  BY <1>4 DEF Members
<1>8. \A e \in Members(list) : CorpusEntry(e) /\ e.locator.file = n /\ e.dictionary = d
  BY <1>5, <1>7
<1>9. ASSUME NEW e \in Members(list), NEW f \in Members(list), SamePlace(e, f) PROVE e = f
  <2>1. PICK i \in 1..l, j \in 1..l : e = list[i] /\ f = list[j]
    BY <1>7
  <2>2. e.locator.entry = i /\ f.locator.entry = j
    BY <1>5, <2>1
  <2>. QED BY <1>9, <2>1, <2>2 DEF SamePlace
<1>10. Distinct(list)
  <2>1. \A i, j \in 1..l : list[i] = list[j] => i = j
    BY <1>5
  <2>. QED BY <1>6, <2>1 DEF Distinct
<1>. QED BY <1>3, <1>6, <1>8, <1>9, <1>10 DEF CorpusOk

LEMMA EntriesAreOk ==
  ASSUME NEW c \in DOMAIN Later, NEW read \in Readings(c)
  PROVE  /\ CorpusOk(Entries(read)) /\ Distinct(Entries(read)) /\ Filed(read, Entries(read))
<1>1. PICK m \in Nat : m = Len(Corpora[c])
  BY ReadingOk
<1>2. DOMAIN read = 1..m
  BY <1>1, ReadingOk
<1> DEFINE Of1(n) == AllWithDictionary(Corpora[read[n]][n].dictionary, Parsed[read[n]][n].entries)
<1>3. ASSUME NEW n \in 1..m
      PROVE  /\ CorpusOk(Of1(n)) /\ Distinct(Of1(n))
             /\ \A e \in Members(Of1(n)) :
                  e.locator.file = n /\ e.dictionary = Corpora[read[n]][n].dictionary
  <2>1. PICK d, records : d = Corpora[read[n]][n].dictionary /\ records = Corpora[read[n]][n].records
    OBVIOUS
  <2>2. read[n] \in DOMAIN Corpora /\ n \in DOMAIN Corpora[read[n]] /\ records \in Documents
    BY <1>2, <2>1, ReadingOk
  <2>3. Parsed[read[n]][n] = ParseVolume(d, n, records)
    BY <2>1, <2>2, ParsedIs
  <2>4. PICK entries : entries = Parsed[read[n]][n].entries
    OBVIOUS
  <2>5. EntriesOk(entries) /\ Placed(entries, n)
    BY <2>2, <2>3, <2>4, ParseVolumeOk
  <2>6. Of1(n) = AllWithDictionary(d, entries)
    BY <2>1, <2>4
  <2> HIDE DEF Of1
  <2>. QED BY <2>1, <2>5, <2>6, FileOk
<1>4. PICK lists : lists = [n \in 1..m |-> Of1(n)]
  OBVIOUS
<1>5. Entries(read) = Concat(lists)
  BY <1>2, <1>4, Zenon DEF Entries
<1> HIDE DEF Of1
<1>6. /\ DOMAIN lists = 1..m /\ lists = [n \in 1..m |-> lists[n]]
      /\ \A n \in 1..m :
           /\ CorpusOk(lists[n]) /\ Distinct(lists[n])
           /\ \A e \in Members(lists[n]) :
                e.locator.file = n /\ e.dictionary = Corpora[read[n]][n].dictionary
  BY <1>3, <1>4
<1>7. PICK all : all = Concat(lists)
  OBVIOUS
<1>8. IsSeq(all) /\ Members(all) = UNION {Members(lists[n]) : n \in 1..m}
  BY <1>6, <1>7, ConcatMembers DEF CorpusOk
<1>9. \A e \in Members(all) : \E n \in 1..m : e \in Members(lists[n])
  BY <1>8
<1>10. \A e \in Members(all) : CorpusEntry(e)
  BY <1>6, <1>9 DEF CorpusOk
<1>11. ASSUME NEW e \in Members(all), NEW f \in Members(all), SamePlace(e, f) PROVE e = f
  <2>1. PICK n \in 1..m, k \in 1..m : e \in Members(lists[n]) /\ f \in Members(lists[k])
    BY <1>9
  <2>2. n = k
    BY <1>6, <1>11, <2>1 DEF SamePlace
  <2>. QED BY <1>6, <1>11, <2>1, <2>2 DEF CorpusOk
<1>12. Filed(read, all)
  BY <1>2, <1>6, <1>9 DEF Filed
<1>13. Distinct(all)
  <2>1. \A n, k \in 1..m : n # k => Members(lists[n]) \cap Members(lists[k]) = {}
    BY <1>6
  <2>. QED BY <1>6, <1>7, <2>1, ConcatDistinct DEF CorpusOk
<1>. QED BY <1>5, <1>7, <1>8, <1>10, <1>11, <1>12, <1>13 DEF CorpusOk

\* What the first pass holds: relations, each of an entry of the corpus, and what they
\* may refer to.
Held(first) ==
  /\ CorpusOk(first.entries) /\ Distinct(first.entries)
  /\ first.tracked = UNION {EntitiesOf(e) : e \in Members(first.entries)}
  /\ IsSeq(first.relations)
  /\ \A r \in Members(first.relations) :
       r.entry \in Members(first.entries) /\ IsSeq(r.fields.key)
  /\ \A r \in Members(first.relations) : Requested(r) \subseteq first.requested

LEMMA FirstPassOk ==
  ASSUME NEW c \in DOMAIN Later, NEW read \in Readings(c)
  PROVE  Held(FirstPass(read)) /\ FirstPass(read).entries = Entries(read)
<1>1. PICK entries : entries = Entries(read)
  OBVIOUS
<1>2. CorpusOk(entries) /\ Distinct(entries)
  BY <1>1, EntriesAreOk
<1>3. PICK m \in Nat : m = Len(entries) /\ DOMAIN entries = 1..m
  BY <1>2, SeqIs DEF CorpusOk
<1>4. PICK lists : lists = [n \in 1..m |-> RelationsOf(entries[n])]
  OBVIOUS
<1>5. ASSUME NEW n \in 1..m
      PROVE  /\ IsSeq(lists[n])
             /\ \A r \in Members(lists[n]) : r.entry \in Members(entries) /\ IsSeq(r.fields.key)
  <2>1. PICK e, list : e = entries[n] /\ list = RelationsOf(e)
    OBVIOUS
  <2>2. e \in Members(entries) /\ CorpusEntry(e)
    BY <1>2, <1>3, <2>1 DEF CorpusOk, Members
  <2>3. PICK S : e.relations \in Seq(S) /\ \A r \in S : RelationOk(r)
    BY <2>2 DEF CorpusEntry, EntryOk, RelationsOk
  <2>4. PICK own : own = e.relations
    OBVIOUS
  <2>5. PICK l \in Nat : own \in [1..l -> S]
    BY <2>3, <2>4, SeqDef
  <2>6. DOMAIN list = 1..l /\ list = [i \in 1..l |-> list[i]]
        /\ \A i \in 1..l : list[i] = RawRelation(e, own[i])
    BY <2>1, <2>4, <2>5 DEF RelationsOf
  <2>7. \A i \in 1..l : list[i].entry = e /\ list[i].fields = own[i].fields
    BY <2>6 DEF RawRelation
  <2>8. \A i \in 1..l : IsSeq(own[i].fields.key)
    BY <2>3, <2>4, <2>5 DEF RelationOk
  <2>9. IsSeq(list)
    BY <2>6, SeqOf
  <2>10. \A r \in Members(list) : r.entry \in Members(entries) /\ IsSeq(r.fields.key)
    BY <2>2, <2>6, <2>7, <2>8 DEF Members
  <2>. QED BY <1>4, <2>1, <2>9, <2>10
<1>6. PICK relations : relations = Concat(lists)
  OBVIOUS
<1>7. DOMAIN lists = 1..m /\ lists = [n \in 1..m |-> lists[n]]
  BY <1>4
<1>8. IsSeq(relations) /\ Members(relations) = UNION {Members(lists[n]) : n \in 1..m}
  BY <1>5, <1>6, <1>7, ConcatMembers
<1>9. PICK first : first = FirstPass(read)
  OBVIOUS
<1>10. first = Observed(entries, relations)
  <2>1. [n \in DOMAIN entries |-> RelationsOf(entries[n])] = lists
    BY <1>3, <1>4
  <2>. QED BY <1>1, <1>6, <1>9, <2>1, Zenon DEF FirstPass, ObserveAll
<1>11. /\ first.entries = entries /\ first.relations = relations
       /\ first.tracked = UNION {EntitiesOf(entries[n]) : n \in DOMAIN entries}
       /\ first.requested = UNION {Requested(relations[n]) : n \in DOMAIN relations}
  BY <1>10 DEF Observed
<1>12. first.tracked = UNION {EntitiesOf(e) : e \in Members(entries)}
  BY <1>11 DEF Members
<1>13. \A r \in Members(relations) : Requested(r) \subseteq first.requested
  BY <1>11 DEF Members
<1>. QED BY <1>1, <1>2, <1>5, <1>8, <1>9, <1>11, <1>12, <1>13 DEF Held

(***************************************************************************)
(* No two entities of a corpus have an id in common.                       *)
(***************************************************************************)

LEMMA CountedOnce ==
  ASSUME NEW T, IsFiniteSet(T), NEW x \in T, Count(T, x) = 1
  PROVE  /\ x.key # ""
         /\ \A y \in T : y.dictionary = x.dictionary /\ y.kind = x.kind /\ y.key = x.key => y = x
<1>1. PICK S : S = {y \in T : <<y.dictionary, y.kind, y.key>> = <<x.dictionary, x.kind, x.key>>}
  OBVIOUS
<1>2. 0 # 1
  OBVIOUS
<1>3. x.key # "" /\ Cardinality(S) = 1
  BY <1>1, <1>2, Zenon DEF Count
<1>4. IsFiniteSet(S)
  BY <1>1, FS_Subset
<1>5. PICK z : S = {z}
  BY <1>3, <1>4, FS_Singleton
<1>6. x \in S
  BY <1>1
<1>7. \A y \in T : y.dictionary = x.dictionary /\ y.kind = x.kind /\ y.key = x.key => y \in S
  BY <1>1
<1>8. \A y \in S : y = x
  BY <1>5, <1>6
<1>. QED BY <1>3, <1>7, <1>8, Zenon

\* s is the segment of x, with a key that occurs n times.
SegmentOf(s, x, n) ==
  /\ s.dictionary = x.dictionary /\ s.kind = x.kind
  /\ x.key # "" => s.key = x.key
  /\ s.at = Disambiguator(n, x.locator)

LEMMA SegmentIs ==
  ASSUME NEW x, NEW n
  PROVE  SegmentOf(Segment(x, n), x, n)
<1>1. PICK key : key = IF x.key = "" THEN "missing" ELSE x.key
  OBVIOUS
<1>2. x.key # "" => key = x.key
  BY <1>1, Zenon
<1>3. PICK s : s = Segment(x, n)
  OBVIOUS
<1>4. s = [dictionary |-> x.dictionary, kind |-> x.kind, key |-> key, at |-> Disambiguator(n, x.locator)]
  BY <1>1, <1>3, Zenon DEF Segment
<1>5. /\ s.dictionary = x.dictionary /\ s.kind = x.kind /\ s.key = key
      /\ s.at = Disambiguator(n, x.locator)
  BY <1>4
<1>6. SegmentOf(s, x, n)
  BY <1>2, <1>5, Zenon DEF SegmentOf
<1>. QED BY <1>3, <1>6

LEMMA SegmentApart ==
  ASSUME NEW T, IsFiniteSet(T), NEW x \in T, NEW y \in T,
         Segment(x, Count(T, x)) = Segment(y, Count(T, y))
  PROVE  x = y \/ (x.kind = y.kind /\ x.locator = y.locator)
<1>1. PICK m, n : m = Count(T, x) /\ n = Count(T, y)
  OBVIOUS
<1>2. /\ x.dictionary = y.dictionary /\ x.kind = y.kind
      /\ Disambiguator(m, x.locator) = Disambiguator(n, y.locator)
      /\ x.key # "" /\ y.key # "" => x.key = y.key
  <2>1. PICK s : s = Segment(x, m) /\ s = Segment(y, n)
    BY <1>1
  <2>2. SegmentOf(s, x, m) /\ SegmentOf(s, y, n)
    BY <2>1, SegmentIs
  <2>. QED BY <2>2, Zenon DEF SegmentOf
<1>3. \A u, v : <<u>> # <<>> /\ (<<u>> = <<v>> => u = v)
  OBVIOUS
<1>4. CASE m = 1
  <2>1. n = 1
    BY <1>2, <1>3, <1>4, Zenon DEF Disambiguator
  <2>2. x.key # "" /\ y.key # ""
    BY <1>1, <1>4, <2>1, CountedOnce
  <2>. QED BY <1>1, <1>2, <1>4, <2>2, CountedOnce, Zenon
<1>5. CASE m # 1
  <2>1. x.locator = y.locator
    BY <1>2, <1>3, <1>5, Zenon DEF Disambiguator
  <2>. QED BY <1>2, <2>1
<1>. QED BY <1>4, <1>5

LEMMA OwnEntityIs ==
  ASSUME NEW e, CorpusEntry(e)
  PROVE  /\ OwnEntity(e) \in EntitiesOf(e) /\ OwnEntity(e).kind = "entry"
         /\ OwnEntity(e).locator = e.locator
         /\ IsFiniteSet(EntitiesOf(e))
         /\ \A x \in EntitiesOf(e) :
              /\ x.dictionary = e.dictionary
              /\ x.kind = "entry" => x = OwnEntity(e)
         /\ \A x, y \in EntitiesOf(e) : x.kind = y.kind /\ x.locator = y.locator => x = y
<1>1. PICK own, locator : own = e.entities /\ locator = e.locator
  OBVIOUS
<1>2. OwnEntities(own, locator) /\ \A i \in DOMAIN own : own[i].dictionary = e.dictionary
  BY <1>1 DEF CorpusEntry, EntryOk
<1>3. IsSeq(own) /\ 1 \in DOMAIN own /\ EntitiesOf(e) = Members(own) /\ OwnEntity(e) = own[1]
  BY <1>1, <1>2 DEF OwnEntities, EntitiesOf, Members, OwnEntity
<1>4. own[1].kind = "entry" /\ own[1].locator = locator
  BY <1>2 DEF OwnEntities
<1>5. \A i \in DOMAIN own : own[i].kind = "entry" => i = 1
  BY <1>2 DEF OwnEntities, NestedKinds
<1>6. \A i, j \in DOMAIN own : own[i].kind = own[j].kind /\ own[i].locator = own[j].locator => i = j
  BY <1>2 DEF OwnEntities
<1>7. \A x \in Members(own) : \E i \in DOMAIN own : x = own[i]
  BY DEF Members
<1>8. own[1] \in Members(own)
  BY <1>3 DEF Members
<1>9. ASSUME NEW x \in Members(own)
      PROVE  x.dictionary = e.dictionary /\ (x.kind = "entry" => x = own[1])
  <2>1. PICK i \in DOMAIN own : x = own[i]
    BY <1>7
  <2>. QED BY <1>2, <1>5, <2>1
<1>10. ASSUME NEW x \in Members(own), NEW y \in Members(own), x.kind = y.kind, x.locator = y.locator
       PROVE  x = y
  <2>1. PICK i \in DOMAIN own, j \in DOMAIN own : x = own[i] /\ y = own[j]
    BY <1>7
  <2>. QED BY <1>6, <1>10, <2>1
<1>. QED BY <1>1, <1>3, <1>4, <1>8, <1>9, <1>10, SeqIs

LEMMA TrackedFinite == ASSUME NEW first, Held(first) PROVE IsFiniteSet(first.tracked)
<1>1. PICK M : M = Members(first.entries)
  OBVIOUS
<1>2. IsFiniteSet(M) /\ \A e \in M : CorpusEntry(e)
  BY <1>1, SeqIs DEF Held, CorpusOk
<1>3. PICK f \in [M -> {EntitiesOf(e) : e \in M}] : f = [e \in M |-> EntitiesOf(e)]
  OBVIOUS
<1>4. PICK N : N = {EntitiesOf(e) : e \in M}
  OBVIOUS
<1>5. f \in Surjection(M, N)
  BY <1>3, <1>4 DEF Surjection
<1>6. IsFiniteSet(N)
  BY <1>2, <1>5, FS_Surjection
<1>7. \A T \in N : IsFiniteSet(T)
  BY <1>2, <1>4, OwnEntityIs
<1>8. IsFiniteSet(UNION N)
  BY <1>6, <1>7, FS_UNION
<1>. QED BY <1>1, <1>4, <1>8 DEF Held

LEMMA EntryIdApart ==
  ASSUME NEW first, Held(first), NEW e \in Members(first.entries), NEW f \in Members(first.entries),
         EntryId(first, e) = EntryId(first, f)
  PROVE  e = f
<1>1. PICK T : T = first.tracked
  OBVIOUS
<1>2. PICK x, y : x = OwnEntity(e) /\ y = OwnEntity(f)
  OBVIOUS
<1>3. CorpusEntry(e) /\ CorpusEntry(f) /\ \A g \in Members(first.entries) : SamePlace(e, g) => e = g
  BY DEF Held, CorpusOk
<1>4. /\ x \in EntitiesOf(e) /\ y \in EntitiesOf(f)
      /\ x.locator = e.locator /\ y.locator = f.locator
  BY <1>2, <1>3, OwnEntityIs
<1>5. x \in T /\ y \in T /\ IsFiniteSet(T)
  BY <1>1, <1>4, TrackedFinite DEF Held
<1>6. Segment(x, Count(T, x)) = Segment(y, Count(T, y))
  <2>1. \A u, v : <<u>> = <<v>> => u = v
    OBVIOUS
  <2>. QED BY <1>1, <1>2, <2>1, Zenon DEF EntryId
<1>7. x.locator = y.locator
  BY <1>5, <1>6, SegmentApart
<1>. QED BY <1>3, <1>4, <1>7 DEF SamePlace

LEMMA EntityIdApart ==
  ASSUME NEW first, Held(first), NEW e \in Members(first.entries), NEW f \in Members(first.entries),
         NEW x \in EntitiesOf(e), NEW y \in EntitiesOf(f), EntityId(first, e, x) = EntityId(first, f, y)
  PROVE  e = f /\ x = y
<1>1. PICK s, t : s = Segment(OwnEntity(e), Count(first.tracked, OwnEntity(e)))
                  /\ t = Segment(OwnEntity(f), Count(first.tracked, OwnEntity(f)))
  OBVIOUS
<1>2. EntryId(first, e) = <<s>> /\ EntryId(first, f) = <<t>>
  BY <1>1, Zenon DEF EntryId
<1>3. PICK u, v : u = Segment(x, Count(EntitiesOf(e), x)) /\ v = Segment(y, Count(EntitiesOf(f), y))
  OBVIOUS
<1>4. /\ EntityId(first, e, x) = IF x.kind = "entry" THEN <<s>> ELSE Append(<<s>>, u)
      /\ EntityId(first, f, y) = IF y.kind = "entry" THEN <<t>> ELSE Append(<<t>>, v)
  BY <1>2, <1>3, Zenon DEF EntityId
<1>5. \A a, b, c, d : /\ Append(<<a>>, b) # <<c>>
                      /\ <<a>> = <<c>> => a = c
                      /\ Append(<<a>>, b) = Append(<<c>>, d) => a = c /\ b = d
  <2> TAKE a, b, c, d
  <2>1. PICK p, q : p = Append(<<a>>, b) /\ q = Append(<<c>>, d)
    OBVIOUS
  <2>2. Len(p) = 2 /\ p[1] = a /\ p[2] = b /\ q[1] = c /\ q[2] = d
    BY <2>1
  <2>3. Len(<<c>>) = 1
    OBVIOUS
  <2>4. <<a>>[1] = a /\ <<c>>[1] = c
    OBVIOUS
  <2>. QED BY <2>1, <2>2, <2>3, <2>4
<1>6. s = t /\ (x.kind = "entry" <=> y.kind = "entry") /\ (x.kind # "entry" => u = v)
  <2>1. CASE x.kind = "entry" /\ y.kind = "entry"
    BY <1>4, <1>5, <2>1, Zenon
  <2>2. CASE x.kind = "entry" /\ y.kind # "entry"
    BY <1>4, <1>5, <2>2, Zenon
  <2>3. CASE x.kind # "entry" /\ y.kind = "entry"
    BY <1>4, <1>5, <2>3, Zenon
  <2>4. CASE x.kind # "entry" /\ y.kind # "entry"
    <3>1. Append(<<s>>, u) = Append(<<t>>, v)
      BY <1>4, <2>4, Zenon
    <3>2. s = t /\ u = v
      BY <1>5, <3>1
    <3>. QED BY <2>4, <3>2, Zenon
  <2>. QED BY <2>1, <2>2, <2>3, <2>4
<1>7. e = f
  BY <1>2, <1>6, EntryIdApart
<1>8. CorpusEntry(e)
  BY DEF Held, CorpusOk
<1>9. CASE x.kind = "entry"
  BY <1>6, <1>7, <1>8, <1>9, OwnEntityIs
<1>10. CASE x.kind # "entry"
  <2>1. PICK T : T = EntitiesOf(e)
    OBVIOUS
  <2>2. IsFiniteSet(T) /\ x \in T /\ y \in T
    BY <1>7, <1>8, <2>1, OwnEntityIs
  <2>3. Segment(x, Count(T, x)) = Segment(y, Count(T, y))
    BY <1>3, <1>6, <1>7, <1>10, <2>1
  <2>4. x = y \/ (x.kind = y.kind /\ x.locator = y.locator)
    BY <2>2, <2>3, SegmentApart
  <2>. QED BY <1>7, <1>8, <2>1, <2>2, <2>4, OwnEntityIs
<1>. QED BY <1>7, <1>9, <1>10

(***************************************************************************)
(* The candidates of a relation.                                           *)
(***************************************************************************)

LEMMA CandidateIs ==
  ASSUME NEW first, NEW e, NEW x
  PROVE  /\ Candidate(first, e, x).dictionary = e.dictionary
         /\ Candidate(first, e, x).kind = x.kind /\ Candidate(first, e, x).key = x.key
         /\ Candidate(first, e, x).id = EntityId(first, e, x)
         /\ Candidate(first, e, x).entry_id = EntryId(first, e)
         /\ Candidate(first, e, x).entry_key = OwnEntity(e).key
         /\ Candidate(first, e, x).headword = e.headword
         /\ Candidate(first, e, x).homonym = e.homonym
BY DEF Candidate

LEMMA EntryCandidates ==
  ASSUME NEW first, NEW e, CorpusEntry(e)
  PROVE  /\ IsSeq(CandidatesOf(first, e))
         /\ Members(CandidatesOf(first, e))
              = {Candidate(first, e, x) : x \in {x \in EntitiesOf(e) : Wanted(first, x)}}
<1>1. PICK own : own = e.entities
  OBVIOUS
<1>2. IsSeq(own) /\ EntitiesOf(e) = Members(own)
  BY <1>1 DEF CorpusEntry, EntryOk, OwnEntities, EntitiesOf, Members
<1>3. PICK l \in Nat : l = Len(own) /\ DOMAIN own = 1..l
  BY <1>2, SeqIs
<1> DEFINE L(i) == IF Wanted(first, own[i]) THEN <<Candidate(first, e, own[i])>> ELSE <<>>
<1>4. PICK lists : lists = [i \in 1..l |-> L(i)]
  OBVIOUS
<1>5. CandidatesOf(first, e) = Concat(lists)
  BY <1>1, <1>3, <1>4, Zenon DEF CandidatesOf
<1>6. ASSUME NEW i \in 1..l
      PROVE  /\ IsSeq(L(i))
             /\ \A c : c \in Members(L(i)) <=> Wanted(first, own[i]) /\ c = Candidate(first, e, own[i])
  <2>1. PICK c0 : c0 = Candidate(first, e, own[i])
    OBVIOUS
  <2>2. \A c : c \in Members(<<c0>>) <=> c = c0
    <3>1. DOMAIN <<c0>> = {1} /\ <<c0>>[1] = c0
      OBVIOUS
    <3>. QED BY <3>1 DEF Members
  <2>3. Members(<<>>) = {}
    BY DEF Members
  <2>4. CASE Wanted(first, own[i])
    <3>1. L(i) = <<c0>>
      BY <2>1, <2>4
    <3> HIDE DEF L
    <3>. QED BY <2>1, <2>2, <2>4, <3>1, SeqMade
  <2>5. CASE ~Wanted(first, own[i])
    <3>1. L(i) = <<>>
      BY <2>5
    <3> HIDE DEF L
    <3>. QED BY <2>3, <2>5, <3>1, SeqMade
  <2>. QED BY <2>4, <2>5
<1> HIDE DEF L
<1>7. DOMAIN lists = 1..l /\ lists = [i \in 1..l |-> lists[i]] /\ \A i \in 1..l : lists[i] = L(i)
  BY <1>4
<1>8. PICK all : all = Concat(lists)
  OBVIOUS
<1>9. IsSeq(all) /\ Members(all) = UNION {Members(lists[i]) : i \in 1..l}
  BY <1>6, <1>7, <1>8, ConcatMembers
<1>10. \A c : c \in Members(all)
              <=> \E i \in 1..l : Wanted(first, own[i]) /\ c = Candidate(first, e, own[i])
  BY <1>6, <1>7, <1>9
<1>11. \A x : x \in Members(own) <=> \E i \in 1..l : x = own[i]
  BY <1>3 DEF Members
<1>12. \A c : c \in Members(all)
              <=> \E x \in Members(own) : Wanted(first, x) /\ c = Candidate(first, e, x)
  BY <1>10, <1>11
<1>. QED BY <1>2, <1>5, <1>8, <1>9, <1>12

LEMMA CandidatesAre ==
  ASSUME NEW first, Held(first)
  PROVE  /\ IsSeq(Collected(first, first.entries))
         /\ \A c : c \in Members(Collected(first, first.entries))
                   <=> \E e \in Members(first.entries) : \E x \in EntitiesOf(e) :
                         Wanted(first, x) /\ c = Candidate(first, e, x)
<1>1. PICK entries : entries = first.entries
  OBVIOUS
<1>2. IsSeq(entries) /\ \A e \in Members(entries) : CorpusEntry(e)
  BY <1>1 DEF Held, CorpusOk
<1>3. PICK m \in Nat : m = Len(entries) /\ DOMAIN entries = 1..m
  BY <1>2, SeqIs
<1>4. PICK lists : lists = [n \in 1..m |-> CandidatesOf(first, entries[n])]
  OBVIOUS
<1>5. DOMAIN lists = 1..m /\ lists = [n \in 1..m |-> lists[n]]
      /\ \A n \in 1..m : lists[n] = CandidatesOf(first, entries[n])
  BY <1>4
<1>6. \A n \in 1..m : entries[n] \in Members(entries)
  BY <1>3 DEF Members
<1>7. ASSUME NEW n \in 1..m
      PROVE  /\ IsSeq(lists[n])
             /\ \A c : c \in Members(lists[n])
                       <=> \E x \in EntitiesOf(entries[n]) :
                             Wanted(first, x) /\ c = Candidate(first, entries[n], x)
  <2>1. PICK e : e = entries[n]
    OBVIOUS
  <2>2. CorpusEntry(e)
    BY <1>2, <1>6, <2>1
  <2>3. lists[n] = CandidatesOf(first, e)
    BY <1>5, <2>1
  <2>. QED BY <2>1, <2>2, <2>3, EntryCandidates
<1>8. PICK all : all = Concat(lists)
  OBVIOUS
<1>9. IsSeq(all) /\ Members(all) = UNION {Members(lists[n]) : n \in 1..m}
  BY <1>5, <1>7, <1>8, ConcatMembers
<1>10. Collected(first, entries) = all
  BY <1>3, <1>4, <1>8 DEF Collected
<1>11. \A e : e \in Members(entries) <=> \E n \in 1..m : e = entries[n]
  BY <1>3 DEF Members
<1>12. \A c : c \in Members(all)
              <=> \E n \in 1..m : \E x \in EntitiesOf(entries[n]) :
                    Wanted(first, x) /\ c = Candidate(first, entries[n], x)
  BY <1>7, <1>9
<1>13. \A c : c \in Members(all)
              <=> \E e \in Members(entries) : \E x \in EntitiesOf(e) :
                    Wanted(first, x) /\ c = Candidate(first, e, x)
  BY <1>11, <1>12
<1>. QED BY <1>1, <1>9, <1>10, <1>13

\* Entity x of entry e has the key, the dictionary and the kind that relation r says.
Fits(r, e, x) ==
  /\ TargetKey(r) # "" /\ x.key = TargetKey(r)
  /\ e.dictionary = r.entry.dictionary
  /\ x.kind \in TargetKinds(r.entry.dictionary, r.fields.unit)

LEMMA FitsWanted ==
  ASSUME NEW first, Held(first), NEW r \in Members(first.relations),
         NEW e \in Members(first.entries), NEW x \in EntitiesOf(e), Fits(r, e, x)
  PROVE  Wanted(first, x)
<1>1. PICK keys, d, key : keys = r.fields.key /\ d = r.entry.dictionary /\ key = TargetKey(r)
  OBVIOUS
<1>2. One(keys) /\ key = Normalized(keys[1])
  BY <1>1, Zenon DEF Fits, TargetKey
<1>3. 1 \in DOMAIN keys
  <2>1. IsSeq(keys)
    BY <1>1 DEF Held
  <2>2. PICK l \in Nat : l = Len(keys) /\ DOMAIN keys = 1..l
    BY <2>1, SeqIs
  <2>. QED BY <1>2, <2>2 DEF One
<1>4. PICK kinds : kinds = TargetKinds(d, r.fields.unit)
  OBVIOUS
<1>5. key # "" /\ x.key = key /\ x.kind \in kinds /\ e.dictionary = d
  BY <1>1, <1>4, Zenon DEF Fits
<1>6. key \in {Normalized(keys[i]) : i \in DOMAIN keys} \ {""}
  <2>1. key \in {Normalized(keys[i]) : i \in DOMAIN keys}
    BY <1>2, <1>3
  <2>2. key \notin {""}
    BY <1>5, Zenon
  <2>. QED BY <2>1, <2>2, Zenon
<1>7. <<d, x.kind, key>> \in Requested(r)
  <2> DEFINE K == {Normalized(r.fields.key[i]) : i \in DOMAIN r.fields.key} \ {""}
             kindsOf == TargetKinds(r.entry.dictionary, r.fields.unit)
  <2>1. Requested(r) = {<<r.entry.dictionary, kind, k>> : kind \in kindsOf, k \in K}
    BY DEF Requested
  <2>2. key \in K /\ x.kind \in kindsOf
    BY <1>1, <1>4, <1>5, <1>6, Zenon
  <2> HIDE DEF K, kindsOf
  <2>3. <<r.entry.dictionary, x.kind, key>> \in Requested(r)
    BY <2>1, <2>2
  <2>. QED BY <1>1, <2>3
<1>8. <<d, x.kind, key>> \in first.requested
  BY <1>7 DEF Held
<1>9. x.dictionary = d
  BY <1>5, OwnEntityIs DEF Held, CorpusOk
<1>. QED BY <1>5, <1>8, <1>9, Zenon DEF Wanted

\* Those that Keyed selects, none of them lost as a repeated id.
LEMMA KeyedAre ==
  ASSUME NEW first, Held(first), NEW r \in Members(first.relations)
  PROVE  \A c : c \in Keyed(Collected(first, first.entries), r)
                <=> \E e \in Members(first.entries) : \E x \in EntitiesOf(e) :
                      Fits(r, e, x) /\ c = Candidate(first, e, x)
<1>1. PICK candidates, ES : candidates = Collected(first, first.entries) /\ ES = Members(first.entries)
  OBVIOUS
<1>2. /\ IsSeq(candidates)
      /\ \A c : c \in Members(candidates)
                <=> \E e \in ES : \E x \in EntitiesOf(e) :
                      Wanted(first, x) /\ c = Candidate(first, e, x)
  BY <1>1, CandidatesAre
<1>3. PICK l \in Nat : DOMAIN candidates = 1..l
  BY <1>2, SeqIs
<1> DEFINE Selects(c) == /\ TargetKey(r) # "" /\ c.key = TargetKey(r)
                         /\ c.dictionary = r.entry.dictionary
                         /\ c.kind \in TargetKinds(r.entry.dictionary, r.fields.unit)
           selected == {i \in DOMAIN candidates : Selects(candidates[i])}
           kept == {i \in selected :
                      \A j \in selected : j < i => candidates[j].id # candidates[i].id}
<1>4. Keyed(candidates, r) = {candidates[i] : i \in kept}
  BY Zenon DEF Keyed
<1>5. \A e, x : Selects(Candidate(first, e, x)) <=> Fits(r, e, x)
  <2> TAKE e, x
  <2>1. PICK c : c = Candidate(first, e, x)
    OBVIOUS
  <2>2. c.dictionary = e.dictionary /\ c.kind = x.kind /\ c.key = x.key
    BY <2>1, CandidateIs
  <2>. QED BY <2>1, <2>2, Zenon DEF Fits
<1> HIDE DEF Selects
<1>6. \A i \in DOMAIN candidates : candidates[i] \in Members(candidates)
  BY DEF Members
<1>7. ASSUME NEW i \in selected
      PROVE  \E e \in ES : \E x \in EntitiesOf(e) : Fits(r, e, x) /\ candidates[i] = Candidate(first, e, x)
  <2>0. PICK e \in ES : \E x \in EntitiesOf(e) : candidates[i] = Candidate(first, e, x)
    BY <1>2, <1>6
  <2>1. PICK x \in EntitiesOf(e) : candidates[i] = Candidate(first, e, x)
    BY <2>0
  <2>2. Selects(candidates[i])
    OBVIOUS
  <2>. QED BY <1>5, <2>1, <2>2
<1>8. ASSUME NEW i \in selected, NEW j \in selected, candidates[i].id = candidates[j].id
      PROVE  candidates[i] = candidates[j]
  <2>0. PICK e \in ES, f \in ES :
          /\ \E x \in EntitiesOf(e) : candidates[i] = Candidate(first, e, x)
          /\ \E y \in EntitiesOf(f) : candidates[j] = Candidate(first, f, y)
    BY <1>7
  <2>1. PICK x \in EntitiesOf(e) : candidates[i] = Candidate(first, e, x)
    BY <2>0
  <2>2. PICK y \in EntitiesOf(f) : candidates[j] = Candidate(first, f, y)
    BY <2>0
  <2>3. EntityId(first, e, x) = EntityId(first, f, y)
    BY <1>8, <2>1, <2>2, CandidateIs
  <2>4. e = f /\ x = y
    BY <1>1, <2>3, EntityIdApart
  <2>. QED BY <2>1, <2>2, <2>4
<1>9. ASSUME NEW e \in ES, NEW x \in EntitiesOf(e), Fits(r, e, x)
      PROVE  Candidate(first, e, x) \in Keyed(candidates, r)
  <2>1. PICK c : c = Candidate(first, e, x)
    OBVIOUS
  <2>2. c \in Members(candidates)
    BY <1>1, <1>2, <1>9, <2>1, FitsWanted
  <2>3. PICK i \in DOMAIN candidates : c = candidates[i]
    BY <2>2 DEF Members
  <2>4. i \in selected
    BY <1>5, <1>9, <2>1, <2>3
  <2>5. PICK P : P = {j \in selected : candidates[j].id = candidates[i].id}
    OBVIOUS
  <2>6. P \in SUBSET Nat /\ P # {}
    BY <1>3, <2>4, <2>5
  <2>7. PICK j \in P : \A k \in P : j <= k
    BY <2>6, LeastNatural
  <2>8. j \in selected /\ candidates[j] = c
    BY <1>8, <2>3, <2>4, <2>5
  <2>9. \A k \in selected : k < j => k \notin P
    BY <1>3, <2>6, <2>7
  <2>10. \A k \in selected : k < j => candidates[k].id # candidates[j].id
    BY <2>5, <2>7, <2>9
  <2>11. j \in kept
    BY <2>8, <2>10
  <2>. QED BY <1>4, <2>1, <2>8, <2>11
<1>10. ASSUME NEW c \in Keyed(candidates, r)
       PROVE  \E e \in ES : \E x \in EntitiesOf(e) : Fits(r, e, x) /\ c = Candidate(first, e, x)
  <2>1. PICK i \in kept : c = candidates[i]
    BY <1>4
  <2>. QED BY <1>7, <2>1
<1>. QED BY <1>1, <1>9, <1>10

(***************************************************************************)
(* What resolve_relation makes of them.                                    *)
(***************************************************************************)

\* What is eligible until something conflicts, and that nothing matches if it did.
Follows(e, S) ==
  /\ e.conflict \in BOOLEAN
  /\ ~e.conflict => e.eligible = S
  /\ e.conflict => S = {}

LEMMA NarrowedFollows ==
  ASSUME NEW e, NEW S, Follows(e, S), NEW matching, NEW T, T \subseteq S,
         ~e.conflict => matching = T
  PROVE  Follows(Narrowed(e, matching), T)
<1>1. PICK eligible, conflict :
         /\ eligible = IF matching = {} THEN e.eligible ELSE matching
         /\ conflict = (e.conflict \/ (matching = {} /\ e.eligible # {}))
  OBVIOUS
<1>2. PICK n : n = Narrowed(e, matching)
  OBVIOUS
<1>3. n = [eligible |-> eligible, conflict |-> conflict]
  BY <1>1, <1>2, Zenon DEF Narrowed
<1>4. n.eligible = eligible /\ n.conflict = conflict
  BY <1>3
<1>5. conflict \in BOOLEAN
  BY <1>1
<1>6. CASE e.conflict
  <2>1. conflict = TRUE /\ T = {}
    BY <1>1, <1>6 DEF Follows
  <2>. QED BY <1>2, <1>4, <2>1 DEF Follows
<1>7. CASE ~e.conflict
  <2>1. matching = T /\ e.eligible = S
    BY <1>7 DEF Follows
  <2>2. CASE T = {} /\ S # {}
    <3>1. conflict = TRUE
      BY <1>1, <2>1, <2>2
    <3>. QED BY <1>2, <1>4, <2>2, <3>1 DEF Follows
  <2>3. CASE T # {} \/ S = {}
    <3>1. conflict = FALSE /\ eligible = T
      BY <1>1, <1>7, <2>1, <2>3 DEF Follows
    <3>. QED BY <1>2, <1>4, <3>1 DEF Follows
  <2>. QED BY <2>2, <2>3
<1>. QED BY <1>6, <1>7

\* The candidates that match all that is asked.
Full(keyed, d, fields) ==
  {c \in keyed : OwnerMatches(d, fields, c) /\ WordMatches(d, fields, c) /\ HomonymMatches(d, fields, c)}

LEMMA EligibleFollows ==
  ASSUME NEW keyed, NEW d, NEW fields
  PROVE  Follows(Eligible(keyed, d, fields), Full(keyed, d, fields))
<1>1. PICK e0, e1, e2, e3 :
         /\ e0 = [eligible |-> keyed, conflict |-> FALSE]
         /\ e1 = Owned(d, fields, e0) /\ e2 = Named(d, fields, e1) /\ e3 = Numbered(d, fields, e2)
  OBVIOUS
<1>2. PICK S1, S2, S3 :
         /\ S1 = {c \in keyed : OwnerMatches(d, fields, c)}
         /\ S2 = {c \in S1 : WordMatches(d, fields, c)}
         /\ S3 = {c \in S2 : HomonymMatches(d, fields, c)}
  OBVIOUS
<1>3. Follows(e0, keyed)
  <2>1. e0.eligible = keyed /\ e0.conflict = FALSE
    BY <1>1
  <2>. QED BY <2>1 DEF Follows
<1>4. Follows(e1, S1)
  <2>1. PICK matching : matching = {c \in e0.eligible : OwnerMatches(d, fields, c)}
    OBVIOUS
  <2>2. e1 = Narrowed(e0, matching)
    BY <1>1, <2>1 DEF Owned
  <2>3. (~e0.conflict => matching = S1) /\ S1 \subseteq keyed
    BY <1>2, <1>3, <2>1 DEF Follows
  <2>. QED BY <1>3, <2>2, <2>3, NarrowedFollows
<1>5. Follows(e2, S2)
  <2>1. PICK matching : matching = {c \in e1.eligible : WordMatches(d, fields, c)}
    OBVIOUS
  <2>2. e2 = Narrowed(e1, matching)
    BY <1>1, <2>1 DEF Named
  <2>3. (~e1.conflict => matching = S2) /\ S2 \subseteq S1
    BY <1>2, <1>4, <2>1 DEF Follows
  <2>. QED BY <1>4, <2>2, <2>3, NarrowedFollows
<1>6. Follows(e3, S3)
  <2>1. PICK matching : matching = {c \in e2.eligible : HomonymMatches(d, fields, c)}
    OBVIOUS
  <2>2. e3 = Narrowed(e2, matching)
    BY <1>1, <2>1 DEF Numbered
  <2>3. (~e2.conflict => matching = S3) /\ S3 \subseteq S2
    BY <1>2, <1>5, <2>1 DEF Follows
  <2>. QED BY <1>5, <2>2, <2>3, NarrowedFollows
<1>7. S3 = Full(keyed, d, fields)
  BY <1>2 DEF Full
<1>8. e3 = Eligible(keyed, d, fields)
  BY <1>1, Zenon DEF Eligible
<1>. QED BY <1>6, <1>7, <1>8

HasTarget(status) == status \in {"resolved", "self_reference"}

\* A status when S is all that matches.
StatusRight(r, source, found, S, status) ==
  /\ HasTarget(status) <=> /\ ~FieldConflict(r.entry.dictionary, r.fields)
                           /\ ~UrlConflict(r.entry.dictionary, r.fields)
                           /\ \E c : S = {c}
  /\ HasTarget(status) => /\ found.eligible = S
                          /\ status = "self_reference" <=> \E c \in S : c.entry_id = source

LEMMA StatusIs ==
  ASSUME NEW r, NEW found, NEW source, NEW S, IsFiniteSet(S), Follows(found, S),
         NEW status, status = Status(r, found, source)
  PROVE  StatusRight(r, source, found, S, status)
<1> USE DEF StatusRight
<1> DEFINE wrong == FieldConflict(r.entry.dictionary, r.fields)
                    \/ UrlConflict(r.entry.dictionary, r.fields) \/ found.conflict
           self == IF \E c \in found.eligible : c.entry_id = source THEN "self_reference" ELSE "resolved"
           among == CASE found.eligible = {} -> "unresolved"
                      [] Cardinality(found.eligible) > 1 -> "ambiguous"
                      [] OTHER -> self
<1>1. status = CASE wrong -> "ambiguous" [] OTHER -> among
  BY Zenon DEF Status
<1>2. self \in {"self_reference", "resolved"}
      /\ (self = "self_reference" <=> \E c \in found.eligible : c.entry_id = source)
  OBVIOUS
<1> HIDE DEF self
<1>3. CASE wrong
  <2>1. status = "ambiguous"
    BY <1>1, <1>3
  <2>2. ~HasTarget(status)
    BY <2>1 DEF HasTarget
  <2>3. found.conflict => S = {}
    BY DEF Follows
  <2>4. \A c : {c} # {}
    OBVIOUS
  <2>. QED BY <1>3, <2>2, <2>3, <2>4
<1>4. CASE ~wrong
  <2>1. status = among
    BY <1>1, <1>4
  <2>2. found.eligible = S
    BY <1>4 DEF Follows
  <2>3. Cardinality(S) \in Nat /\ (Cardinality(S) = 0 <=> S = {}) /\ (Cardinality(S) = 1 <=> \E c : S = {c})
    BY FS_CardinalityType, FS_EmptySet, FS_Singleton
  <2>4. CASE S = {}
    <3>0. found.eligible = {} /\ ~(Cardinality(found.eligible) > 1)
      BY <2>2, <2>3, <2>4
    <3>1. status = "unresolved"
      BY <2>1, <3>0
    <3>2. ~HasTarget(status)
      BY <3>1 DEF HasTarget
    <3>3. ~\E c : S = {c}
      BY <2>4
    <3>. QED BY <3>2, <3>3, Zenon
  <2>5. CASE S # {} /\ Cardinality(S) > 1
    <3>1. status = "ambiguous"
      BY <2>1, <2>2, <2>5
    <3>2. ~HasTarget(status)
      BY <3>1 DEF HasTarget
    <3>3. ~\E c : S = {c}
      BY <2>3, <2>5
    <3>. QED BY <3>2, <3>3, Zenon
  <2>6. CASE S # {} /\ ~(Cardinality(S) > 1)
    <3>1. status = self
      BY <2>1, <2>2, <2>6
    <3>2. \E c : S = {c}
      BY <2>3, <2>6
    <3>3. HasTarget(status)
      BY <1>2, <3>1 DEF HasTarget
    <3>. QED BY <1>2, <1>4, <2>2, <3>1, <3>2, <3>3
  <2>. QED BY <2>4, <2>5, <2>6
<1>. QED BY <1>3, <1>4

\* What OwnerMatches, WordMatches and HomonymMatches look at of an entry.
EntryAs(e) == [entry_key |-> OwnEntity(e).key, headword |-> e.headword, homonym |-> e.homonym]
Means(r, e, x) ==
  /\ Fits(r, e, x)
  /\ OwnerMatches(r.entry.dictionary, r.fields, EntryAs(e))
  /\ WordMatches(r.entry.dictionary, r.fields, EntryAs(e))
  /\ HomonymMatches(r.entry.dictionary, r.fields, EntryAs(e))

LEMMA MeantAre ==
  ASSUME NEW first, Held(first), NEW r
  PROVE  \A p : p \in Meant(first, r)
                <=> \E e \in Members(first.entries) : \E x \in EntitiesOf(e) :
                      Means(r, e, x) /\ p = <<e, x>>
<1> DEFINE d == r.entry.dictionary
           As(e) == [entry_key |-> OwnEntity(e).key, headword |-> e.headword, homonym |-> e.homonym]
           Says(e, x) ==
             /\ x.dictionary = d /\ x.kind \in TargetKinds(d, r.fields.unit)
             /\ x.key # "" /\ x.key = TargetKey(r)
             /\ OwnerMatches(d, r.fields, As(e))
             /\ WordMatches(d, r.fields, As(e))
             /\ HomonymMatches(d, r.fields, As(e))
           ES == {first.entries[n] : n \in DOMAIN first.entries}
<1>1. Meant(first, r) = UNION {{<<e, x>> : x \in {x \in EntitiesOf(e) : Says(e, x)}} : e \in ES}
  BY DEF Meant
<1>2. ES = Members(first.entries)
  BY DEF Members
<1>3. ASSUME NEW e \in ES, NEW x \in EntitiesOf(e) PROVE Says(e, x) <=> Means(r, e, x)
  <2>1. x.dictionary = e.dictionary
    BY <1>2, <1>3, OwnEntityIs DEF Held, CorpusOk
  <2>2. As(e) = EntryAs(e)
    BY DEF EntryAs
  <2> HIDE DEF As
  <2>. QED BY <2>1, <2>2, Zenon DEF Means, Fits
<1> HIDE DEF Says, ES
<1>4. \A p : p \in Meant(first, r) <=> \E e \in ES : \E x \in EntitiesOf(e) : Says(e, x) /\ p = <<e, x>>
  BY <1>1
<1>. QED BY <1>2, <1>3, <1>4, Zenon

LEMMA MeantFinite ==
  ASSUME NEW first, Held(first), NEW r PROVE IsFiniteSet(Meant(first, r))
<1>1. PICK P : P = Members(first.entries) \X first.tracked
  OBVIOUS
<1>2. IsFiniteSet(Members(first.entries)) /\ IsFiniteSet(first.tracked)
  BY SeqIs, TrackedFinite DEF Held, CorpusOk
<1>3. IsFiniteSet(P)
  BY <1>1, <1>2, FS_Product
<1>4. \A p \in Meant(first, r) : p \in P
  BY <1>1, MeantAre DEF Held
<1>5. Meant(first, r) \subseteq P
  BY <1>4
<1>. QED BY <1>3, <1>5, FS_Subset

\* The candidates that match all are those of the entities that the relation may mean.
LEMMA FullAre ==
  ASSUME NEW first, Held(first), NEW r \in Members(first.relations),
         NEW keyed, keyed = Keyed(Collected(first, first.entries), r)
  PROVE  \A c : c \in Full(keyed, r.entry.dictionary, r.fields)
                <=> \E e \in Members(first.entries) : \E x \in EntitiesOf(e) :
                      Means(r, e, x) /\ c = Candidate(first, e, x)
<1>1. PICK d, fields : d = r.entry.dictionary /\ fields = r.fields
  OBVIOUS
<1> DEFINE Asked(c) == OwnerMatches(d, fields, c) /\ WordMatches(d, fields, c) /\ HomonymMatches(d, fields, c)
<1>2. ASSUME NEW e, NEW x PROVE Asked(Candidate(first, e, x)) <=> Asked(EntryAs(e))
  <2>1. PICK c, a : c = Candidate(first, e, x) /\ a = EntryAs(e)
    OBVIOUS
  <2>2. c.entry_key = a.entry_key /\ c.headword = a.headword /\ c.homonym = a.homonym
    <3>1. /\ c.entry_key = OwnEntity(e).key /\ c.headword = e.headword /\ c.homonym = e.homonym
      BY <2>1, CandidateIs
    <3>2. /\ a.entry_key = OwnEntity(e).key /\ a.headword = e.headword /\ a.homonym = e.homonym
      BY <2>1 DEF EntryAs
    <3>. QED BY <3>1, <3>2
  <2>3. OwnerMatches(d, fields, c) <=> OwnerMatches(d, fields, a)
    BY <2>2, Zenon DEF OwnerMatches
  <2>4. WordMatches(d, fields, c) <=> WordMatches(d, fields, a)
    BY <2>2, Zenon DEF WordMatches
  <2>5. HomonymMatches(d, fields, c) <=> HomonymMatches(d, fields, a)
    BY <2>2, Zenon DEF HomonymMatches
  <2>. QED BY <2>1, <2>3, <2>4, <2>5, Zenon
<1>3. Full(keyed, d, fields) = {c \in keyed : Asked(c)}
  BY DEF Full
<1>4. \A e, x : Means(r, e, x) <=> Fits(r, e, x) /\ Asked(EntryAs(e))
  BY <1>1, Zenon DEF Means
<1> HIDE DEF Asked
<1>5. \A c : c \in keyed <=> \E e \in Members(first.entries) : \E x \in EntitiesOf(e) :
                               Fits(r, e, x) /\ c = Candidate(first, e, x)
  BY KeyedAre
<1>6. \A c : c \in Full(keyed, d, fields) <=> c \in keyed /\ Asked(c)
  BY <1>3
<1>7. \A e, x : Means(r, e, x) <=> Fits(r, e, x) /\ Asked(Candidate(first, e, x))
  BY <1>2, <1>4
<1>8. ASSUME NEW c \in keyed, Asked(c)
      PROVE  \E e \in Members(first.entries) : \E x \in EntitiesOf(e) :
               Means(r, e, x) /\ c = Candidate(first, e, x)
  <2>1. PICK e \in Members(first.entries) :
          \E x \in EntitiesOf(e) : Fits(r, e, x) /\ c = Candidate(first, e, x)
    BY <1>5
  <2>. QED BY <1>7, <1>8, <2>1
<1>9. ASSUME NEW e \in Members(first.entries), NEW x \in EntitiesOf(e), Means(r, e, x)
      PROVE  Candidate(first, e, x) \in keyed /\ Asked(Candidate(first, e, x))
  BY <1>5, <1>7, <1>9
<1>. QED BY <1>1, <1>6, <1>8, <1>9

LEMMA OneMatch ==
  ASSUME NEW first, Held(first), NEW r \in Members(first.relations),
         NEW keyed, keyed = Keyed(Collected(first, first.entries), r)
  PROVE  /\ Cardinality(Meant(first, r)) = 1 <=> \E c : Full(keyed, r.entry.dictionary, r.fields) = {c}
         /\ \A c : Full(keyed, r.entry.dictionary, r.fields) = {c} =>
              \E e \in Members(first.entries) : \E x \in EntitiesOf(e) :
                <<e, x>> \in Meant(first, r) /\ c = Candidate(first, e, x)
         /\ IsFiniteSet(Full(keyed, r.entry.dictionary, r.fields))
<1>1. PICK ES, S, meant : /\ ES = Members(first.entries) /\ meant = Meant(first, r)
                          /\ S = Full(keyed, r.entry.dictionary, r.fields)
  OBVIOUS
<1>2. \A c : c \in S <=> \E e \in ES : \E x \in EntitiesOf(e) : Means(r, e, x) /\ c = Candidate(first, e, x)
  BY <1>1, FullAre
<1>3. \A p : p \in meant <=> \E e \in ES : \E x \in EntitiesOf(e) : Means(r, e, x) /\ p = <<e, x>>
  BY <1>1, MeantAre
<1>4. IsFiniteSet(meant)
  BY <1>1, MeantFinite
<1>5. ASSUME NEW e \in ES, NEW f \in ES, NEW x \in EntitiesOf(e), NEW y \in EntitiesOf(f),
             Candidate(first, e, x) = Candidate(first, f, y)
      PROVE  e = f /\ x = y
  <2>1. EntityId(first, e, x) = EntityId(first, f, y)
    BY <1>5, CandidateIs
  <2>. QED BY <1>1, <2>1, EntityIdApart
<1>6. ASSUME NEW c, S = {c}
      PROVE  \E e \in ES : \E x \in EntitiesOf(e) : <<e, x>> \in meant /\ c = Candidate(first, e, x)
  BY <1>2, <1>3, <1>6
<1>7. ASSUME NEW c, S = {c} PROVE \E p : meant = {p}
  <2>1. PICK e \in ES : \E x \in EntitiesOf(e) : <<e, x>> \in meant /\ c = Candidate(first, e, x)
    BY <1>6, <1>7
  <2>2. PICK x \in EntitiesOf(e) : <<e, x>> \in meant /\ c = Candidate(first, e, x)
    BY <2>1
  <2>3. ASSUME NEW p \in meant PROVE p = <<e, x>>
    <3>1. PICK f \in ES : \E y \in EntitiesOf(f) : Means(r, f, y) /\ p = <<f, y>>
      BY <1>3
    <3>2. PICK y \in EntitiesOf(f) : Means(r, f, y) /\ p = <<f, y>>
      BY <3>1
    <3>3. Candidate(first, f, y) \in S
      BY <1>2, <3>2
    <3>4. Candidate(first, f, y) = Candidate(first, e, x)
      BY <1>7, <2>2, <3>3
    <3>. QED BY <1>5, <3>2, <3>4
  <2>4. meant = {<<e, x>>}
    BY <2>2, <2>3
  <2>. QED BY <2>4
<1>8. ASSUME NEW p, meant = {p} PROVE \E c : S = {c}
  <2>1. PICK e \in ES : \E x \in EntitiesOf(e) : Means(r, e, x) /\ p = <<e, x>>
    BY <1>3, <1>8
  <2>2. PICK x \in EntitiesOf(e) : Means(r, e, x) /\ p = <<e, x>>
    BY <2>1
  <2>3. Candidate(first, e, x) \in S
    BY <1>2, <2>2
  <2>4. ASSUME NEW c \in S PROVE c = Candidate(first, e, x)
    <3>1. PICK f \in ES : \E y \in EntitiesOf(f) : Means(r, f, y) /\ c = Candidate(first, f, y)
      BY <1>2
    <3>2. PICK y \in EntitiesOf(f) : Means(r, f, y) /\ c = Candidate(first, f, y)
      BY <3>1
    <3>3. <<f, y>> \in meant
      BY <1>3, <3>2
    <3>4. <<f, y>> = <<e, x>>
      BY <1>8, <2>2, <3>3
    <3>. QED BY <3>2, <3>4
  <2>5. S = {Candidate(first, e, x)}
    BY <2>3, <2>4
  <2>. QED BY <2>5
<1>9. Cardinality(meant) = 1 <=> \E p : meant = {p}
  BY <1>4, FS_Singleton
<1>10. IsFiniteSet(S)
  <2>1. PICK f : f = [p \in meant |-> Candidate(first, p[1], p[2])]
    OBVIOUS
  <2>2. ASSUME NEW p \in meant PROVE f[p] \in S
    <3>1. PICK e \in ES : \E x \in EntitiesOf(e) : Means(r, e, x) /\ p = <<e, x>>
      BY <1>3
    <3>2. PICK x \in EntitiesOf(e) : Means(r, e, x) /\ p = <<e, x>>
      BY <3>1
    <3>3. f[p] = Candidate(first, e, x)
      BY <2>1, <3>2
    <3>. QED BY <1>2, <3>2, <3>3
  <2>3. ASSUME NEW c \in S PROVE \E p \in meant : f[p] = c
    <3>1. PICK e \in ES : \E x \in EntitiesOf(e) : Means(r, e, x) /\ c = Candidate(first, e, x)
      BY <1>2
    <3>2. PICK x \in EntitiesOf(e) : Means(r, e, x) /\ c = Candidate(first, e, x)
      BY <3>1
    <3>3. <<e, x>> \in meant
      BY <1>3, <3>2
    <3>4. f[<<e, x>>] = Candidate(first, e, x)
      BY <2>1, <3>3
    <3>. QED BY <3>2, <3>3, <3>4
  <2>4. f \in Surjection(meant, S)
    BY <2>1, <2>2, <2>3 DEF Surjection
  <2>. QED BY <1>4, <2>4, FS_Surjection
<1>. QED BY <1>1, <1>6, <1>7, <1>8, <1>9, <1>10

LEMMA ResolutionIs ==
  ASSUME NEW first, NEW r, NEW source, NEW keyed, NEW found, NEW status,
         status = Status(r, found, source)
  PROVE  /\ Judged(first, r, source, keyed, found).status = status
         /\ \A c : HasTarget(status) /\ found.eligible = {c} =>
                   Judged(first, r, source, keyed, found).target_id = c.id
<1> DEFINE target == IF status \in {"resolved", "self_reference"}
                       THEN CHOOSE c \in found.eligible : TRUE
                       ELSE [id |-> <<>>, entry_id |-> <<>>]
<1>1. PICK given : given = Judged(first, r, source, keyed, found)
  OBVIOUS
<1>2. given = Resolution(first, r, source, keyed, found, status)
  BY <1>1, Zenon DEF Judged
<1>3. given = [source_entity |-> EntityId(first, r.entry, r.entity), source |-> source,
               locator |-> r.entry.locator, ordinal |-> r.ordinal, fields |-> r.fields,
               candidates |-> {c.id : c \in keyed}, status |-> status,
               resolved |-> status = "resolved", target_id |-> target.id,
               target |-> target.entry_id]
  BY <1>2, Zenon DEF Resolution
<1>4. HasTarget(status) => target = CHOOSE c \in found.eligible : TRUE
  BY DEF HasTarget
<1> HIDE DEF target
<1>5. given.status = status /\ given.target_id = target.id
  BY <1>3
<1>6. ASSUME NEW c, HasTarget(status), found.eligible = {c} PROVE given.target_id = c.id
  <2>1. target \in found.eligible
    BY <1>4, <1>6
  <2>. QED BY <1>5, <1>6, <2>1
<1>. QED BY <1>1, <1>5, <1>6

LEMMA ResolutionRight ==
  ASSUME NEW first, Held(first), NEW r \in Members(first.relations)
  PROVE  RightTarget(first, r, Resolve(first, Collected(first, first.entries), r), Meant(first, r))
<1>1. PICK d, source, keyed, found, meant, ES :
         /\ d = r.entry.dictionary /\ source = EntryId(first, r.entry)
         /\ keyed = Keyed(Collected(first, first.entries), r)
         /\ found = Eligible(keyed, d, r.fields) /\ meant = Meant(first, r)
         /\ ES = Members(first.entries)
  OBVIOUS
<1>2. PICK given : given = Judged(first, r, source, keyed, found)
  OBVIOUS
<1>3. Resolve(first, Collected(first, first.entries), r) = given
  BY <1>1, <1>2, Zenon DEF Resolve, Matched
<1>4. PICK status : status = Status(r, found, source)
  OBVIOUS
<1>5. PICK S : S = Full(keyed, d, r.fields)
  OBVIOUS
<1>6. IsFiniteSet(S) /\ Follows(found, S)
  BY <1>1, <1>5, OneMatch, EligibleFollows
<1>7. /\ HasTarget(status) <=> /\ ~FieldConflict(d, r.fields) /\ ~UrlConflict(d, r.fields)
                               /\ \E c : S = {c}
      /\ HasTarget(status) => /\ found.eligible = S
                              /\ status = "self_reference" <=> \E c \in S : c.entry_id = source
  <2>1. StatusRight(r, source, found, S, status)
    BY <1>4, <1>6, StatusIs
  <2>. QED BY <1>1, <2>1, Zenon DEF StatusRight
<1>8. given.status = status
  BY <1>2, <1>4, ResolutionIs
<1>9. Cardinality(meant) = 1 <=> \E c : S = {c}
  BY <1>1, <1>5, OneMatch
<1> DEFINE Bears(id) == {x \in first.tracked : \E n \in DOMAIN first.entries :
                           /\ x \in EntitiesOf(first.entries[n])
                           /\ EntityId(first, first.entries[n], x) = id}
<1>10. ASSUME HasTarget(status)
       PROVE  \E sole \in meant :
                /\ Bears(given.target_id) = {sole[2]}
                /\ status = "self_reference" <=> sole[1] = r.entry
  <2>1. PICK c : S = {c}
    BY <1>7, <1>10
  <2>2. PICK e \in ES : \E x \in EntitiesOf(e) : <<e, x>> \in meant /\ c = Candidate(first, e, x)
    <3>1. \A k : Full(keyed, r.entry.dictionary, r.fields) = {k} =>
            \E e \in Members(first.entries) : \E x \in EntitiesOf(e) :
              <<e, x>> \in Meant(first, r) /\ k = Candidate(first, e, x)
      BY <1>1, OneMatch
    <3>2. Full(keyed, r.entry.dictionary, r.fields) = {c}
      BY <1>1, <1>5, <2>1
    <3>. QED BY <1>1, <3>1, <3>2
  <2>3. PICK x \in EntitiesOf(e) : <<e, x>> \in meant /\ c = Candidate(first, e, x)
    BY <2>2
  <2>4. given.target_id = EntityId(first, e, x)
    <3>1. found.eligible = {c}
      BY <1>7, <1>10, <2>1
    <3>2. given.target_id = c.id
      BY <1>2, <1>4, <1>10, <3>1, ResolutionIs
    <3>. QED BY <2>3, <3>2, CandidateIs
  <2>5. Bears(given.target_id) = {x}
    <3>1. \A n \in DOMAIN first.entries : first.entries[n] \in ES
      BY <1>1 DEF Members
    <3>2. ASSUME NEW y \in Bears(given.target_id) PROVE y = x
      <4>1. PICK n \in DOMAIN first.entries :
              y \in EntitiesOf(first.entries[n]) /\ EntityId(first, first.entries[n], y) = EntityId(first, e, x)
        BY <2>4
      <4>2. PICK f : f = first.entries[n]
        OBVIOUS
      <4>. QED BY <1>1, <3>1, <4>1, <4>2, EntityIdApart
    <3>3. x \in Bears(given.target_id)
      <4>1. x \in first.tracked
        BY <1>1 DEF Held
      <4>2. PICK n \in DOMAIN first.entries : e = first.entries[n]
        BY <1>1 DEF Members
      <4>. QED BY <2>4, <4>1, <4>2
    <3> HIDE DEF Bears
    <3>. QED BY <3>2, <3>3
  <2>6. status = "self_reference" <=> e = r.entry
    <3>1. c.entry_id = EntryId(first, e)
      BY <2>3, CandidateIs
    <3>2. r.entry \in ES
      BY <1>1 DEF Held
    <3>3. c.entry_id = source <=> e = r.entry
      BY <1>1, <3>1, <3>2, EntryIdApart
    <3>. QED BY <1>7, <1>10, <2>1, <3>3
  <2>7. <<e, x>>[1] = e /\ <<e, x>>[2] = x
    OBVIOUS
  <2> HIDE DEF Bears
  <2>. QED BY <2>3, <2>5, <2>6, <2>7
<1>11. HasTarget(status) <=> /\ ~FieldConflict(d, r.fields) /\ ~UrlConflict(d, r.fields)
                             /\ Cardinality(meant) = 1
  BY <1>7, <1>9
<1>. QED BY <1>1, <1>3, <1>8, <1>10, <1>11 DEF RightTarget, HasTarget

(***************************************************************************)
(* A resolved relation leads from one entry to another.                    *)
(***************************************************************************)

LEMMA ResolutionLeads ==
  ASSUME NEW first, NEW r, NEW source, NEW keyed, NEW found,
         Judged(first, r, source, keyed, found).resolved
  PROVE  LET given == Judged(first, r, source, keyed, found) IN given.source # given.target
<1>1. PICK status : status = Status(r, found, source)
  OBVIOUS
<1> DEFINE target == IF status \in {"resolved", "self_reference"}
                       THEN CHOOSE c \in found.eligible : TRUE
                       ELSE [id |-> <<>>, entry_id |-> <<>>]
<1>2. PICK given : given = Judged(first, r, source, keyed, found)
  OBVIOUS
<1>3. /\ given.resolved = (status = "resolved") /\ given.source = source
      /\ given.target = target.entry_id
  <2>1. given = [source_entity |-> EntityId(first, r.entry, r.entity), source |-> source,
                 locator |-> r.entry.locator, ordinal |-> r.ordinal, fields |-> r.fields,
                 candidates |-> {c.id : c \in keyed}, status |-> status,
                 resolved |-> status = "resolved", target_id |-> target.id,
                 target |-> target.entry_id]
    <3>1. given = Resolution(first, r, source, keyed, found, status)
      BY <1>1, <1>2, Zenon DEF Judged
    <3>. QED BY <3>1, Zenon DEF Resolution
  <2> HIDE DEF target
  <2>. QED BY <2>1
<1>4. status = "resolved"
  BY <1>2, <1>3
<1>5. found.eligible # {} /\ ~\E c \in found.eligible : c.entry_id = source
  BY <1>1, <1>4 DEF Status
<1>6. target \in found.eligible
  <2>1. target = CHOOSE c \in found.eligible : TRUE
    BY <1>4
  <2>. QED BY <1>5, <2>1
<1> HIDE DEF target
<1>. QED BY <1>2, <1>3, <1>5, <1>6

\* The resolutions of an input, one for each relation of its first pass.
LEMMA ResolutionsAre ==
  ASSUME NEW c \in DOMAIN Later, NEW read \in Readings(c), NEW again,
         <<read, again>> \in Inputs
  PROVE  /\ FirstPasses[read] = FirstPass(read)
         /\ Resolutions[<<read, again>>]
              = [n \in DOMAIN FirstPass(read).relations |->
                   Resolve(FirstPass(read), SecondPass(FirstPass(read), again),
                           FirstPass(read).relations[n])]
<1>1. PICK input : input = <<read, again>>
  OBVIOUS
<1>2. input[1] = read /\ input[2] = again /\ input \in Inputs
  BY <1>1
<1>3. PICK first, candidates : first = FirstPass(read) /\ candidates = SecondPass(first, again)
  OBVIOUS
<1>4. FirstPasses[read] = first
  BY <1>3, TableIs DEF FirstPasses
<1>5. PICK list : list = [n \in DOMAIN first.relations |-> Resolve(first, candidates, first.relations[n])]
  OBVIOUS
<1>6. Resolutions[input] = Rereading(FirstPasses[input[1]], input[2])
  BY <1>2, TableIs DEF Resolutions
<1>7. Relations(first, candidates) = list
  BY <1>5, TableIs DEF Relations
<1>8. Rereading(first, again) = list
  BY <1>3, <1>7 DEF Rereading
<1>. QED BY <1>1, <1>2, <1>3, <1>4, <1>5, <1>6, <1>8

LEMMA ResolutionsEdged ==
  ASSUME NEW input \in Inputs PROVE Edged(Resolutions[input])
<1>1. PICK c \in DOMAIN Later : input \in Readings(c) \X Readings(c)
  BY DEF Inputs
<1>2. PICK read, again : input = <<read, again>> /\ read \in Readings(c)
  BY <1>1
<1>3. PICK first, candidates : first = FirstPass(read) /\ candidates = SecondPass(first, again)
  OBVIOUS
<1>4. PICK list : list = [n \in DOMAIN first.relations |-> Resolve(first, candidates, first.relations[n])]
  OBVIOUS
<1>5. Resolutions[input] = list
  BY <1>2, <1>3, <1>4, ResolutionsAre
<1>6. IsFiniteSet(DOMAIN list)
  <2>1. PICK relations : relations = first.relations
    OBVIOUS
  <2>2. IsSeq(relations)
    BY <1>2, <1>3, <2>1, FirstPassOk DEF Held
  <2>3. PICK l \in Nat : DOMAIN relations = 1..l
    BY <2>2, SeqIs
  <2>4. DOMAIN list = 1..l
    BY <1>4, <2>1, <2>3
  <2>. QED BY <2>4, FS_Interval
<1>7. Resolved(list) \subseteq DOMAIN list
  BY DEF Resolved
<1>8. IsFiniteSet(Resolved(list))
  BY <1>6, <1>7, FS_Subset
<1>9. ASSUME NEW i \in Resolved(list) PROVE list[i].source # list[i].target
  <2>1. i \in DOMAIN first.relations /\ list[i].resolved
    BY <1>4 DEF Resolved
  <2>2. PICK r : r = first.relations[i]
    OBVIOUS
  <2>3. list[i] = Resolve(first, candidates, r)
    BY <1>4, <2>1, <2>2
  <2>4. PICK source, keyed, found : list[i] = Judged(first, r, source, keyed, found)
    BY <2>3, Zenon DEF Resolve, Matched
  <2>. QED BY <2>1, <2>4, ResolutionLeads
<1>. QED BY <1>5, <1>8, <1>9 DEF Edged

\* Both passes over the same files.
LEMMA TargetsRight ==
  ASSUME NEW read, <<read, read>> \in Inputs PROVE TargetsMeant[<<read, read>>]
<1>1. PICK c \in DOMAIN Later : <<read, read>> \in Readings(c) \X Readings(c)
  BY DEF Inputs
<1>2. read \in Readings(c)
  BY <1>1
<1>3. PICK first, candidates, relations :
         /\ first = FirstPass(read) /\ candidates = SecondPass(first, read)
         /\ relations = first.relations
  OBVIOUS
<1>4. Held(first) /\ candidates = Collected(first, first.entries)
  BY <1>2, <1>3, FirstPassOk DEF SecondPass
<1>5. PICK list : list = [n \in DOMAIN relations |-> Resolve(first, candidates, relations[n])]
  OBVIOUS
<1>6. PICK input : input = <<read, read>>
  OBVIOUS
<1>7. Resolutions[input] = list /\ FirstPasses[read] = first
  BY <1>2, <1>3, <1>5, <1>6, ResolutionsAre
<1>8. ASSUME NEW n \in DOMAIN list
      PROVE  RightTarget(first, relations[n], list[n], Meant(first, relations[n]))
  <2>1. PICK r : r = relations[n]
    OBVIOUS
  <2>2. r \in Members(relations) /\ list[n] = Resolve(first, candidates, r)
    BY <1>5, <2>1 DEF Members
  <2>3. RightTarget(first, r, Resolve(first, Collected(first, first.entries), r), Meant(first, r))
    BY <1>3, <1>4, <2>2, ResolutionRight
  <2>. QED BY <1>4, <2>1, <2>2, <2>3
<1>9. RightTargets(first, list)
  BY <1>3, <1>8 DEF RightTargets
<1>10. TargetsMeant[input] = RightTargets(FirstPasses[input[1]], Resolutions[input])
  BY <1>6, TableIs DEF TargetsMeant
<1>11. input[1] = read
  BY <1>6
<1>. QED BY <1>6, <1>7, <1>9, <1>10, <1>11

(***************************************************************************)
(* The cycles of every report.                                             *)
(***************************************************************************)

LEMMA ReportsRight ==
  ASSUME NEW input \in Inputs PROVE CyclesReach[input]
<1>1. PICK list : list = Resolutions[input]
  OBVIOUS
<1>2. PICK report : report = Reports[input]
  OBVIOUS
<1>3. report = Report(input[1], FirstPasses[input[1]], list)
  BY <1>1, <1>2, TableIs DEF Reports
<1>4. report.in_cycle = MarkCycles(list).inCycle /\ report.groups = MarkCycles(list).groups
  BY <1>3 DEF Report, Summary
<1>5. Edged(list)
  BY <1>1, ResolutionsEdged
<1>6. Mutual(report, list, Enclosed(list))
  BY <1>4, <1>5, MarkCyclesRight
<1>7. CyclesReach[input] = RightCycles(Reports[input], Resolutions[input])
  BY TableIs DEF CyclesReach
<1>. QED BY <1>1, <1>2, <1>6, <1>7 DEF RightCycles

\* What a prepared audit has read is one of the inputs.
LEMMA PreparedInput ==
  ASSUME IInv, NEW a \in Prepared PROVE Input(a) \in Inputs
<1>1. PICK x : x = audit[a]
  OBVIOUS
<1>2. x.phase = "prepared" /\ AuditOk(x)
  BY <1>1 DEF IInv, Prepared, At
<1>3. HasRead(x)
  BY <1>2 DEF AuditOk, Reading
<1>4. PICK c : c = x.commit
  OBVIOUS
<1>5. /\ c \in DOMAIN Later /\ x.read \in Seq(Of(c)) /\ Len(x.read) = Len(Corpora[c])
      /\ x.again \in Seq(Of(c)) /\ Len(x.again) = Len(Corpora[c])
  BY <1>2, <1>3, <1>4 DEF HasRead
<1>6. PICK m \in Nat : m = Len(Corpora[c]) /\ DOMAIN Corpora[c] = 1..m
  BY <1>5, CorporaAssumption, LaterAssumption
<1>7. \A s \in Seq(Of(c)) : Len(s) = m => s \in [1..m -> Of(c)]
  BY <1>6, LenProperties
<1>8. x.read \in [1..m -> Of(c)] /\ x.again \in [1..m -> Of(c)]
  BY <1>5, <1>6, <1>7
<1>9. x.read \in Readings(c) /\ x.again \in Readings(c)
  BY <1>6, <1>8 DEF Readings, Of
<1>10. <<x.read, x.again>> \in Inputs
  BY <1>5, <1>9 DEF Inputs
<1>. QED BY <1>1, <1>10 DEF Input

LEMMA IInvCycles == IInv => CyclesAreMutual
BY PreparedInput, ReportsRight DEF CyclesAreMutual

\* In every report an audit is about to commit, mark_cycles has marked exactly the
\* resolved relations whose target leads back to their source, and grouped the entries
\* that reach each other: whatever the sources, of however many entries.
THEOREM AuditMarksCycles == Spec => []CyclesAreMutual
BY AlwaysIInv, IInvCycles, PTL

LEMMA IInvTargets == IInv => ResolvedIsTheOneMatch
<1>1. ASSUME IInv, NEW a \in Prepared, audit[a].read = audit[a].again PROVE TargetsMeant[Input(a)]
  <2>1. PICK read : read = audit[a].read
    OBVIOUS
  <2>2. Input(a) = <<read, read>>
    BY <1>1, <2>1 DEF Input
  <2>3. <<read, read>> \in Inputs
    BY <1>1, <2>2, PreparedInput
  <2>. QED BY <2>2, <2>3, TargetsRight
<1>. QED BY <1>1 DEF ResolvedIsTheOneMatch

\* In every report an audit is about to commit whose files did not change between the
\* passes, a relation has a target exactly if one entity of the corpus fits all that it
\* says, and the id it is given is that entity's alone: whatever the sources, however
\* often keys repeat or are missing, whatever discriminators a relation has.
THEOREM AuditResolvesTheOneMatch == Spec => []ResolvedIsTheOneMatch
BY AlwaysIInv, IInvTargets, PTL

(***************************************************************************)
(* Counting: what occurs more than once, in parts and as a whole.          *)
(***************************************************************************)

LEMMA SameNumber ==
  ASSUME NEW S, IsFiniteSet(S), NEW T, NEW f \in [S -> T],
         \A x, y \in S : f[x] = f[y] => x = y, \A y \in T : \E x \in S : f[x] = y
  PROVE  IsFiniteSet(T) /\ Cardinality(T) = Cardinality(S)
<1>1. f \in Surjection(S, T) /\ f \in Injection(S, T)
  BY DEF Surjection, Injection, IsInjective
<1>2. IsFiniteSet(T) /\ (Cardinality(T) = Cardinality(S) <=> f \in Injection(S, T))
  BY <1>1, FS_Surjection
<1>. QED BY <1>1, <1>2

LEMMA Apart ==
  ASSUME NEW S, IsFiniteSet(S), NEW T, IsFiniteSet(T), S \cap T = {}
  PROVE  /\ IsFiniteSet(S \cup T) /\ Cardinality(S \cup T) = Cardinality(S) + Cardinality(T)
         /\ Cardinality(S) \in Nat /\ Cardinality(T) \in Nat
<1>1. Cardinality(S \cap T) = 0
  BY FS_EmptySet
<1>2. Cardinality(S) \in Nat /\ Cardinality(T) \in Nat
  BY FS_CardinalityType
<1>3. /\ IsFiniteSet(S \cup T)
      /\ Cardinality(S \cup T) = Cardinality(S) + Cardinality(T) - Cardinality(S \cap T)
  BY FS_Union
<1>. QED BY <1>1, <1>2, <1>3

\* R is the part of N that shares its value, B the values of S.
Sharing(N, v, R) == R = {x \in N : \E y \in N : y # x /\ v[y] = v[x]}
Valued(v, S, B) == B = {v[x] : x \in S}

\* Of what has values, the part that shares them has as much more than values as all.
LEMMA SharedOnes ==
  ASSUME NEW N, IsFiniteSet(N), NEW v, NEW R, Sharing(N, v, R),
         NEW B, Valued(v, R, B), NEW C, Valued(v, N, C)
  PROVE  /\ Cardinality(R) - Cardinality(B) = Cardinality(N) - Cardinality(C)
         /\ IsFiniteSet(C) /\ IsFiniteSet(R)
<1> USE DEF Sharing, Valued
<1>1. PICK S, A : S = N \ R /\ A = {v[x] : x \in S}
  OBVIOUS
<1>2. IsFiniteSet(S) /\ IsFiniteSet(R)
  <2>1. S \subseteq N /\ R \subseteq N
    BY <1>1
  <2>. QED BY <2>1, FS_Subset
<1>3. S \cap R = {} /\ S \cup R = N
  BY <1>1
<1>4. Cardinality(N) = Cardinality(S) + Cardinality(R) /\ Cardinality(S) \in Nat /\ Cardinality(R) \in Nat
  BY <1>2, <1>3, Apart
<1>5. IsFiniteSet(A) /\ Cardinality(A) = Cardinality(S)
  <2>1. PICK f : f = [x \in S |-> v[x]]
    OBVIOUS
  <2>2. f \in [S -> A] /\ \A y \in A : \E x \in S : f[x] = y
    BY <1>1, <2>1
  <2>3. \A x, y \in S : f[x] = f[y] => x = y
    BY <1>1, <2>1
  <2>. QED BY <1>2, <2>2, <2>3, SameNumber
<1>6. IsFiniteSet(B)
  <2>1. PICK f : f = [x \in R |-> v[x]]
    OBVIOUS
  <2>2. f \in [R -> B] /\ \A y \in B : \E x \in R : f[x] = y
    BY <1>1, <2>1
  <2>3. f \in Surjection(R, B)
    BY <2>2 DEF Surjection
  <2>. QED BY <1>2, <2>3, FS_Surjection
<1>7. A \cap B = {} /\ A \cup B = C
  BY <1>1
<1>8. IsFiniteSet(C) /\ Cardinality(C) = Cardinality(A) + Cardinality(B) /\ Cardinality(B) \in Nat
  <2>1. /\ IsFiniteSet(A \cup B) /\ Cardinality(A \cup B) = Cardinality(A) + Cardinality(B)
        /\ Cardinality(B) \in Nat
    <3>1. IsFiniteSet(A) /\ IsFiniteSet(B) /\ A \cap B = {}
      BY <1>5, <1>6, <1>7
    <3>. QED BY <3>1, Apart, Zenon
  <2>. QED BY <1>7, <2>1
<1>. QED BY <1>1, <1>2, <1>4, <1>5, <1>8

\* Values that are the same are so in coarser parts too.
LEMMA Coarser ==
  ASSUME NEW V, IsFiniteSet(V), NEW W, NEW f \in [V -> W], \A y \in W : \E x \in V : f[x] = y
  PROVE  /\ IsFiniteSet(W) /\ Cardinality(W) <= Cardinality(V)
         /\ Cardinality(W) \in Nat /\ Cardinality(V) \in Nat
<1>1. f \in Surjection(V, W)
  BY DEF Surjection
<1>. QED BY <1>1, FS_Surjection, FS_CardinalityType

\* The occurrences of keys of a kind in scopes, and the keys by scope.
Occurring(scopes, kind) ==
  UNION {{<<n, x>> : x \in {x \in scopes[n] : x.kind = kind /\ x.key # ""}} : n \in DOMAIN scopes}
Pairs(N) == {<<p[1], p[2].key>> : p \in N}

LEMMA OccurringAre ==
  ASSUME NEW scopes, NEW kind
  PROVE  /\ \A p \in Occurring(scopes, kind) : p = <<p[1], p[2]>>
         /\ \A n, x : <<n, x>> \in Occurring(scopes, kind)
                      <=> n \in DOMAIN scopes /\ x \in scopes[n] /\ x.kind = kind /\ x.key # ""
<1> DEFINE Has(x) == x.kind = kind /\ x.key # ""
<1>1. Occurring(scopes, kind) = UNION {{<<n, x>> : x \in {x \in scopes[n] : Has(x)}} : n \in DOMAIN scopes}
  BY DEF Occurring
<1>2. \A x : Has(x) <=> x.kind = kind /\ x.key # ""
  OBVIOUS
<1> HIDE DEF Has
<1>3. \A p : p \in Occurring(scopes, kind)
             <=> \E n \in DOMAIN scopes : \E x \in scopes[n] : Has(x) /\ p = <<n, x>>
  BY <1>1
<1>4. \A n, x : <<n, x>> \in Occurring(scopes, kind) <=> n \in DOMAIN scopes /\ x \in scopes[n] /\ Has(x)
  BY <1>3
<1>5. \A p \in Occurring(scopes, kind) : p = <<p[1], p[2]>>
  BY <1>3
<1>. QED BY <1>2, <1>4, <1>5, Zenon

LEMMA CountedTwice ==
  ASSUME NEW T, IsFiniteSet(T), NEW x \in T
  PROVE  /\ Count(T, x) > 1 <=>
              /\ x.key # ""
              /\ \E y \in T : y # x /\ y.dictionary = x.dictionary /\ y.kind = x.kind /\ y.key = x.key
         /\ Count(T, x) = 1 <=>
              /\ x.key # ""
              /\ \A y \in T : y.dictionary = x.dictionary /\ y.kind = x.kind /\ y.key = x.key => y = x
<1>1. PICK S : S = {y \in T : <<y.dictionary, y.kind, y.key>> = <<x.dictionary, x.kind, x.key>>}
  OBVIOUS
<1>2. Count(T, x) = IF x.key = "" THEN 0 ELSE Cardinality(S)
  BY <1>1, Zenon DEF Count
<1>3. IsFiniteSet(S) /\ Cardinality(S) \in Nat
  BY <1>1, FS_Subset, FS_CardinalityType
<1>4. x \in S /\ \A y : y \in S <=> y \in T /\ y.dictionary = x.dictionary /\ y.kind = x.kind /\ y.key = x.key
  BY <1>1
<1>5. Cardinality(S) # 0
  BY <1>3, <1>4, FS_EmptySet
<1>6. Cardinality(S) = 1 <=> \A y \in S : y = x
  <2>1. Cardinality(S) = 1 <=> \E z : S = {z}
    BY <1>3, FS_Singleton
  <2>2. \A z : S = {z} => \A y \in S : y = x
    BY <1>4
  <2>3. (\A y \in S : y = x) => S = {x}
    BY <1>4
  <2>. QED BY <2>1, <2>2, <2>3
<1>7. CASE x.key = ""
  <2>1. Count(T, x) = 0
    BY <1>2, <1>7, Zenon
  <2>2. ~(Count(T, x) > 1) /\ Count(T, x) # 1
    BY <2>1
  <2>. QED BY <1>7, <2>2, Zenon
<1>8. CASE x.key # ""
  <2>1. Count(T, x) = Cardinality(S)
    BY <1>2, <1>8, Zenon
  <2>2. (Count(T, x) > 1 <=> \E y \in S : y # x) /\ (Count(T, x) = 1 <=> \A y \in S : y = x)
    BY <1>3, <1>5, <1>6, <2>1
  <2>. QED BY <1>4, <1>8, <2>2, Zenon
<1>. QED BY <1>7, <1>8

\* Scopes of entities of one dictionary, and what is counted of one kind.
ScopesOk(scopes) ==
  /\ IsFiniteSet(DOMAIN scopes)
  /\ \A n \in DOMAIN scopes :
       /\ IsFiniteSet(scopes[n])
       /\ \A x, y \in scopes[n] : x.dictionary = y.dictionary

\* N is what occurs of that kind.
Occurs(scopes, kind, N) == N = Occurring(scopes, kind)

LEMMA AggregateIs ==
  ASSUME NEW scopes, NEW kind, ScopesOk(scopes), NEW N, Occurs(scopes, kind, N), IsFiniteSet(N)
  PROVE  /\ Aggregate(scopes, kind).scopes = Cardinality(DOMAIN scopes)
         /\ Aggregate(scopes, kind).occurrences = Cardinality(N) - Cardinality(Pairs(N))
         /\ Aggregate(scopes, kind).values = 0 <=>
              \A p, q \in N : p[1] = q[1] /\ p[2].key = q[2].key => p = q
         /\ IsFiniteSet(Pairs(N))
<1> DEFINE Own(n) == {x \in scopes[n] : x.kind = kind}
           Repeated(n) == {x \in Own(n) : Count(Own(n), x) > 1}
           repeated == UNION {{<<n, x>> : x \in Repeated(n)} : n \in DOMAIN scopes}
           values == {<<p[1], p[2].key>> : p \in repeated}
<1>1. Aggregate(scopes, kind)
        = [scopes |-> Cardinality(DOMAIN scopes),
           with_duplicates |-> Cardinality({p[1] : p \in repeated}),
           values |-> Cardinality(values),
           occurrences |-> Cardinality(repeated) - Cardinality(values)]
  BY Zenon DEF Aggregate
<1>2. ASSUME NEW n \in DOMAIN scopes, NEW x \in Own(n)
      PROVE  x \in Repeated(n) <=> x.key # "" /\ \E y \in Own(n) : y # x /\ y.key = x.key
  <2>1. PICK T : T = Own(n)
    OBVIOUS
  <2>2. IsFiniteSet(T) /\ x \in T
    <3>1. T \subseteq scopes[n]
      BY <2>1
    <3>. QED BY <2>1, <3>1, FS_Subset DEF ScopesOk
  <2>3. \A y \in T : y.dictionary = x.dictionary /\ y.kind = x.kind
    BY <2>1 DEF ScopesOk
  <2>4. x \in Repeated(n) <=> Count(T, x) > 1
    BY <2>1
  <2>5. Count(T, x) > 1 <=>
          /\ x.key # ""
          /\ \E y \in T : y # x /\ y.dictionary = x.dictionary /\ y.kind = x.kind /\ y.key = x.key
    BY <2>2, CountedTwice, Zenon
  <2> HIDE DEF Own, Repeated
  <2>. QED BY <2>1, <2>3, <2>4, <2>5, Zenon
<1>3. \A n, x : <<n, x>> \in N <=> n \in DOMAIN scopes /\ x \in Own(n) /\ x.key # ""
  <2>1. \A n, x : <<n, x>> \in N <=> n \in DOMAIN scopes /\ x \in scopes[n] /\ x.kind = kind /\ x.key # ""
    BY OccurringAre, Zenon DEF Occurs
  <2>2. \A n, x : x \in Own(n) <=> x \in scopes[n] /\ x.kind = kind
    OBVIOUS
  <2> HIDE DEF Own
  <2>. QED BY <2>1, <2>2, Zenon
<1>4. \A p \in N : p = <<p[1], p[2]>>
  BY OccurringAre, Zenon DEF Occurs
<1>5. PICK R : R = {p \in N : \E q \in N : q # p /\ q[1] = p[1] /\ q[2].key = p[2].key}
  OBVIOUS
<1>6. \A n, x : x \in Repeated(n) => x \in Own(n)
  OBVIOUS
<1>7. \A p : p \in repeated <=> \E n \in DOMAIN scopes : \E x \in Repeated(n) : p = <<n, x>>
  <2> HIDE DEF Repeated
  <2>. QED OBVIOUS
<1> HIDE DEF Own, Repeated, repeated
<1>8. repeated = R
  <2>1. ASSUME NEW p \in repeated PROVE p \in R
    <3>1. PICK n \in DOMAIN scopes : \E x \in Repeated(n) : p = <<n, x>>
      BY <1>7
    <3>2. PICK x \in Repeated(n) : p = <<n, x>>
      BY <3>1
    <3>3. x \in Own(n) /\ x.key # "" /\ \E y \in Own(n) : y # x /\ y.key = x.key
      BY <1>2, <1>6, Zenon
    <3>4. PICK y \in Own(n) : y # x /\ y.key = x.key
      BY <3>3
    <3>5. y.key # ""
      BY <3>3, <3>4, Zenon
    <3>6. <<n, x>> \in N /\ <<n, y>> \in N
      BY <1>3, <3>3, <3>5, Zenon
    <3>7. <<n, y>> # <<n, x>> /\ <<n, y>>[1] = <<n, x>>[1] /\ <<n, y>>[2].key = <<n, x>>[2].key
      BY <3>4
    <3>. QED BY <1>5, <3>2, <3>6, <3>7
  <2>2. ASSUME NEW p \in R PROVE p \in repeated
    <3>1. PICK q \in N : q # p /\ q[1] = p[1] /\ q[2].key = p[2].key
      BY <1>5
    <3>2. p \in N
      BY <1>5
    <3>3. PICK n, x, y : n = p[1] /\ x = p[2] /\ y = q[2]
      OBVIOUS
    <3>4. p = <<n, x>> /\ q = <<n, y>>
      BY <1>4, <3>1, <3>2, <3>3
    <3>5. n \in DOMAIN scopes /\ x \in Own(n) /\ x.key # "" /\ y \in Own(n)
      BY <1>3, <3>1, <3>2, <3>4, Zenon
    <3>6. y # x /\ y.key = x.key
      BY <3>1, <3>3, <3>4
    <3>7. x \in Repeated(n)
      BY <1>2, <3>5, <3>6, Zenon
    <3>. QED BY <1>7, <3>4, <3>5, <3>7
  <2>. QED BY <2>1, <2>2
<1>9. PICK v : v = [p \in N |-> <<p[1], p[2].key>>]
  OBVIOUS
<1>10. \A p, q \in N : v[p] = v[q] <=> p[1] = q[1] /\ p[2].key = q[2].key
  BY <1>9
<1>11. R = {p \in N : \E q \in N : q # p /\ v[q] = v[p]}
  BY <1>5, <1>10
<1>12. Pairs(N) = {v[p] : p \in N}
  BY <1>9 DEF Pairs
<1>13. values = {v[p] : p \in R}
  BY <1>5, <1>8, <1>9
<1> HIDE DEF values
<1>14. /\ Cardinality(R) - Cardinality(values) = Cardinality(N) - Cardinality(Pairs(N))
       /\ IsFiniteSet(Pairs(N)) /\ IsFiniteSet(R)
  <2>1. PICK B, C : B = values /\ C = Pairs(N)
    OBVIOUS
  <2>2. Sharing(N, v, R) /\ Valued(v, R, B) /\ Valued(v, N, C)
    BY <1>11, <1>12, <1>13, <2>1 DEF Sharing, Valued
  <2>3. /\ Cardinality(R) - Cardinality(B) = Cardinality(N) - Cardinality(C)
        /\ IsFiniteSet(C) /\ IsFiniteSet(R)
    BY <2>2, SharedOnes, Zenon
  <2>. QED BY <2>1, <2>3
<1>15. IsFiniteSet(values) /\ (Cardinality(values) = 0 <=> values = {})
  <2>1. values \subseteq Pairs(N)
    BY <1>5, <1>12, <1>13
  <2>. QED BY <1>14, <2>1, FS_Subset, FS_EmptySet
<1>16. values = {} <=> \A p, q \in N : p[1] = q[1] /\ p[2].key = q[2].key => p = q
  <2>1. values = {} <=> R = {}
    BY <1>13
  <2>. QED BY <1>5, <2>1
<1>17. PICK a : a = Aggregate(scopes, kind)
  OBVIOUS
<1>18. /\ a.scopes = Cardinality(DOMAIN scopes) /\ a.values = Cardinality(values)
       /\ a.occurrences = Cardinality(R) - Cardinality(values)
  BY <1>1, <1>8, <1>17
<1>. QED BY <1>14, <1>15, <1>16, <1>17, <1>18

\* Pairs of a number and an entity that are told apart by the entity.
LEMMA Tagged ==
  ASSUME NEW X, IsFiniteSet(X), NEW N, \A p \in N : p[2] \in X,
         \A p, q \in N : p[2] = q[2] => p = q, \A x \in X : \E p \in N : p[2] = x
  PROVE  IsFiniteSet(N) /\ Cardinality(N) = Cardinality(X)
<1>1. PICK f : f = [x \in X |-> CHOOSE p \in N : p[2] = x]
  OBVIOUS
<1>2. \A x \in X : f[x] \in N /\ f[x][2] = x
  BY <1>1
<1>3. f \in [X -> N]
  BY <1>1, <1>2
<1>4. \A x, y \in X : f[x] = f[y] => x = y
  BY <1>2
<1>5. \A p \in N : \E x \in X : f[x] = p
  BY <1>2
<1>. QED BY <1>3, <1>4, <1>5, SameNumber

\* Scopes that each entity of X is in one of, X being what occurs of a kind.
Splits(scopes, X, kind) ==
  /\ ScopesOk(scopes)
  /\ \A x \in X : x.kind = kind /\ x.key # ""
  /\ \A n \in DOMAIN scopes : \A x \in scopes[n] : x.kind = kind /\ x.key # "" => x \in X
  /\ \A x \in X : \E n \in DOMAIN scopes : x \in scopes[n]
  /\ \A n, m \in DOMAIN scopes : \A x \in X : x \in scopes[n] /\ x \in scopes[m] => n = m

LEMMA SplitOccurs ==
  ASSUME NEW scopes, NEW X, NEW kind, Splits(scopes, X, kind), NEW N, Occurs(scopes, kind, N)
  PROVE  /\ \A n, x : <<n, x>> \in N <=> n \in DOMAIN scopes /\ x \in scopes[n] /\ x \in X
         /\ \A p \in N : p = <<p[1], p[2]>>
<1>1. \A n, x : <<n, x>> \in N <=> n \in DOMAIN scopes /\ x \in scopes[n] /\ x.kind = kind /\ x.key # ""
  BY OccurringAre, Zenon DEF Occurs
<1>2. \A p \in N : p = <<p[1], p[2]>>
  BY OccurringAre, Zenon DEF Occurs
<1>3. \A n \in DOMAIN scopes : \A x \in scopes[n] : x.kind = kind /\ x.key # "" <=> x \in X
  BY Zenon DEF Splits
<1>. QED BY <1>1, <1>2, <1>3, Zenon

\* a counts them, of which N occurs.
Counts(a, scopes, X, N) ==
  /\ a.scopes = Cardinality(DOMAIN scopes)
  /\ a.occurrences = Cardinality(X) - Cardinality(Pairs(N))
  /\ a.values = 0 <=> \A p, q \in N : p[1] = q[1] /\ p[2].key = q[2].key => p = q
  /\ IsFiniteSet(Pairs(N)) /\ Cardinality(Pairs(N)) \in Nat

LEMMA SplitCounts ==
  ASSUME NEW scopes, NEW X, IsFiniteSet(X), NEW kind, Splits(scopes, X, kind),
         NEW N, Occurs(scopes, kind, N)
  PROVE  Counts(Aggregate(scopes, kind), scopes, X, N)
<1>1. /\ \A n, x : <<n, x>> \in N <=> n \in DOMAIN scopes /\ x \in scopes[n] /\ x \in X
      /\ \A p \in N : p = <<p[1], p[2]>>
  BY SplitOccurs
<1>2. \A p \in N : p[1] \in DOMAIN scopes /\ p[2] \in scopes[p[1]] /\ p[2] \in X
  BY <1>1
<1>3. \A p, q \in N : p[2] = q[2] => p = q
  <2> TAKE p, q \in N
  <2> HAVE p[2] = q[2]
  <2>1. p[1] = q[1]
    BY <1>2 DEF Splits
  <2>. QED BY <1>1, <2>1
<1>4. ASSUME NEW x \in X PROVE \E p \in N : p[2] = x
  <2>1. PICK n \in DOMAIN scopes : x \in scopes[n]
    BY DEF Splits
  <2>2. <<n, x>> \in N /\ <<n, x>>[2] = x
    BY <1>1, <2>1
  <2>. QED BY <2>2
<1>5. IsFiniteSet(N) /\ Cardinality(N) = Cardinality(X)
  BY <1>2, <1>3, <1>4, Tagged
<1>6. ScopesOk(scopes)
  BY DEF Splits
<1>7. /\ Aggregate(scopes, kind).scopes = Cardinality(DOMAIN scopes)
      /\ Aggregate(scopes, kind).occurrences = Cardinality(N) - Cardinality(Pairs(N))
      /\ Aggregate(scopes, kind).values = 0 <=>
           \A p, q \in N : p[1] = q[1] /\ p[2].key = q[2].key => p = q
      /\ IsFiniteSet(Pairs(N))
  BY <1>5, <1>6, AggregateIs, Zenon
<1>. QED BY <1>5, <1>7, FS_CardinalityType DEF Counts

Paired(N) == \A p \in N : p = <<p[1], p[2]>>
PairsOf(V, N) == \A q : q \in V <=> \E n, x : <<n, x>> \in N /\ q = <<n, x.key>>

LEMMA PairsAre ==
  ASSUME NEW N, Paired(N), NEW V, V = Pairs(N)
  PROVE  PairsOf(V, N)
<1>1. ASSUME NEW q, q \in Pairs(N) PROVE \E n, x : <<n, x>> \in N /\ q = <<n, x.key>>
  <2>1. PICK p \in N : q = <<p[1], p[2].key>>
    BY <1>1 DEF Pairs
  <2>2. <<p[1], p[2]>> \in N
    BY <2>1 DEF Paired
  <2>. QED BY <2>1, <2>2
<1>2. ASSUME NEW q, NEW n, NEW x, <<n, x>> \in N, q = <<n, x.key>> PROVE q \in Pairs(N)
  <2>1. PICK p : p = <<n, x>>
    OBVIOUS
  <2>2. p \in N /\ q = <<p[1], p[2].key>>
    BY <1>2, <2>1
  <2>. QED BY <2>2 DEF Pairs
<1>. QED BY <1>1, <1>2, Zenon DEF PairsOf

\* What repeats in a part repeats in the whole.
LEMMA SplitCoarser ==
  ASSUME NEW fine, NEW coarse, NEW X, IsFiniteSet(X), NEW kind,
         Splits(fine, X, kind), Splits(coarse, X, kind), NEW h,
         \A n \in DOMAIN fine : \A x \in X :
           x \in fine[n] => h[n] \in DOMAIN coarse /\ x \in coarse[h[n]]
  PROVE  Aggregate(fine, kind).occurrences <= Aggregate(coarse, kind).occurrences
<1>1. PICK N, M : Occurs(fine, kind, N) /\ Occurs(coarse, kind, M)
  BY DEF Occurs
<1>2. /\ \A n, x : <<n, x>> \in N <=> n \in DOMAIN fine /\ x \in fine[n] /\ x \in X
      /\ \A p \in N : p = <<p[1], p[2]>>
  BY <1>1, SplitOccurs
<1>3. /\ \A n, x : <<n, x>> \in M <=> n \in DOMAIN coarse /\ x \in coarse[n] /\ x \in X
      /\ \A p \in M : p = <<p[1], p[2]>>
  BY <1>1, SplitOccurs
<1>4. PICK V, W : V = Pairs(N) /\ W = Pairs(M)
  OBVIOUS
<1>5. PICK f : f = [q \in V |-> <<h[q[1]], q[2]>>]
  OBVIOUS
<1>6. \A q : q \in V <=> \E n, x : <<n, x>> \in N /\ q = <<n, x.key>>
  <2>1. Paired(N)
    BY <1>2 DEF Paired
  <2>2. PairsOf(V, N)
    BY <1>4, <2>1, PairsAre, Zenon
  <2>. QED BY <2>2 DEF PairsOf
<1>7. \A q : q \in W <=> \E n, x : <<n, x>> \in M /\ q = <<n, x.key>>
  <2>1. Paired(M)
    BY <1>3 DEF Paired
  <2>2. PairsOf(W, M)
    BY <1>4, <2>1, PairsAre, Zenon
  <2>. QED BY <2>2 DEF PairsOf
<1>8. ASSUME NEW q \in V PROVE f[q] \in W
  <2>1. PICK n, x : <<n, x>> \in N /\ q = <<n, x.key>>
    BY <1>6
  <2>2. <<h[n], x>> \in M
    BY <1>2, <1>3, <2>1
  <2>3. f[q] = <<h[n], x.key>>
    BY <1>5, <2>1
  <2>. QED BY <1>7, <2>2, <2>3
<1>9. ASSUME NEW q \in W PROVE \E r \in V : f[r] = q
  <2>1. PICK m, x : <<m, x>> \in M /\ q = <<m, x.key>>
    BY <1>7
  <2>2. m \in DOMAIN coarse /\ x \in coarse[m] /\ x \in X
    BY <1>3, <2>1
  <2>3. PICK n \in DOMAIN fine : x \in fine[n]
    BY <2>2 DEF Splits
  <2>4. h[n] = m
    BY <2>2, <2>3 DEF Splits
  <2>5. <<n, x.key>> \in V
    BY <1>2, <1>6, <2>2, <2>3
  <2>6. f[<<n, x.key>>] = q
    BY <1>5, <2>1, <2>4, <2>5
  <2>. QED BY <2>5, <2>6
<1>10. /\ Aggregate(fine, kind).occurrences = Cardinality(X) - Cardinality(V) /\ IsFiniteSet(V)
       /\ Aggregate(coarse, kind).occurrences = Cardinality(X) - Cardinality(W)
  <2>1. Aggregate(fine, kind).occurrences = Cardinality(X) - Cardinality(Pairs(N)) /\ IsFiniteSet(Pairs(N))
    <3>1. Counts(Aggregate(fine, kind), fine, X, N)
      BY <1>1, SplitCounts, Zenon
    <3>. QED BY <3>1, Zenon DEF Counts
  <2>2. Aggregate(coarse, kind).occurrences = Cardinality(X) - Cardinality(Pairs(M))
    <3>1. Counts(Aggregate(coarse, kind), coarse, X, M)
      BY <1>1, SplitCounts, Zenon
    <3>. QED BY <3>1, Zenon DEF Counts
  <2>. QED BY <1>4, <2>1, <2>2, Zenon
<1>11. f \in [V -> W]
  BY <1>5, <1>8
<1>12. Cardinality(W) <= Cardinality(V) /\ Cardinality(W) \in Nat /\ Cardinality(V) \in Nat
  BY <1>9, <1>10, <1>11, Coarser
<1>13. Cardinality(X) \in Nat
  BY FS_CardinalityType
<1>. QED BY <1>10, <1>12, <1>13

(***************************************************************************)
(* The numbers of a namespace.                                             *)
(***************************************************************************)

\* The entities of a namespace, and those of them that have keys.
Tracked(first, d, kind) == {x \in first.tracked : x.dictionary = d /\ x.kind = kind}
WithKey(first, d, kind) == {x \in Tracked(first, d, kind) : x.key # ""}

\* X is these.
HaveKeys(X, first, d, kind) ==
  \A x : x \in X <=> x \in first.tracked /\ x.dictionary = d /\ x.kind = kind /\ x.key # ""

LEMMA WithKeyIs ==
  ASSUME NEW first, Held(first), NEW d, NEW kind
  PROVE  /\ IsFiniteSet(Tracked(first, d, kind)) /\ IsFiniteSet(WithKey(first, d, kind))
         /\ HaveKeys(WithKey(first, d, kind), first, d, kind)
<1>1. IsFiniteSet(first.tracked)
  BY TrackedFinite
<1>2. Tracked(first, d, kind) \subseteq first.tracked
      /\ WithKey(first, d, kind) \subseteq Tracked(first, d, kind)
  BY DEF Tracked, WithKey
<1>3. IsFiniteSet(Tracked(first, d, kind)) /\ IsFiniteSet(WithKey(first, d, kind))
  BY <1>1, <1>2, FS_Subset
<1>. QED BY <1>3, Zenon DEF Tracked, WithKey, HaveKeys

LEMMA WholeSplits ==
  ASSUME NEW first, Held(first), NEW d, NEW kind
  PROVE  Splits(<<Tracked(first, d, kind)>>, WithKey(first, d, kind), kind)
<1>1. PICK T, X, s : T = Tracked(first, d, kind) /\ X = WithKey(first, d, kind) /\ s = <<T>>
  OBVIOUS
<1>2. DOMAIN s = {1} /\ s[1] = T
  BY <1>1
<1>3. IsFiniteSet(T) /\ \A x \in T : x.dictionary = d /\ x.kind = kind
  <2>1. IsFiniteSet(Tracked(first, d, kind))
    BY WithKeyIs, Zenon
  <2>2. \A x \in Tracked(first, d, kind) : x.dictionary = d /\ x.kind = kind
    BY DEF Tracked
  <2>. QED BY <1>1, <2>1, <2>2, Zenon
<1>4. ScopesOk(s)
  BY <1>2, <1>3, FS_Singleton DEF ScopesOk
<1>5. \A x : x \in X <=> x \in T /\ x.key # ""
  BY <1>1, Zenon DEF WithKey
<1>. QED BY <1>1, <1>2, <1>3, <1>4, <1>5, Zenon DEF Splits

LEMMA FilesSplit ==
  ASSUME NEW first, Held(first), NEW d, NEW kind, NEW files, IsFiniteSet(files),
         \A x \in first.tracked : x.dictionary = d => x.locator.file \in files
  PROVE  Splits(FileScopes(first, d, files), WithKey(first, d, kind), kind)
<1>1. PICK X, s : X = WithKey(first, d, kind) /\ s = FileScopes(first, d, files)
  OBVIOUS
<1>2. DOMAIN s = files
      /\ \A n \in files : s[n] = {x \in first.tracked : x.dictionary = d /\ x.locator.file = n}
  BY <1>1 DEF FileScopes
<1>3. \A n \in files : \A x : x \in s[n] <=> x \in first.tracked /\ x.dictionary = d /\ x.locator.file = n
  BY <1>2
<1>4. \A n \in files : s[n] \subseteq first.tracked
  BY <1>3
<1>5. ScopesOk(s)
  <2>1. \A n \in files : IsFiniteSet(s[n])
    BY <1>4, TrackedFinite, FS_Subset
  <2>. QED BY <1>2, <1>3, <2>1 DEF ScopesOk
<1>6. \A x : x \in X <=> x \in first.tracked /\ x.dictionary = d /\ x.kind = kind /\ x.key # ""
  <2>1. HaveKeys(WithKey(first, d, kind), first, d, kind)
    BY WithKeyIs, Zenon
  <2>. QED BY <1>1, <2>1, Zenon DEF HaveKeys
<1>7. ASSUME NEW x \in X PROVE x.locator.file \in files /\ x \in s[x.locator.file]
  BY <1>3, <1>6
<1>8. ASSUME NEW n \in files, NEW x \in s[n], x.kind = kind, x.key # "" PROVE x \in X
  BY <1>3, <1>6, <1>8, Zenon
<1>9. ASSUME NEW n \in files, NEW m \in files, NEW x, x \in s[n], x \in s[m] PROVE n = m
  BY <1>3, <1>9
<1>. QED BY <1>1, <1>2, <1>5, <1>6, <1>7, <1>8, <1>9, Zenon DEF Splits

\* An entity is of one entry of the list, and in its file.
LEMMA EntityPlace ==
  ASSUME NEW first, Held(first), NEW n \in DOMAIN first.entries, NEW x \in EntitiesOf(first.entries[n])
  PROVE  /\ x \in first.tracked /\ x.dictionary = first.entries[n].dictionary
         /\ x.locator.file = first.entries[n].locator.file
         /\ \A m \in DOMAIN first.entries : x \in EntitiesOf(first.entries[m]) => n = m
<1>1. PICK entries : entries = first.entries
  OBVIOUS
<1>2. \A k \in DOMAIN entries : entries[k] \in Members(entries) /\ CorpusEntry(entries[k])
  BY <1>1 DEF Held, CorpusOk, Members
<1>3. ASSUME NEW e, CorpusEntry(e), NEW y \in EntitiesOf(e)
      PROVE  y.locator.file = e.locator.file /\ y.locator.entry = e.locator.entry
  <2>1. PICK own : own = e.entities
    OBVIOUS
  <2>2. OwnEntities(own, e.locator)
    BY <1>3, <2>1 DEF CorpusEntry, EntryOk
  <2>3. PICK i \in DOMAIN own : y = own[i]
    BY <2>1 DEF EntitiesOf
  <2>. QED BY <2>2, <2>3 DEF OwnEntities
<1>4. x.locator.file = entries[n].locator.file /\ x.dictionary = entries[n].dictionary
  <2>1. PICK e : e = entries[n]
    OBVIOUS
  <2>2. CorpusEntry(e) /\ x \in EntitiesOf(e)
    BY <1>1, <1>2, <2>1
  <2>3. x.dictionary = e.dictionary /\ x.locator.file = e.locator.file
    BY <1>3, <2>2, OwnEntityIs
  <2>. QED BY <2>1, <2>3
<1>5. ASSUME NEW m \in DOMAIN entries, x \in EntitiesOf(entries[m]) PROVE n = m
  <2>1. PICK e, f : e = entries[n] /\ f = entries[m]
    OBVIOUS
  <2>2. CorpusEntry(e) /\ CorpusEntry(f) /\ x \in EntitiesOf(e) /\ x \in EntitiesOf(f)
        /\ e \in Members(entries) /\ f \in Members(entries)
    BY <1>1, <1>2, <1>5, <2>1
  <2>3. SamePlace(e, f)
    BY <1>3, <2>2 DEF SamePlace
  <2>4. e = f
    BY <1>1, <2>2, <2>3 DEF Held, CorpusOk
  <2>5. IsSeq(entries) /\ Distinct(entries)
    BY <1>1 DEF Held, CorpusOk
  <2>6. DOMAIN entries = 1..Len(entries)
    BY <2>5, SeqIs
  <2>. QED BY <1>1, <2>1, <2>4, <2>5, <2>6 DEF Distinct
<1>6. x \in first.tracked
  BY <1>1, <1>2 DEF Held
<1>. QED BY <1>1, <1>4, <1>5, <1>6

LEMMA EntriesSplit ==
  ASSUME NEW first, Held(first), NEW d, NEW kind
  PROVE  Splits(EntryScopes(first, d), WithKey(first, d, kind), kind)
<1>1. PICK X, s, entries : /\ X = WithKey(first, d, kind) /\ s = EntryScopes(first, d)
                           /\ entries = first.entries
  OBVIOUS
<1>2. PICK own : own = {n \in DOMAIN entries : entries[n].dictionary = d}
  OBVIOUS
<1>3. DOMAIN s = own /\ \A n \in own : s[n] = EntitiesOf(entries[n])
  BY <1>1, <1>2 DEF EntryScopes
<1>4. ASSUME NEW n \in own, NEW x \in s[n]
      PROVE  /\ x \in first.tracked /\ x.dictionary = d
             /\ \A m \in own : x \in s[m] => n = m
  BY <1>1, <1>2, <1>3, EntityPlace
<1>5. ASSUME NEW n \in own PROVE IsFiniteSet(s[n])
  <2>1. PICK e : e = entries[n]
    OBVIOUS
  <2>2. CorpusEntry(e)
    BY <1>1, <1>2, <2>1 DEF Held, CorpusOk, Members
  <2>. QED BY <1>3, <2>1, <2>2, OwnEntityIs
<1>6. IsFiniteSet(own)
  <2>1. IsSeq(entries)
    BY <1>1 DEF Held, CorpusOk
  <2>2. PICK l \in Nat : DOMAIN entries = 1..l
    BY <2>1, SeqIs
  <2>3. IsFiniteSet(1..l)
    BY FS_Interval
  <2>4. own \subseteq 1..l
    BY <1>2, <2>2
  <2>. QED BY <2>3, <2>4, FS_Subset
<1>7. ScopesOk(s)
  BY <1>3, <1>4, <1>5, <1>6 DEF ScopesOk
<1>8. \A x : x \in X <=> x \in first.tracked /\ x.dictionary = d /\ x.kind = kind /\ x.key # ""
  <2>1. HaveKeys(WithKey(first, d, kind), first, d, kind)
    BY WithKeyIs, Zenon
  <2>. QED BY <1>1, <2>1, Zenon DEF HaveKeys
<1>9. ASSUME NEW x \in X PROVE \E n \in own : x \in s[n]
  <2>1. x \in first.tracked /\ x.dictionary = d
    BY <1>8, Zenon
  <2>2. PICK e \in Members(entries) : x \in EntitiesOf(e)
    BY <1>1, <2>1 DEF Held
  <2>3. PICK n \in DOMAIN entries : e = entries[n]
    BY DEF Members
  <2>4. entries[n].dictionary = d
    BY <1>1, <2>1, <2>2, <2>3, EntityPlace
  <2>. QED BY <1>2, <1>3, <2>2, <2>3, <2>4
<1>10. ASSUME NEW n \in own, NEW x \in s[n], x.kind = kind, x.key # "" PROVE x \in X
  BY <1>4, <1>8, <1>10, Zenon
<1>11. ASSUME NEW n \in own, NEW m \in own, NEW x, x \in s[n], x \in s[m] PROVE n = m
  BY <1>4, <1>11
<1>. QED BY <1>1, <1>3, <1>7, <1>8, <1>9, <1>10, <1>11, Zenon DEF Splits

\* The entities without a key, and the keys.
Keyless(first, d, kind) == {x \in Tracked(first, d, kind) : x.key = ""}
Keys(first, d, kind) == {x.key : x \in Tracked(first, d, kind)} \ {""}

LEMMA KeysAre ==
  ASSUME NEW T, NEW none
  PROVE  /\ {x.key : x \in T} \ {none} = {x.key : x \in {x \in T : x.key # none}}
         /\ {x \in T : x.key = none} \cap {x \in T : x.key # none} = {}
         /\ {x \in T : x.key = none} \cup {x \in T : x.key # none} = T
<1>1. PICK X : X = {x \in T : x.key # none}
  OBVIOUS
<1>2. PICK K : K = {x.key : x \in T} \ {none}
  OBVIOUS
<1>3. \A k \in K : \E x \in X : k = x.key
  BY <1>1, <1>2
<1>4. \A x \in X : x.key \in K
  BY <1>1, <1>2
<1>5. K = {x.key : x \in X}
  BY <1>3, <1>4
<1>6. /\ {x \in T : x.key = none} \cap {x \in T : x.key # none} = {}
      /\ {x \in T : x.key = none} \cup {x \in T : x.key # none} = T
  OBVIOUS
<1>. QED BY <1>1, <1>2, <1>5, <1>6

\* B is the set of the keys of X.
KeysOf(B, X) == B = {x.key : x \in X}
\* A and B are the parts of T.
PartsOf(T, A, B) == A \cap B = {} /\ A \cup B = T

LEMMA NamespaceKeys ==
  ASSUME NEW first, NEW d, NEW kind
  PROVE  /\ KeysOf(Keys(first, d, kind), WithKey(first, d, kind))
         /\ PartsOf(Tracked(first, d, kind), Keyless(first, d, kind), WithKey(first, d, kind))
<1>1. PICK none : none = ""
  OBVIOUS
<1>2. PICK T : T = Tracked(first, d, kind)
  OBVIOUS
<1>3. /\ Keys(first, d, kind) = {x.key : x \in T} \ {none}
      /\ Keyless(first, d, kind) = {x \in T : x.key = none}
      /\ WithKey(first, d, kind) = {x \in T : x.key # none}
  BY <1>1, <1>2, Zenon DEF Keys, Keyless, WithKey
<1>. QED BY <1>2, <1>3, KeysAre DEF KeysOf, PartsOf

\* In the whole as one scope, there are as many pairs as keys.
LEMMA WholePairs ==
  ASSUME NEW first, Held(first), NEW d, NEW kind,
         NEW N, Occurs(<<Tracked(first, d, kind)>>, kind, N)
  PROVE  /\ Cardinality(Keys(first, d, kind)) = Cardinality(Pairs(N))
         /\ \A p : p \in N <=> \E x \in WithKey(first, d, kind) : p = <<1, x>>
<1>1. PICK T, X, K, s : /\ T = Tracked(first, d, kind) /\ X = WithKey(first, d, kind)
                        /\ K = Keys(first, d, kind) /\ s = <<T>>
  OBVIOUS
<1>2. Splits(s, X, kind) /\ Occurs(s, kind, N)
  <2>1. Splits(<<Tracked(first, d, kind)>>, WithKey(first, d, kind), kind)
    BY WholeSplits
  <2>. QED BY <1>1, <2>1, Zenon
<1>3. /\ \A n, x : <<n, x>> \in N <=> n \in DOMAIN s /\ x \in s[n] /\ x \in X
      /\ \A p \in N : p = <<p[1], p[2]>>
  BY <1>2, SplitOccurs, Zenon
<1>4. DOMAIN s = {1} /\ s[1] = T
  BY <1>1
<1>5. X \subseteq T
  BY <1>1 DEF WithKey
<1>6. \A p : p \in N <=> \E x \in X : p = <<1, x>>
  BY <1>3, <1>4, <1>5
<1>7. KeysOf(K, X)
  BY <1>1, NamespaceKeys, Zenon
<1>8. IsFiniteSet(Pairs(N))
  <2>1. IsFiniteSet(WithKey(first, d, kind))
    BY WithKeyIs, Zenon
  <2>2. IsFiniteSet(X)
    BY <1>1, <2>1, Zenon
  <2>3. Counts(Aggregate(s, kind), s, X, N)
    BY <1>2, <2>2, SplitCounts, Zenon
  <2>. QED BY <2>3, Zenon DEF Counts
<1>9. PICK V : V = Pairs(N)
  OBVIOUS
<1>10. \A q : q \in V <=> \E x \in X : q = <<1, x.key>>
  <2>1. Paired(N)
    BY <1>3 DEF Paired
  <2>2. PairsOf(V, N)
    BY <1>9, <2>1, PairsAre, Zenon
  <2>3. \A q : q \in V <=> \E n, x : <<n, x>> \in N /\ q = <<n, x.key>>
    BY <2>2 DEF PairsOf
  <2>. QED BY <1>3, <1>4, <1>5, <2>3
<1>11. PICK f : f = [q \in V |-> q[2]]
  OBVIOUS
<1>12. \A q \in V : f[q] \in K /\ q = <<1, f[q]>>
  BY <1>7, <1>10, <1>11 DEF KeysOf
<1>13. f \in [V -> K]
  BY <1>11, <1>12
<1>14. \A p, q \in V : f[p] = f[q] => p = q
  BY <1>12
<1>15. \A k \in K : \E q \in V : f[q] = k
  <2> TAKE k \in K
  <2>1. PICK x \in X : k = x.key
    BY <1>7 DEF KeysOf
  <2>2. PICK q : q = <<1, k>>
    OBVIOUS
  <2>3. q \in V /\ q[2] = k
    BY <1>10, <2>1, <2>2
  <2>. QED BY <1>11, <2>3
<1>16. Cardinality(K) = Cardinality(V)
  BY <1>8, <1>9, <1>13, <1>14, <1>15, SameNumber
<1>. QED BY <1>1, <1>6, <1>9, <1>16

\* ns has the numbers of these.
NamespaceOf(ns, first, d, files, kind) ==
  LET all == Aggregate(<<Tracked(first, d, kind)>>, kind)
  IN /\ ns.total = Cardinality(Tracked(first, d, kind))
     /\ ns.missing = Cardinality(Keyless(first, d, kind))
     /\ ns.distinct = Cardinality(Keys(first, d, kind))
     /\ ns.unique = (Cardinality(Keyless(first, d, kind)) = 0 /\ all.values = 0)
     /\ ns.occurrences = all.occurrences
     /\ ns.within_file = Aggregate(FileScopes(first, d, files), kind)
     /\ ns.within_entry = Aggregate(EntryScopes(first, d), kind)

LEMMA NamespaceIs ==
  ASSUME NEW first, NEW d, NEW files, NEW kind
  PROVE  NamespaceOf(Namespace(first, d, files, kind), first, d, files, kind)
<1>1. PICK ns, all : /\ ns = Namespace(first, d, files, kind)
                     /\ all = Aggregate(<<Tracked(first, d, kind)>>, kind)
  OBVIOUS
<1>2. PICK b, c : /\ b = Aggregate(FileScopes(first, d, files), kind)
                  /\ c = Aggregate(EntryScopes(first, d), kind)
  OBVIOUS
<1>3. PICK total, missing, distinct : /\ total = Cardinality(Tracked(first, d, kind))
                                      /\ missing = Cardinality(Keyless(first, d, kind))
                                      /\ distinct = Cardinality(Keys(first, d, kind))
  OBVIOUS
<1>4. ns = [total |-> total, missing |-> missing, distinct |-> distinct,
            unique |-> missing = 0 /\ all.values = 0,
            values |-> all.values, occurrences |-> all.occurrences,
            within_file |-> b, within_entry |-> c]
  BY <1>1, <1>2, <1>3, Zenon DEF Namespace, Tracked, Keyless, Keys
<1>5. /\ ns.total = total /\ ns.missing = missing /\ ns.distinct = distinct
      /\ ns.unique = (missing = 0 /\ all.values = 0) /\ ns.occurrences = all.occurrences
      /\ ns.within_file = b /\ ns.within_entry = c
  BY <1>4
<1>. QED BY <1>1, <1>2, <1>3, <1>5, Zenon DEF NamespaceOf

\* Files of a reading that have all entities of a dictionary.
FilesOf(first, d, files) ==
  IsFiniteSet(files) /\ \A x \in first.tracked : x.dictionary = d => x.locator.file \in files

LEMMA NamespaceAdds ==
  ASSUME NEW first, Held(first), NEW d, NEW kind, NEW files, FilesOf(first, d, files)
  PROVE  LET ns == Namespace(first, d, files, kind)
         IN /\ ns.total = ns.missing + ns.distinct + ns.occurrences
            /\ ns.within_entry.occurrences <= ns.within_file.occurrences
            /\ ns.within_file.occurrences <= ns.occurrences
<1>1. PICK T, X, M, K : /\ T = Tracked(first, d, kind) /\ X = WithKey(first, d, kind)
                        /\ M = Keyless(first, d, kind) /\ K = Keys(first, d, kind)
  OBVIOUS
<1>2. PICK whole, byFile, byEntry :
        whole = <<T>> /\ byFile = FileScopes(first, d, files) /\ byEntry = EntryScopes(first, d)
  OBVIOUS
<1>3. IsFiniteSet(T) /\ IsFiniteSet(X) /\ HaveKeys(X, first, d, kind)
  <2>1. /\ IsFiniteSet(Tracked(first, d, kind)) /\ IsFiniteSet(WithKey(first, d, kind))
        /\ HaveKeys(WithKey(first, d, kind), first, d, kind)
    BY WithKeyIs, Zenon
  <2>. QED BY <1>1, <2>1, Zenon
<1>4. Splits(whole, X, kind) /\ Splits(byFile, X, kind) /\ Splits(byEntry, X, kind)
  <2>1. Splits(<<Tracked(first, d, kind)>>, WithKey(first, d, kind), kind)
    BY WholeSplits
  <2>2. Splits(FileScopes(first, d, files), WithKey(first, d, kind), kind)
    BY FilesSplit DEF FilesOf
  <2>3. Splits(EntryScopes(first, d), WithKey(first, d, kind), kind)
    BY EntriesSplit
  <2>. QED BY <1>1, <1>2, <2>1, <2>2, <2>3, Zenon
<1>5. PICK N : Occurs(whole, kind, N)
  BY DEF Occurs
<1>6. Cardinality(K) = Cardinality(Pairs(N))
  <2>1. Occurs(<<Tracked(first, d, kind)>>, kind, N)
    BY <1>1, <1>2, <1>5, Zenon
  <2>2. Cardinality(Keys(first, d, kind)) = Cardinality(Pairs(N))
    BY <2>1, WholePairs
  <2>. QED BY <1>1, <2>2, Zenon
<1>7. /\ Aggregate(whole, kind).occurrences = Cardinality(X) - Cardinality(K)
      /\ Cardinality(K) \in Nat
  <2>1. Counts(Aggregate(whole, kind), whole, X, N)
    BY <1>3, <1>4, <1>5, SplitCounts, Zenon
  <2>. QED BY <1>6, <2>1 DEF Counts
<1>8. Cardinality(T) = Cardinality(M) + Cardinality(X) /\ Cardinality(M) \in Nat /\ Cardinality(X) \in Nat
  <2>1. PartsOf(T, M, X)
    BY <1>1, NamespaceKeys, Zenon
  <2>2. M \cap X = {} /\ M \cup X = T
    BY <2>1 DEF PartsOf
  <2>3. IsFiniteSet(M)
    BY <1>3, <2>2, FS_Subset
  <2>4. /\ Cardinality(M \cup X) = Cardinality(M) + Cardinality(X)
        /\ Cardinality(M) \in Nat /\ Cardinality(X) \in Nat
    BY <1>3, <2>2, <2>3, Apart, Zenon
  <2>. QED BY <2>2, <2>4
<1>9. /\ DOMAIN byFile = files
      /\ \A n \in files : byFile[n] = {x \in first.tracked : x.dictionary = d /\ x.locator.file = n}
  BY <1>2 DEF FileScopes
<1>10. PICK own : own = {n \in DOMAIN first.entries : first.entries[n].dictionary = d}
  OBVIOUS
<1>11. DOMAIN byEntry = own /\ \A n \in own : byEntry[n] = EntitiesOf(first.entries[n])
  BY <1>2, <1>10 DEF EntryScopes
<1>12. \A x \in X : x \in first.tracked /\ x.dictionary = d
  BY <1>3, Zenon DEF HaveKeys
<1>13. Aggregate(byEntry, kind).occurrences <= Aggregate(byFile, kind).occurrences
  <2>1. PICK h : h = [n \in own |-> first.entries[n].locator.file]
    OBVIOUS
  <2>2. ASSUME NEW n \in DOMAIN byEntry, NEW x \in X, x \in byEntry[n]
        PROVE  h[n] \in DOMAIN byFile /\ x \in byFile[h[n]]
    <3>1. n \in DOMAIN first.entries /\ x \in EntitiesOf(first.entries[n])
      BY <1>10, <1>11, <2>2
    <3>2. x.locator.file = h[n]
      BY <1>11, <2>1, <3>1, EntityPlace
    <3>3. h[n] \in files
      BY <1>12, <3>2 DEF FilesOf
    <3>. QED BY <1>9, <1>12, <3>2, <3>3
  <2>. QED BY <1>3, <1>4, <2>2, SplitCoarser
<1>14. Aggregate(byFile, kind).occurrences <= Aggregate(whole, kind).occurrences
  <2>1. PICK h : h = [n \in files |-> 1]
    OBVIOUS
  <2>2. DOMAIN whole = {1} /\ whole[1] = T
    BY <1>2
  <2>3. X \subseteq T
    BY <1>1 DEF WithKey
  <2>4. ASSUME NEW n \in DOMAIN byFile, NEW x \in X, x \in byFile[n]
        PROVE  h[n] \in DOMAIN whole /\ x \in whole[h[n]]
    BY <1>9, <2>1, <2>2, <2>3
  <2>. QED BY <1>3, <1>4, <2>4, SplitCoarser
<1>15. PICK ns : ns = Namespace(first, d, files, kind)
  OBVIOUS
<1>16. /\ ns.total = Cardinality(T) /\ ns.missing = Cardinality(M) /\ ns.distinct = Cardinality(K)
       /\ ns.occurrences = Aggregate(whole, kind).occurrences
       /\ ns.within_file = Aggregate(byFile, kind) /\ ns.within_entry = Aggregate(byEntry, kind)
  <2>1. NamespaceOf(ns, first, d, files, kind)
    BY <1>15, NamespaceIs, Zenon
  <2>. QED BY <1>1, <1>2, <2>1, Zenon DEF NamespaceOf
<1>17. ns.total = ns.missing + ns.distinct + ns.occurrences
  BY <1>7, <1>8, <1>16
<1>. QED BY <1>13, <1>14, <1>15, <1>16, <1>17

(***************************************************************************)
(* Entries, each of which has one entity of its own.                       *)
(***************************************************************************)

\* An entry of the list whose canonical id is its key's alone.
ByKeyAlone(first, e) == EntryId(first, e)[1].at = <<>>

LEMMA ByKeyAloneIs ==
  ASSUME NEW first, Held(first), NEW e \in Members(first.entries)
  PROVE  ByKeyAlone(first, e) <=>
           /\ OwnEntity(e).key # ""
           /\ \A y \in first.tracked :
                /\ y.dictionary = OwnEntity(e).dictionary /\ y.kind = OwnEntity(e).kind
                /\ y.key = OwnEntity(e).key
                => y = OwnEntity(e)
<1>1. PICK T, x : T = first.tracked /\ x = OwnEntity(e)
  OBVIOUS
<1>2. CorpusEntry(e)
  BY DEF Held, CorpusOk
<1>3. IsFiniteSet(T) /\ x \in T
  <2>1. x \in EntitiesOf(e)
    BY <1>1, <1>2, OwnEntityIs
  <2>. QED BY <1>1, <2>1, TrackedFinite DEF Held
<1>4. PICK n : n = Count(T, x)
  OBVIOUS
<1>5. PICK id : id = EntryId(first, e)
  OBVIOUS
<1>6. id = <<Segment(x, n)>>
  BY <1>1, <1>4, <1>5, Zenon DEF EntryId
<1>7. id[1].at = Disambiguator(n, x.locator)
  <2>1. id[1] = Segment(x, n)
    BY <1>6
  <2>2. SegmentOf(id[1], x, n)
    BY <2>1, SegmentIs
  <2>. QED BY <2>2, Zenon DEF SegmentOf
<1>8. Disambiguator(n, x.locator) = <<>> <=> n = 1
  <2>1. <<x.locator>> # <<>>
    OBVIOUS
  <2>. QED BY <2>1, Zenon DEF Disambiguator
<1>9. n = 1 <=> /\ x.key # ""
                /\ \A y \in T : y.dictionary = x.dictionary /\ y.kind = x.kind /\ y.key = x.key => y = x
  BY <1>3, <1>4, CountedTwice, Zenon
<1>. QED BY <1>1, <1>5, <1>7, <1>8, <1>9, Zenon DEF ByKeyAlone

\* Entities of the kind of entries are the entries' own.
LEMMA EntriesOwn ==
  ASSUME NEW first, Held(first), NEW d
  PROVE  /\ \A n \in DOMAIN first.entries : first.entries[n].dictionary = d =>
              OwnEntity(first.entries[n]) \in Tracked(first, d, "entry")
         /\ \A x \in Tracked(first, d, "entry") : \E n \in DOMAIN first.entries :
              first.entries[n].dictionary = d /\ x = OwnEntity(first.entries[n])
<1>1. PICK entries : entries = first.entries
  OBVIOUS
<1>2. \A n \in DOMAIN entries : entries[n] \in Members(entries) /\ CorpusEntry(entries[n])
  BY <1>1 DEF Held, CorpusOk, Members
<1>3. ASSUME NEW n \in DOMAIN entries, entries[n].dictionary = d
      PROVE  OwnEntity(entries[n]) \in Tracked(first, d, "entry")
  <2>1. PICK e : e = entries[n]
    OBVIOUS
  <2>2. e \in Members(entries) /\ CorpusEntry(e) /\ e.dictionary = d
    BY <1>2, <1>3, <2>1
  <2>3. OwnEntity(e) \in EntitiesOf(e) /\ OwnEntity(e).kind = "entry" /\ OwnEntity(e).dictionary = d
    BY <2>2, OwnEntityIs
  <2>4. OwnEntity(e) \in first.tracked
    BY <1>1, <2>2, <2>3 DEF Held
  <2>. QED BY <2>1, <2>3, <2>4 DEF Tracked
<1>4. ASSUME NEW x \in Tracked(first, d, "entry")
      PROVE  \E n \in DOMAIN entries : entries[n].dictionary = d /\ x = OwnEntity(entries[n])
  <2>1. x \in first.tracked /\ x.dictionary = d /\ x.kind = "entry"
    BY DEF Tracked
  <2>2. PICK e \in Members(entries) : x \in EntitiesOf(e)
    BY <1>1, <2>1 DEF Held
  <2>3. PICK n \in DOMAIN entries : e = entries[n]
    BY DEF Members
  <2>4. x = OwnEntity(e) /\ e.dictionary = d
    BY <1>2, <2>1, <2>2, <2>3, OwnEntityIs
  <2>. QED BY <2>3, <2>4
<1>. QED BY <1>1, <1>3, <1>4

\* There are as many as scopes that entries make.
LEMMA EntriesNumber ==
  ASSUME NEW first, Held(first), NEW d
  PROVE  Aggregate(EntryScopes(first, d), "entry").scopes = Cardinality(Tracked(first, d, "entry"))
<1>1. PICK T, s, entries : /\ T = Tracked(first, d, "entry") /\ s = EntryScopes(first, d)
                           /\ entries = first.entries
  OBVIOUS
<1>2. PICK own : own = {n \in DOMAIN entries : entries[n].dictionary = d}
  OBVIOUS
<1>3. DOMAIN s = own
  BY <1>1, <1>2 DEF EntryScopes
<1>4. Splits(s, WithKey(first, d, "entry"), "entry")
  BY <1>1, EntriesSplit
<1>5. Aggregate(s, "entry").scopes = Cardinality(own) /\ IsFiniteSet(own)
  <2>1. PICK N : Occurs(s, "entry", N)
    BY DEF Occurs
  <2>2. IsFiniteSet(WithKey(first, d, "entry"))
    BY WithKeyIs, Zenon
  <2>3. Counts(Aggregate(s, "entry"), s, WithKey(first, d, "entry"), N)
    BY <1>4, <2>1, <2>2, SplitCounts, Zenon
  <2>4. IsFiniteSet(DOMAIN s)
    BY <1>4 DEF Splits, ScopesOk
  <2>. QED BY <1>3, <2>3, <2>4, Zenon DEF Counts
<1>6. PICK f : f = [n \in own |-> OwnEntity(entries[n])]
  OBVIOUS
<1>7. f \in [own -> T]
  BY <1>1, <1>2, <1>6, EntriesOwn
<1>8. \A x \in T : \E n \in own : f[n] = x
  BY <1>1, <1>2, <1>6, EntriesOwn
<1>9. ASSUME NEW n \in own, NEW m \in own, f[n] = f[m] PROVE n = m
  <2>1. \A k \in own : k \in DOMAIN entries /\ f[k] \in EntitiesOf(entries[k])
    <3>1. \A k \in own : k \in DOMAIN entries /\ CorpusEntry(entries[k])
      BY <1>1, <1>2 DEF Held, CorpusOk, Members
    <3>. QED BY <1>6, <3>1, OwnEntityIs
  <2>2. f[n] \in EntitiesOf(entries[n]) /\ f[n] \in EntitiesOf(entries[m])
    BY <1>9, <2>1
  <2>. QED BY <1>1, <2>1, <2>2, EntityPlace
<1>10. Cardinality(T) = Cardinality(own)
  BY <1>5, <1>7, <1>8, <1>9, SameNumber
<1>. QED BY <1>1, <1>5, <1>10

LEMMA NamespaceUnique ==
  ASSUME NEW first, Held(first), NEW d, NEW files
  PROVE  Namespace(first, d, files, "entry").unique <=>
           \A n \in DOMAIN first.entries :
             first.entries[n].dictionary = d => ByKeyAlone(first, first.entries[n])
<1>1. PICK kind : kind = "entry"
  OBVIOUS
<1>2. PICK T, X, M, entries : /\ T = Tracked(first, d, kind) /\ X = WithKey(first, d, kind)
                              /\ M = Keyless(first, d, kind) /\ entries = first.entries
  OBVIOUS
<1>3. PICK N : Occurs(<<T>>, kind, N)
  BY DEF Occurs
<1>4. IsFiniteSet(T) /\ IsFiniteSet(X) /\ HaveKeys(X, first, d, kind)
  <2>1. /\ IsFiniteSet(Tracked(first, d, kind)) /\ IsFiniteSet(WithKey(first, d, kind))
        /\ HaveKeys(WithKey(first, d, kind), first, d, kind)
    BY WithKeyIs, Zenon
  <2>. QED BY <1>2, <2>1, Zenon
<1>5. \A p : p \in N <=> \E x \in X : p = <<1, x>>
  <2>1. Occurs(<<Tracked(first, d, kind)>>, kind, N)
    BY <1>2, <1>3, Zenon
  <2>2. \A p : p \in N <=> \E x \in WithKey(first, d, kind) : p = <<1, x>>
    BY <2>1, WholePairs
  <2>. QED BY <1>2, <2>2, Zenon
<1>6. PICK all : all = Aggregate(<<T>>, kind)
  OBVIOUS
<1>7. all.values = 0 <=> \A p, q \in N : p[1] = q[1] /\ p[2].key = q[2].key => p = q
  <2>1. Splits(<<Tracked(first, d, kind)>>, WithKey(first, d, kind), kind)
    BY WholeSplits
  <2>2. Splits(<<T>>, X, kind)
    BY <1>2, <2>1, Zenon
  <2>3. Counts(all, <<T>>, X, N)
    BY <1>3, <1>4, <1>6, <2>2, SplitCounts, Zenon
  <2>. QED BY <2>3, Zenon DEF Counts
<1>8. all.values = 0 <=> \A x, y \in X : x.key = y.key => x = y
  <2>1. ASSUME \A p, q \in N : p[1] = q[1] /\ p[2].key = q[2].key => p = q,
               NEW x \in X, NEW y \in X, x.key = y.key
        PROVE  x = y
    <3>1. <<1, x>> \in N /\ <<1, y>> \in N
      BY <1>5
    <3>2. PICK p \in N, q \in N : p = <<1, x>> /\ q = <<1, y>>
      BY <3>1
    <3>. QED BY <2>1, <3>2
  <2>2. ASSUME \A x, y \in X : x.key = y.key => x = y,
               NEW p \in N, NEW q \in N, p[2].key = q[2].key
        PROVE  p = q
    <3>1. PICK x \in X, y \in X : p = <<1, x>> /\ q = <<1, y>>
      BY <1>5
    <3>. QED BY <2>2, <3>1
  <2>. QED BY <1>7, <2>1, <2>2, Zenon
<1>9. Cardinality(M) = 0 <=> M = {}
  <2>1. PartsOf(T, M, X)
    BY <1>2, NamespaceKeys, Zenon
  <2>2. IsFiniteSet(M)
    BY <1>4, <2>1, FS_Subset DEF PartsOf
  <2>. QED BY <2>2, FS_EmptySet
<1>10. M = {} <=> \A x \in T : x.key # ""
  <2>1. M = {x \in T : x.key = ""}
    BY <1>2, Zenon DEF Keyless
  <2>2. \A none : {x \in T : x.key = none} = {} <=> \A x \in T : x.key # none
    OBVIOUS
  <2>. QED BY <2>1, <2>2, Zenon
<1>11. PICK ns : ns = Namespace(first, d, files, kind)
  OBVIOUS
<1>12. ns.unique <=> (\A x \in T : x.key # "") /\ (\A x, y \in X : x.key = y.key => x = y)
  <2>1. NamespaceOf(ns, first, d, files, kind)
    BY <1>11, NamespaceIs, Zenon
  <2>2. ns.unique = (Cardinality(M) = 0 /\ all.values = 0)
    BY <1>2, <1>6, <2>1, Zenon DEF NamespaceOf
  <2>. QED BY <1>8, <1>9, <1>10, <2>2, Zenon
<1>13. /\ \A n \in DOMAIN entries : entries[n].dictionary = d => OwnEntity(entries[n]) \in T
       /\ \A x \in T : \E n \in DOMAIN entries : entries[n].dictionary = d /\ x = OwnEntity(entries[n])
  BY <1>1, <1>2, EntriesOwn
<1>14. \A x : x \in T <=> x \in first.tracked /\ x.dictionary = d /\ x.kind = kind
  BY <1>2 DEF Tracked
<1>15. \A x : x \in X <=> x \in T /\ x.key # ""
  BY <1>2, Zenon DEF WithKey
<1>16. ASSUME NEW n \in DOMAIN entries, entries[n].dictionary = d
       PROVE  ByKeyAlone(first, entries[n]) <=>
                /\ OwnEntity(entries[n]).key # ""
                /\ \A y \in T : y.key = OwnEntity(entries[n]).key => y = OwnEntity(entries[n])
  <2>1. PICK e, x : e = entries[n] /\ x = OwnEntity(e)
    OBVIOUS
  <2>2. e \in Members(first.entries)
    BY <1>2, <2>1 DEF Members
  <2>3. ByKeyAlone(first, e) <=>
          /\ x.key # ""
          /\ \A y \in first.tracked : y.dictionary = x.dictionary /\ y.kind = x.kind /\ y.key = x.key => y = x
    BY <2>1, <2>2, ByKeyAloneIs, Zenon
  <2>4. x.dictionary = d /\ x.kind = kind
    BY <1>13, <1>14, <1>16, <2>1
  <2>. QED BY <1>14, <2>1, <2>3, <2>4, Zenon
<1>17. ns.unique <=> \A n \in DOMAIN entries : entries[n].dictionary = d => ByKeyAlone(first, entries[n])
  <2>1. ASSUME ns.unique, NEW n \in DOMAIN entries, entries[n].dictionary = d
        PROVE  ByKeyAlone(first, entries[n])
    BY <1>12, <1>13, <1>15, <1>16, <2>1, Zenon
  <2>2. ASSUME \A n \in DOMAIN entries : entries[n].dictionary = d => ByKeyAlone(first, entries[n])
        PROVE  ns.unique
    <3>1. ASSUME NEW x \in T PROVE x.key # "" /\ \A y \in T : y.key = x.key => y = x
      <4>1. PICK n \in DOMAIN entries : entries[n].dictionary = d /\ x = OwnEntity(entries[n])
        BY <1>13
      <4>2. ByKeyAlone(first, entries[n])
        BY <2>2, <4>1
      <4>. QED BY <1>16, <4>1, <4>2, Zenon
    <3>. QED BY <1>12, <1>15, <3>1, Zenon
  <2>. QED BY <2>1, <2>2, Zenon
<1>. QED BY <1>1, <1>2, <1>11, <1>17, Zenon

(***************************************************************************)
(* The statuses of all relations.                                          *)
(***************************************************************************)

LEMMA StatusOne ==
  ASSUME NEW first, NEW candidates, NEW r
  PROVE  Resolve(first, candidates, r).status \in Statuses
<1>1. PICK source, keyed, found : Resolve(first, candidates, r) = Judged(first, r, source, keyed, found)
  BY Zenon DEF Resolve, Matched
<1>2. PICK status : status = Status(r, found, source)
  OBVIOUS
<1>3. Judged(first, r, source, keyed, found).status = status
  BY <1>2 DEF Judged, Resolution
<1> DEFINE self == IF \E c \in found.eligible : c.entry_id = source THEN "self_reference" ELSE "resolved"
           among == CASE found.eligible = {} -> "unresolved"
                      [] Cardinality(found.eligible) > 1 -> "ambiguous"
                      [] OTHER -> self
           wrong == FieldConflict(r.entry.dictionary, r.fields) \/ UrlConflict(r.entry.dictionary, r.fields)
                    \/ found.conflict
<1>4. status = CASE wrong -> "ambiguous" [] OTHER -> among
  BY <1>2, Zenon DEF Status
<1>5. self \in Statuses
  BY DEF Statuses
<1>6. among \in Statuses \/ among = "unresolved" \/ among = "ambiguous"
  <2> HIDE DEF self
  <2>0. Cardinality({}) = 0
    BY FS_EmptySet
  <2>1. CASE found.eligible = {}
    <3>1. ~(Cardinality(found.eligible) > 1)
      BY <2>0, <2>1
    <3>. QED BY <2>1, <3>1
  <2>2. CASE found.eligible # {}
    BY <1>5, <2>2
  <2>. QED BY <2>1, <2>2
<1> HIDE DEF among, wrong
<1>7. status \in Statuses
  BY <1>4, <1>6 DEF Statuses
<1>. QED BY <1>1, <1>3, <1>7

\* The number of relations of a status.
NumberWith(list, s) == Cardinality({n \in DOMAIN list : list[n].status = s})

LEMMA StatusesAdd ==
  ASSUME NEW list, NEW l \in Nat, DOMAIN list = 1..l, \A n \in 1..l : list[n].status \in Statuses
  PROVE  NumberWith(list, "resolved") + NumberWith(list, "self_reference")
           + NumberWith(list, "unresolved") + NumberWith(list, "ambiguous") = l
<1>1. PICK A, B, C, D : /\ A = {n \in DOMAIN list : list[n].status = "resolved"}
                        /\ B = {n \in DOMAIN list : list[n].status = "self_reference"}
                        /\ C = {n \in DOMAIN list : list[n].status = "unresolved"}
                        /\ D = {n \in DOMAIN list : list[n].status = "ambiguous"}
  OBVIOUS
<1>2. IsFiniteSet(1..l) /\ Cardinality(1..l) = l
  <2>1. 1 - 1 <= l /\ l - 1 + 1 = l
    OBVIOUS
  <2>. QED BY <2>1, FS_Interval
<1>3. A \subseteq 1..l /\ B \subseteq 1..l /\ C \subseteq 1..l /\ D \subseteq 1..l
  BY <1>1
<1>4. IsFiniteSet(A) /\ IsFiniteSet(B) /\ IsFiniteSet(C) /\ IsFiniteSet(D)
  BY <1>2, <1>3, FS_Subset
<1>5. A \cap B = {} /\ (A \cup B) \cap C = {} /\ ((A \cup B) \cup C) \cap D = {}
  BY <1>1
<1>6. ((A \cup B) \cup C) \cup D = 1..l
  BY <1>1 DEF Statuses
<1>7. IsFiniteSet(A \cup B) /\ Cardinality(A \cup B) = Cardinality(A) + Cardinality(B)
      /\ Cardinality(A) \in Nat /\ Cardinality(B) \in Nat
  BY <1>4, <1>5, Apart, Zenon
<1>8. IsFiniteSet((A \cup B) \cup C)
      /\ Cardinality((A \cup B) \cup C) = Cardinality(A \cup B) + Cardinality(C)
      /\ Cardinality(C) \in Nat
  BY <1>4, <1>5, <1>7, Apart, Zenon
<1>9. Cardinality(((A \cup B) \cup C) \cup D) = Cardinality((A \cup B) \cup C) + Cardinality(D)
      /\ Cardinality(D) \in Nat
  BY <1>4, <1>5, <1>8, Apart, Zenon
<1>10. Cardinality(A) + Cardinality(B) + Cardinality(C) + Cardinality(D) = l
  BY <1>2, <1>6, <1>7, <1>8, <1>9
<1>. QED BY <1>1, <1>10 DEF NumberWith

(***************************************************************************)
(* The numbers of every report.                                            *)
(***************************************************************************)

\* The files of a dictionary that were read.
FilesRead(read, d) == {n \in DOMAIN read : Corpora[read[n]][n].dictionary = d}

LEMMA FilesReadOf ==
  ASSUME NEW c \in DOMAIN Later, NEW read \in Readings(c), NEW d
  PROVE  FilesOf(FirstPass(read), d, FilesRead(read, d))
<1>1. PICK first, entries : first = FirstPass(read) /\ entries = Entries(read)
  OBVIOUS
<1>2. Held(first) /\ first.entries = entries /\ Filed(read, entries)
  BY <1>1, FirstPassOk, EntriesAreOk
<1>3. IsFiniteSet(FilesRead(read, d))
  <2>1. PICK m \in Nat : DOMAIN read = 1..m
    BY ReadingOk
  <2>2. FilesRead(read, d) \subseteq 1..m
    BY <2>1 DEF FilesRead
  <2>3. IsFiniteSet(1..m)
    BY FS_Interval
  <2>. QED BY <2>2, <2>3, FS_Subset
<1>4. ASSUME NEW x \in first.tracked, x.dictionary = d PROVE x.locator.file \in FilesRead(read, d)
  <2>1. PICK e \in Members(entries) : x \in EntitiesOf(e)
    BY <1>2 DEF Held
  <2>2. PICK n \in DOMAIN entries : e = entries[n]
    BY DEF Members
  <2>3. x.locator.file = e.locator.file /\ e.dictionary = d
    BY <1>2, <1>4, <2>1, <2>2, EntityPlace
  <2>. QED BY <1>2, <2>3 DEF Filed, FilesRead
<1>. QED BY <1>1, <1>3, <1>4 DEF FilesOf

\* What Numbers says of a namespace.
NamespaceRight(first, ns, d, kind) ==
  /\ ns.total = ns.missing + ns.distinct + ns.occurrences
  /\ ns.within_entry.occurrences <= ns.within_file.occurrences
  /\ ns.within_file.occurrences <= ns.occurrences
  /\ kind = "entry" =>
       /\ ns.within_entry.scopes = ns.total
       /\ ns.unique <=> \A n \in DOMAIN first.entries :
                          first.entries[n].dictionary = d => ByKeyAlone(first, first.entries[n])

LEMMA NamespaceAgrees ==
  ASSUME NEW first, Held(first), NEW d, NEW kind, NEW files, FilesOf(first, d, files)
  PROVE  NamespaceRight(first, Namespace(first, d, files, kind), d, kind)
<1>1. PICK ns : ns = Namespace(first, d, files, kind)
  OBVIOUS
<1>2. /\ ns.total = ns.missing + ns.distinct + ns.occurrences
      /\ ns.within_entry.occurrences <= ns.within_file.occurrences
      /\ ns.within_file.occurrences <= ns.occurrences
  BY <1>1, NamespaceAdds
<1>3. ASSUME kind = "entry"
      PROVE  /\ ns.within_entry.scopes = ns.total
             /\ ns.unique <=> \A n \in DOMAIN first.entries :
                                first.entries[n].dictionary = d => ByKeyAlone(first, first.entries[n])
  <2>1. NamespaceOf(ns, first, d, files, kind)
    BY <1>1, NamespaceIs, Zenon
  <2>2. ns.total = Cardinality(Tracked(first, d, kind))
        /\ ns.within_entry = Aggregate(EntryScopes(first, d), kind)
    BY <2>1, Zenon DEF NamespaceOf
  <2>3. ns.within_entry.scopes = ns.total
    BY <1>3, <2>2, EntriesNumber
  <2>. QED BY <1>1, <1>3, <2>3, NamespaceUnique
<1>. QED BY <1>1, <1>2, <1>3 DEF NamespaceRight

\* The numbers of a report of what was read.
LEMMA SummaryIs ==
  ASSUME NEW read, NEW first, NEW list, NEW cycles
  PROVE  /\ Summary(read, first, list, cycles).status_counts = [s \in Statuses |-> NumberWith(list, s)]
         /\ \A d \in DOMAIN Summary(read, first, list, cycles).namespaces : \A kind \in Kinds :
              Summary(read, first, list, cycles).namespaces[d][kind]
                = Namespace(first, d, FilesRead(read, d), kind)
<1>1. PICK report : report = Summary(read, first, list, cycles)
  OBVIOUS
<1> DEFINE Of1(n) == Corpora[read[n]][n].dictionary
           Of2(d) == Table([kind \in Kinds |-> Namespace(first, d, FilesRead(read, d), kind)])
           counts == [s \in Statuses |-> NumberWith(list, s)]
           spaces == [d \in {Of1(n) : n \in DOMAIN read} |-> Of2(d)]
<1>2. report = [relations |-> list, in_cycle |-> cycles.inCycle, groups |-> cycles.groups,
                status_counts |-> Table(counts), namespaces |-> Table(spaces)]
  BY <1>1, Zenon DEF Summary, FilesRead, NumberWith
<1>3. \A d : \A kind \in Kinds : Of2(d)[kind] = Namespace(first, d, FilesRead(read, d), kind)
  <2> TAKE d
  <2>1. PICK table : table = [kind \in Kinds |-> Namespace(first, d, FilesRead(read, d), kind)]
    OBVIOUS
  <2>2. Of2(d) = table
    BY <2>1, TableIs, Zenon
  <2> HIDE DEF Of2
  <2>. QED BY <2>1, <2>2
<1> HIDE DEF Of2, Of1, counts
<1>4. \A d \in DOMAIN spaces : spaces[d] = Of2(d)
  OBVIOUS
<1> HIDE DEF spaces
<1>5. report.status_counts = Table(counts) /\ report.namespaces = Table(spaces)
  BY <1>2
<1>6. report.status_counts = counts /\ report.namespaces = spaces
  BY <1>5, TableIs, Zenon
<1>7. counts = [s \in Statuses |-> NumberWith(list, s)]
  BY DEF counts
<1>. QED BY <1>1, <1>3, <1>4, <1>6, <1>7, Zenon

LEMMA ReportAdds ==
  ASSUME NEW input \in Inputs PROVE NumbersAgree[input]
<1>1. PICK c \in DOMAIN Later : input \in Readings(c) \X Readings(c)
  BY DEF Inputs
<1>2. PICK read, again : input = <<read, again>> /\ read \in Readings(c) /\ input[1] = read
  BY <1>1
<1>3. PICK first, candidates : first = FirstPass(read) /\ candidates = SecondPass(first, again)
  OBVIOUS
<1>4. Held(first)
  BY <1>2, <1>3, FirstPassOk
<1>5. PICK list : list = [n \in DOMAIN first.relations |-> Resolve(first, candidates, first.relations[n])]
  OBVIOUS
<1>6. Resolutions[input] = list /\ FirstPasses[read] = first
  BY <1>2, <1>3, <1>5, ResolutionsAre
<1>7. PICK l : l = Len(first.relations)
  OBVIOUS
<1>8. l \in Nat /\ DOMAIN list = 1..l /\ \A n \in 1..l : list[n].status \in Statuses
  <2>1. PICK relations : relations = first.relations
    OBVIOUS
  <2>2. l \in Nat /\ DOMAIN relations = 1..l
    BY <1>4, <1>7, <2>1, SeqIs DEF Held
  <2>3. DOMAIN list = 1..l /\ \A n \in 1..l : list[n] = Resolve(first, candidates, relations[n])
    BY <1>5, <2>1, <2>2
  <2>. QED BY <2>2, <2>3, StatusOne
<1>9. PICK report : report = Reports[input]
  OBVIOUS
<1>10. report = Summary(read, first, list, MarkCycles(list))
  <2>1. report = Report(input[1], FirstPasses[input[1]], Resolutions[input])
    BY <1>9, TableIs DEF Reports
  <2>. QED BY <1>2, <1>6, <2>1 DEF Report
<1>11. /\ report.status_counts = [s \in Statuses |-> NumberWith(list, s)]
       /\ \A d \in DOMAIN report.namespaces : \A kind \in Kinds :
            report.namespaces[d][kind] = Namespace(first, d, FilesRead(read, d), kind)
  BY <1>10, SummaryIs
<1>12. PICK counts : counts = report.status_counts
  OBVIOUS
<1>13. counts.resolved + counts.self_reference + counts.unresolved + counts.ambiguous = l
  <2>1. /\ counts.resolved = NumberWith(list, "resolved")
        /\ counts.self_reference = NumberWith(list, "self_reference")
        /\ counts.unresolved = NumberWith(list, "unresolved")
        /\ counts.ambiguous = NumberWith(list, "ambiguous")
    BY <1>11, <1>12 DEF Statuses
  <2>. QED BY <1>8, <2>1, StatusesAdd
<1>14. \A d : FilesOf(first, d, FilesRead(read, d))
  BY <1>2, <1>3, FilesReadOf
<1>15. \A d \in DOMAIN report.namespaces : \A kind \in Kinds :
         NamespaceRight(first, report.namespaces[d][kind], d, kind)
  BY <1>4, <1>11, <1>14, NamespaceAgrees
<1>16. Numbers(first, report)
  BY <1>7, <1>12, <1>13, <1>15, Zenon DEF Numbers, NamespaceRight, ByKeyAlone
<1>17. NumbersAgree[input] = Numbers(FirstPasses[input[1]], Reports[input])
  BY TableIs DEF NumbersAgree
<1>. QED BY <1>2, <1>6, <1>9, <1>16, <1>17

LEMMA IInvCounts == IInv => CountsAgree
BY PreparedInput, ReportAdds DEF CountsAgree

\* In every report an audit is about to commit the counts agree: entities with the keys,
\* the repetitions in an entry with those in a file and in the corpus, a namespace that is
\* called unique with the ids that were built from it, the statuses with the relations:
\* whatever the files were when each pass came to them.
THEOREM AuditCountsAgree == Spec => []CountsAgree
BY AlwaysIInv, IInvCounts, PTL
=============================================================================
