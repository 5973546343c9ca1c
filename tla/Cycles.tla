------------------------------- MODULE Cycles -------------------------------
(***************************************************************************)
(* mark_cycles in src/web_source_audit.rs: Kosaraju's algorithm over the   *)
(* entries that resolved relations lead from and to. A relation is         *)
(* [resolved, source, target], the ends being ids of entries.              *)
(***************************************************************************)
EXTENDS Integers, Sequences, FiniteSets

Resolved(list) == {i \in DOMAIN list : list[i].resolved}

\* The nodes. The code sorts them by name; here they stand in some fixed order.
Names(list) ==
  {list[i].source : i \in Resolved(list)} \cup {list[i].target : i \in Resolved(list)}
Indexed(names) ==
  CHOOSE f \in [1..Cardinality(names) -> names] :
    \A i, j \in 1..Cardinality(names) : f[i] = f[j] => i = j

\* adjacency and reverse: for each index the indexes its edges lead to.
Adjacency(list, names) ==
  [n \in DOMAIN names |->
     {m \in DOMAIN names : \E i \in Resolved(list) :
        list[i].source = names[n] /\ list[i].target = names[m]}]
Transposed(adjacency) ==
  [n \in DOMAIN adjacency |-> {m \in DOMAIN adjacency : n \in adjacency[m]}]

Least(S) == CHOOSE x \in S : \A y \in S : x <= y

\* One turn of the loops of finishing_order. next_index only skips what was visited,
\* so the next successor is the least one that was not; when the stack is empty the
\* next start is the least node that was not.
Turn(adjacency, s) ==
  LET fresh == IF s.stack = <<>> THEN DOMAIN adjacency \ s.visited
               ELSE adjacency[s.stack[Len(s.stack)]] \ s.visited
  IN IF fresh # {}
       THEN [stack |-> Append(s.stack, Least(fresh)),
             visited |-> s.visited \cup {Least(fresh)}, order |-> s.order]
     ELSE IF s.stack # <<>>
       THEN [stack |-> SubSeq(s.stack, 1, Len(s.stack) - 1),
             visited |-> s.visited, order |-> Append(s.order, s.stack[Len(s.stack)])]
     ELSE s

\* Every turn puts a node on the stack or takes one off, each node once.
FinishingOrder(adjacency) ==
  LET After[n \in 0..(2 * Len(adjacency))] ==
        IF n = 0 THEN [stack |-> <<>>, visited |-> {}, order |-> <<>>]
        ELSE Turn(adjacency, After[n - 1])
  IN After[2 * Len(adjacency)].order

\* Mutant of Backward: the second search follows the edges forward again.
Forward(adjacency) == adjacency

\* What the second search follows.
Backward(adjacency) == Transposed(adjacency)

\* One turn of the loop that collects a component: a node leaves the stack, and what
\* leads to it joins, if no component has it yet.
Gather(edges, taken, s) ==
  IF s.stack = {} THEN s
  ELSE LET fresh == edges[Least(s.stack)] \ (s.members \cup taken)
       IN [stack |-> (s.stack \ {Least(s.stack)}) \cup fresh, members |-> s.members \cup fresh]

Collect(edges, start, taken) ==
  LET After[n \in 0..Len(edges)] ==
        IF n = 0 THEN [stack |-> {start}, members |-> {start}]
        ELSE Gather(edges, taken, After[n - 1])
  IN After[Len(edges)].members

\* The components, each collected from the node that finished last of those left.
Components(edges, order) ==
  LET Found[n \in 0..Len(order)] ==
        IF n = 0 THEN {}
        ELSE LET found == Found[n - 1]
                 start == order[Len(order) - n + 1]
             IN IF start \in UNION found THEN found
                ELSE found \cup {Collect(edges, start, UNION found)}
  IN Found[Len(order)]

\* mark_cycles: the relations in a cycle, and the groups of entries.
MarkCycles(list) ==
  LET names == Indexed(Names(list))
      adjacency == Adjacency(list, names)
      components == Components(Backward(adjacency), FinishingOrder(adjacency))
      Inside(i, c) == \E n, m \in c : list[i].source = names[n] /\ list[i].target = names[m]
      Edges(c) == {i \in Resolved(list) : Inside(i, c)}
      cyclic == {c \in components : Cardinality(c) >= 2}
  IN [inCycle |-> UNION {Edges(c) : c \in cyclic},
      groups |-> {[members |-> {names[n] : n \in c}, edges |-> Cardinality(Edges(c))] :
                    c \in {c \in cyclic : Edges(c) # {}}}]

-----------------------------------------------------------------------------
\* Reference: the sets of entries that resolved relations do not lead out of. An
\* entry reaches what is in all such sets that it is in.
Enclosed(list) ==
  {S \in SUBSET Names(list) :
     \A i \in Resolved(list) : list[i].source \in S => list[i].target \in S}
Reaches(enclosed, x, y) == \A S \in enclosed : x \in S => y \in S
=============================================================================
