--------------------------- MODULE RecordStream ---------------------------
(***************************************************************************)
(* What a reader of a source XML promises to those who fold its records    *)
(* into digests, chapters or database rows: elements are balanced, every   *)
(* record carries the depth its place in the tree has, the text of an      *)
(* element comes directly after its start and a tail directly after the    *)
(* end of the element it follows, so no two texts are adjacent, and the    *)
(* stream only ends well with every element closed.                        *)
(***************************************************************************)
EXTENDS Integers

VARIABLES
  level,   \* elements open
  last,    \* the record given last
  outcome  \* reading, ended or failed

svars == <<level, last, outcome>>

Init ==
  /\ level = 0
  /\ last = [kind |-> "none", depth |-> 0]
  /\ outcome = "reading"

Give(kind, depth) ==
  /\ outcome = "reading"
  /\ last' = [kind |-> kind, depth |-> depth]
  /\ UNCHANGED outcome

Start == Give("start", level) /\ level' = level + 1

Empty == Give("empty", level) /\ UNCHANGED level

Text ==
  /\ last.kind = "start"
  /\ Give("text", level - 1)
  /\ UNCHANGED level

Tail ==
  /\ last.kind \in {"empty", "end"}
  /\ level > 0
  /\ Give("tail", level)
  /\ UNCHANGED level

End ==
  /\ level > 0
  /\ Give("end", level - 1)
  /\ level' = level - 1

Stop ==
  /\ outcome = "reading"
  /\ \/ outcome' = "ended" /\ level = 0
     \/ outcome' = "failed"
  /\ UNCHANGED <<level, last>>

Next == Start \/ Empty \/ Text \/ Tail \/ End \/ Stop

Spec == Init /\ [][Next]_svars
=============================================================================
