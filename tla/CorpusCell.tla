---------------------------- MODULE CorpusCell ----------------------------
(***************************************************************************)
(* What an import promises to whoever opens the destination path: a corpus *)
(* database appears empty, takes one whole source file at a time, becomes  *)
(* ready once it holds the whole catalogue, and from then on can only be   *)
(* replaced, in one step, by another ready one. Nothing takes a file back  *)
(* and nothing is visible in between. Once a rebuild has run beside        *)
(* another session it may also be lost, as a whole.                        *)
(***************************************************************************)
CONSTANTS Files, Commits, NoCommit

VARIABLES
  cell,
  contended   \* a rebuild has run beside another session

Empty == [phase |-> "none", commit |-> NoCommit, files |-> {}]
Ready(c) == [phase |-> "ready", commit |-> c, files |-> Files]

Init ==
  /\ cell \in {Empty} \cup {Ready(c) : c \in Commits}
  /\ contended = FALSE

Create(c) ==
  /\ cell = Empty
  /\ cell' = [phase |-> "importing", commit |-> c, files |-> {}]

AddFile(f) ==
  /\ cell.phase = "importing"
  /\ f \notin cell.files
  /\ cell' = [cell EXCEPT !.files = @ \cup {f}]

MakeReady ==
  /\ cell.phase = "importing"
  /\ cell.files = Files
  /\ cell' = Ready(cell.commit)

Replace(c) == cell' = Ready(c)

Lose ==
  /\ contended
  /\ cell' = Empty

Contend ==
  /\ ~contended /\ contended'
  /\ UNCHANGED cell

Next ==
  \/ /\ \/ \E c \in Commits : Create(c) \/ Replace(c)
        \/ \E f \in Files : AddFile(f)
        \/ MakeReady \/ Lose
     /\ UNCHANGED contended
  \/ Contend

Spec == Init /\ [][Next]_<<cell, contended>>
=============================================================================
