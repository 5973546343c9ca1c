------------------------------ MODULE MCBatch ------------------------------
(* Model-checking instances of Batch. *)
EXTENDS Batch, TLC

WorkerSymmetry == Permutations(Workers)
=============================================================================
