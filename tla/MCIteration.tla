----------------------------- MODULE MCIteration -----------------------------
(* Instances for TLC of an array and of foreach over it. *)
EXTENDS Iteration
=============================================================================
