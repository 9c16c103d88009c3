------------------------------ MODULE MCArrays ------------------------------
(* Instances of Arrays for TLC. *)
EXTENDS Arrays
=============================================================================
