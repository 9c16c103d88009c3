------------------------------ MODULE MCScope ------------------------------
(* Instances of Scope for TLC. *)
EXTENDS Scope

CONSTANTS x, g

\* A function with a parameter of its name, and a closure with a parameter of its name.
MCFunctions ==
  {[name |-> x, parameter |-> <<x>>, is_closure |-> FALSE],
   [name |-> g, parameter |-> <<g>>, is_closure |-> TRUE]}
=============================================================================
