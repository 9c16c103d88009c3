------------------------------ MODULE MCUnwind ------------------------------
(* Instances of Unwind for TLC: the model values its exceptions are made of. *)
EXTENDS Unwind

CONSTANTS null,    \* no exception, or the argument of throw null
          none,    \* no value at all
          object,  \* an exception object the program has made
          raised   \* an exception object made for a run-time error
=============================================================================
