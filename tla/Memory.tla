------------------------------- MODULE Memory -------------------------------
(***************************************************************************)
(* What the heap of crowbar promises to the interpreter, without a list,   *)
(* marks or sizes: an object the program can still get at is never freed,  *)
(* and an object it has lost stays lost.                                   *)
(***************************************************************************)
CONSTANT Object

VARIABLES allocated,  \* objects whose memory has not been freed
          inUse       \* objects the program can still get at

Start == allocated = {} /\ inUse = {}

Allocate ==
  \E o \in Object \ allocated :
    allocated' = allocated \union {o} /\ inUse' \subseteq inUse \union {o}

\* Assignments, returns and the end of scopes lose objects and never find one.
Lose == UNCHANGED allocated /\ inUse' \subseteq inUse

Free == (\E o \in allocated \ inUse : allocated' = allocated \ {o}) /\ UNCHANGED inUse

Behaviour == Start /\ [][Lose \/ Allocate \/ Free]_<<allocated, inUse>>
=============================================================================
