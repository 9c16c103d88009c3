-------------------------------- MODULE List --------------------------------
(***************************************************************************)
(* What a crowbar array promises to a program: it is a list of values that *)
(* its methods change in one step, and that never shows a value nobody has *)
(* put there. Positions start at 0, as in crowbar.                         *)
(***************************************************************************)
EXTENDS Integers, SequencesExt

CONSTANTS Values, Null

VARIABLE elements

Positions == 0 .. Len(elements) - 1

\* The list cut to n elements, or filled up with nulls.
Resize(s, n) == [j \in 1 .. n |-> IF j <= Len(s) THEN s[j] ELSE Null]

Start == elements \in Seq({Null})

Set == \E p \in Positions, v \in Values : elements' = [elements EXCEPT ![p + 1] = v]
Add == \E v \in Values : elements' = Append(elements, v)
Insert ==
  \E p \in Positions \union {Len(elements)}, v \in Values :
    elements' = InsertAt(elements, p + 1, v)
RemoveOne == \E p \in Positions : elements' = RemoveAt(elements, p + 1)
SetSize == elements' = Resize(elements, Len(elements'))

Step == Set \/ Add \/ Insert \/ RemoveOne \/ SetSize

Behaviour == Start /\ [][Step]_elements
=============================================================================
