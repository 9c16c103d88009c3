------------------------------- MODULE Arrays -------------------------------
(***************************************************************************)
(* A crowbar array (heap.c): size values in a block of alloc_size cells,   *)
(* which CRB_array_resize exchanges for a larger or smaller one. insert    *)
(* and remove move the values behind the position one cell at a time.      *)
(*                                                                         *)
(* Cell i + 1 is array[i]. Memory nobody has written holds Junk: realloc   *)
(* leaves it as it is, the debug allocator fills it with 0xCC.             *)
(***************************************************************************)
EXTENDS Integers, Sequences, ArrayAllocation

CONSTANTS Values,      \* values a program stores
          Null,        \* a CRB_NULL_VALUE
          Junk,        \* what is in memory nobody has written
          InitialSizes, \* sizes a program gives new_array
          Sizes,       \* sizes a program gives the resize method
          MaxGrowth,   \* bound: cells by which the resize method makes an array grow
          MaxSize      \* bound: elements of an array that add and insert go up to

ASSUME ValuesAssumption == Null \in Values /\ Junk \notin Values

ASSUME SizesAssumption ==
  InitialSizes \subseteq Nat /\ Sizes \subseteq Int /\ MaxGrowth \in Nat /\ MaxSize \in Nat

VARIABLES cells,   \* u.array.array, alloc_size cells of it
          size,    \* u.array.size
          pc,      \* "idle", or the loop that insert or remove is in
          i,       \* its counter
          pos, value,  \* arguments of insert
          before   \* history: the elements when the method was called

vars == <<cells, size, pc, i, pos, value, before>>

Elements == SubSeq(cells, 1, size)

\* realloc keeps what the block held as far as it fits; the loop sets the new elements to null.
KeepJunk(alloc, n) ==
  [j \in 1 .. alloc |-> IF j <= Len(cells) THEN cells[j] ELSE Junk]
Reallocated(alloc, n) ==
  [j \in 1 .. alloc |->
     IF j \in size + 1 .. n THEN Null
     ELSE IF j <= Len(cells) THEN cells[j] ELSE Junk]

TypeOK ==
  /\ cells \in Seq(Values \union {Junk})
  /\ size \in Nat
  /\ pc \in {"idle", "insert", "remove"}
  /\ i \in Int /\ pos \in Nat
  /\ value \in Values
  /\ before \in Seq(Values \union {Junk})

\* new_array: the elements are set to null one by one before a program sees the array.
Init ==
  /\ \E n \in InitialSizes : size = n /\ cells = [j \in 1 .. n |-> Null]
  /\ pc = "idle" /\ i = 0 /\ pos = 0 /\ value = Null
  /\ before = <<>>

\* CRB_array_resize
ArrayResize(n) ==
  /\ size' = n
  /\ cells' = Reallocated(NewAllocSize(Len(cells), n), n)

\* An index expression, and remove, check the position.
InBounds(p) == p >= 0 /\ p < size

\* An assignment to an element, or CRB_array_set
Set ==
  /\ pc = "idle"
  /\ \E p \in -1 .. size + 1, v \in Values :
       InBounds(p) /\ cells' = [cells EXCEPT ![p + 1] = v]
  /\ UNCHANGED <<size, pc, i, pos, value, before>>

ResizeMethod ==
  /\ pc = "idle"
  /\ \E n \in Sizes : n - size <= MaxGrowth /\ ArrayResize(n)
  /\ UNCHANGED <<pc, i, pos, value, before>>

\* CRB_array_add. With a negative size the resize method has left, the value would be written
\* before the block.
Add ==
  /\ pc = "idle" /\ 0 <= size /\ size < MaxSize
  /\ \E v \in Values :
       /\ size' = size + 1
       /\ cells' = [Reallocated(NewAllocSize(Len(cells), size + 1), size + 1)
                      EXCEPT ![size + 1] = v]
  /\ UNCHANGED <<pc, i, pos, value, before>>

\* CRB_array_insert makes room, moves the elements from the last one down to the position,
\* and stores the new value.
UpperBoundOnly(p) == p <= size
InsertBounds(p) == p >= 0 /\ p <= size

Insert ==
  /\ pc = "idle" /\ 0 <= size /\ size < MaxSize
  /\ \E p \in -1 .. size + 1, v \in Values :
       InsertBounds(p) /\ pos' = p /\ value' = v
  /\ before' = Elements
  /\ ArrayResize(size + 1)
  /\ pc' = "insert" /\ i' = size - 1

\* for (i = size-2; i >= pos; i--) array[i+1] = array[i]
MoveUpwards ==
  /\ pc = "insert" /\ i >= pos
  /\ cells' = [cells EXCEPT ![i + 2] = cells[i + 1]]
  /\ i' = i - 1
  /\ UNCHANGED <<size, pc, pos, value, before>>

StoreInserted ==
  /\ pc = "insert" /\ i < pos
  /\ cells' = [cells EXCEPT ![pos + 1] = value]
  /\ pc' = "idle" /\ before' = <<>> /\ i' = 0
  /\ UNCHANGED <<size, pos, value>>

\* CRB_array_remove moves the elements behind the position down and cuts the last one off.
Remove ==
  /\ pc = "idle"
  /\ \E p \in -1 .. size + 1 : InBounds(p) /\ pos' = p /\ i' = p + 1
  /\ before' = Elements
  /\ pc' = "remove"
  /\ UNCHANGED <<cells, size, value>>

\* for (i = pos+1; i < size; i++) array[i-1] = array[i]
MoveDownwards ==
  /\ pc = "remove" /\ i < size
  /\ cells' = [cells EXCEPT ![i] = cells[i + 1]]
  /\ i' = i + 1
  /\ UNCHANGED <<size, pc, pos, value, before>>

CutRemoved ==
  /\ pc = "remove" /\ i >= size
  /\ ArrayResize(size - 1)
  /\ pc' = "idle" /\ before' = <<>> /\ i' = 0
  /\ UNCHANGED <<pos, value>>

Next ==
  \/ Set \/ ResizeMethod \/ Add \/ Insert \/ MoveUpwards \/ StoreInserted
  \/ Remove \/ MoveDownwards \/ CutRemoved

Spec == Init /\ [][Next]_vars

-----------------------------------------------------------------------------
(* Properties.                                                             *)

\* The elements lie in the block of the array: the loops above never read or write outside it.
CellsFit == 0 <= size /\ size <= Len(cells)

\* However it grew and shrank, the block keeps at most ArrayAllocSize cells it does not need.
BlockIsTight == Len(cells) - size <= ArrayAllocSize

\* To a program the array is a list: what the methods do one cell at a time, with blocks that
\* are exchanged, is what List does in one step.
Promise == INSTANCE List WITH elements <- IF pc = "idle" THEN Elements ELSE before
PromiseKept == Promise!Behaviour

=============================================================================
