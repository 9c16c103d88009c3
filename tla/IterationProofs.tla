--------------------------- MODULE IterationProofs ---------------------------
(***************************************************************************)
(* Proofs about Arrays and Iteration, for any values, any sizes, any       *)
(* ARRAY_ALLOC_SIZE and bodies of foreach that change the array any number *)
(* of times, of programs that make an array grow by at most                *)
(* ARRAY_ALLOC_SIZE cells at a time and never to a negative size. Without  *)
(* that assumption CellsFit fails, which a run shows.                      *)
(***************************************************************************)
EXTENDS Iteration, TLAPS, SequenceTheorems, FiniteSetTheorems

-----------------------------------------------------------------------------
(* The array (Arrays).                                                     *)

SmallSteps == Sizes \subseteq Nat /\ MaxGrowth <= ArrayAllocSize

Full == pc = "idle" => \A j \in 1 .. size : cells[j] \in Values

\* The elements behind the one insert moves next are one cell up; one cell is free.
Inserting ==
  pc = "insert" =>
    /\ before \in Seq(Values) /\ size = Len(before) + 1
    /\ pos <= Len(before) /\ pos - 1 <= i /\ i < Len(before)
    /\ \A j \in 1 .. size : j # i + 2 => cells[j] = before[IF j < i + 2 THEN j ELSE j - 1]

\* The elements from the position up to the one remove moves next are one cell down.
Removing ==
  pc = "remove" =>
    /\ before \in Seq(Values) /\ size = Len(before)
    /\ pos < i /\ i <= size
    /\ \A j \in 1 .. size : cells[j] = before[IF j > pos /\ j < i THEN j + 1 ELSE j]

IInv == TypeOK /\ CellsFit /\ BlockIsTight /\ Full /\ Inserting /\ Removing

-----------------------------------------------------------------------------
(* The block that CRB_array_resize chooses.                                *)

\* A block is large enough for the new size and not much larger.
LEMMA NewAllocSizeFits ==
  ASSUME NEW alloc \in Nat, NEW n \in Nat,
         n - alloc <= ArrayAllocSize
  PROVE  /\ NewAllocSize(alloc, n) \in Nat
         /\ n <= NewAllocSize(alloc, n)
         /\ NewAllocSize(alloc, n) - n <= ArrayAllocSize
BY ArrayAllocSizeAssumption DEF NewAllocSize, NeedsRealloc

\* What CRB_array_resize leaves, when the size it is given is not out of reach.
LEMMA ReallocatedProperties ==
  ASSUME TypeOK, CellsFit, BlockIsTight,
         NEW n \in Nat, n - size <= ArrayAllocSize,
         NEW block, block = Reallocated(NewAllocSize(Len(cells), n), n)
  PROVE  /\ block \in Seq(Values \union {Junk})
         /\ n <= Len(block) /\ Len(block) - n <= ArrayAllocSize
         /\ \A j \in 1 .. n : block[j] = IF j <= size THEN cells[j] ELSE Null
<1> DEFINE alloc == NewAllocSize(Len(cells), n)
<1>1. Len(cells) \in Nat /\ \A j \in 1 .. Len(cells) : cells[j] \in Values \union {Junk}
  BY LenProperties DEF TypeOK
<1>2. alloc \in Nat /\ n <= alloc /\ alloc - n <= ArrayAllocSize
  <2>1. n - Len(cells) <= ArrayAllocSize
    BY <1>1, ArrayAllocSizeAssumption DEF TypeOK, CellsFit
  <2>. QED BY ONLY <1>1, <2>1, n \in Nat, NewAllocSizeFits DEF alloc
<1>. HIDE DEF alloc
<1>3. block = [j \in 1 .. alloc |->
                 IF j \in size + 1 .. n THEN Null
                 ELSE IF j <= Len(cells) THEN cells[j] ELSE Junk]
  BY DEF Reallocated, alloc
<1>4. block \in [1 .. alloc -> Values \union {Junk}]
  BY <1>1, <1>3, ValuesAssumption
<1>5. block \in Seq(Values \union {Junk})
  BY <1>2, <1>4, SeqDef
<1>6. Len(block) = alloc
  BY <1>2, <1>4, <1>5, LenProperties
<1>7. \A j \in 1 .. n : block[j] = IF j <= size THEN cells[j] ELSE Null
  BY <1>1, <1>2, <1>3 DEF TypeOK, CellsFit
<1>. QED BY <1>2, <1>5, <1>6, <1>7

LEMMA ArrayResizeProperties ==
  ASSUME TypeOK, CellsFit, BlockIsTight,
         NEW n, n \in Nat, n - size <= ArrayAllocSize, ArrayResize(n)
  PROVE  /\ size' = n
         /\ cells' \in Seq(Values \union {Junk})
         /\ CellsFit' /\ BlockIsTight'
         /\ \A j \in 1 .. n : cells'[j] = IF j <= size THEN cells[j] ELSE Null
<1>1. size' = n /\ cells' = Reallocated(NewAllocSize(Len(cells), n), n)
  BY DEF ArrayResize
<1>2. /\ cells' \in Seq(Values \union {Junk})
      /\ n <= Len(cells') /\ Len(cells') - n <= ArrayAllocSize
      /\ \A j \in 1 .. n : cells'[j] = IF j <= size THEN cells[j] ELSE Null
  BY <1>1, ReallocatedProperties
<1>. QED BY <1>1, <1>2 DEF CellsFit, BlockIsTight

-----------------------------------------------------------------------------
(* The inductive invariant.                                                *)

LEMMA InitInvariant == Init => IInv
<1> SUFFICES ASSUME Init PROVE IInv
  OBVIOUS
<1>1. PICK n \in InitialSizes : size = n /\ cells = [j \in 1 .. n |-> Null]
  BY DEF Init
<1>2. n \in Nat
  BY SizesAssumption
<1>3. cells \in [1 .. n -> Values \union {Junk}]
  BY <1>1, ValuesAssumption
<1>4. cells \in Seq(Values \union {Junk})
  BY <1>2, <1>3, SeqDef
<1>5. Len(cells) = n
  BY <1>2, <1>3, <1>4, LenProperties
<1>6. <<>> \in Seq(Values \union {Junk})
  BY EmptySeq
<1>. QED
  BY <1>1, <1>2, <1>4, <1>5, <1>6, ValuesAssumption, ArrayAllocSizeAssumption
     DEF Init, IInv, TypeOK, CellsFit, BlockIsTight, Full, Inserting, Removing

\* One cell is stored into; the block and the size stay as they are.
LEMMA Store ==
  ASSUME TypeOK, CellsFit, BlockIsTight,
         NEW p \in 1 .. size, NEW v \in Values \union {Junk},
         cells' = [cells EXCEPT ![p] = v], size' = size
  PROVE  /\ cells' \in Seq(Values \union {Junk})
         /\ CellsFit' /\ BlockIsTight'
         /\ \A j \in 1 .. size : cells'[j] = IF j = p THEN v ELSE cells[j]
<1>1. Len(cells) \in Nat /\ p \in 1 .. Len(cells)
  BY LenProperties DEF TypeOK, CellsFit
<1>2. /\ cells' \in Seq(Values \union {Junk})
      /\ Len(cells') = Len(cells)
      /\ \A j \in 1 .. Len(cells) : cells'[j] = IF j = p THEN v ELSE cells[j]
  BY <1>1, ExceptSeq DEF TypeOK
<1>. QED BY <1>1, <1>2 DEF TypeOK, CellsFit, BlockIsTight

\* The elements, cell by cell.
LEMMA FirstCells ==
  ASSUME NEW c \in Seq(Values \union {Junk}), NEW n \in Nat, n <= Len(c)
  PROVE  /\ SubSeq(c, 1, n) \in Seq(Values \union {Junk})
         /\ Len(SubSeq(c, 1, n)) = n
         /\ \A j \in 1 .. n : SubSeq(c, 1, n)[j] = c[j]
         /\ (\A j \in 1 .. n : c[j] \in Values) => SubSeq(c, 1, n) \in Seq(Values)
<1>1. \A j \in 1 .. n : c[j] \in Values \union {Junk}
  BY LenProperties
<1>2. n \in Int /\ n >= 0 /\ 1 \in Int
  OBVIOUS
<1>3. /\ SubSeq(c, 1, n) \in Seq(Values \union {Junk})
      /\ Len(SubSeq(c, 1, n)) = IF 1 <= n THEN n - 1 + 1 ELSE 0
      /\ \A j \in 1 .. n - 1 + 1 : SubSeq(c, 1, n)[j] = c[1 + j - 1]
  BY ONLY <1>1, <1>2, SubSeqProperties
<1>4. (\A j \in 1 .. n : c[j] \in Values) => SubSeq(c, 1, n) \in Seq(Values)
  BY ONLY <1>2, SubSeqProperties
<1>. QED BY <1>2, <1>3, <1>4

LEMMA ElementsProperties ==
  ASSUME TypeOK, CellsFit
  PROVE  /\ Elements \in Seq(Values \union {Junk})
         /\ Len(Elements) = size
         /\ \A j \in 1 .. size : Elements[j] = cells[j]
         /\ (\A j \in 1 .. size : cells[j] \in Values) => Elements \in Seq(Values)
BY FirstCells DEF Elements, TypeOK, CellsFit

\* When the loop of insert is over, there is room for the new value between the others.
LEMMA InsertedElements ==
  ASSUME TypeOK, Inserting, pc = "insert", i < pos
  PROVE  /\ before \in Seq(Values) /\ size = Len(before) + 1 /\ pos <= Len(before)
         /\ \A j \in 1 .. size :
              j # pos + 1 => /\ cells[j] = before[IF j <= pos THEN j ELSE j - 1]
                             /\ cells[j] \in Values
<1>1. /\ before \in Seq(Values) /\ size = Len(before) + 1 /\ pos <= Len(before) /\ i = pos - 1
      /\ \A j \in 1 .. size : j # i + 2 => cells[j] = before[IF j < i + 2 THEN j ELSE j - 1]
  BY DEF Inserting, TypeOK
<1>. QED BY <1>1, LenProperties DEF TypeOK

\* When the loop of remove is over, all elements but one are in the cells that stay.
LEMMA RemovedElements ==
  ASSUME TypeOK, Removing, pc = "remove", i >= size
  PROVE  /\ before \in Seq(Values) /\ size = Len(before) /\ pos < size
         /\ \A j \in 1 .. size - 1 : /\ cells[j] = before[IF j <= pos THEN j ELSE j + 1]
                                     /\ cells[j] \in Values
<1>1. /\ before \in Seq(Values) /\ size = Len(before) /\ pos < size /\ i = size
      /\ \A j \in 1 .. size : cells[j] = before[IF j > pos /\ j < i THEN j + 1 ELSE j]
  BY DEF Removing, TypeOK
<1>. QED BY <1>1, LenProperties, SMTT(30) DEF TypeOK

LEMMA StepInvariant ==
  ASSUME SmallSteps, IInv, [Next]_vars
  PROVE  IInv'
<1>. USE DEF IInv
<1>1. CASE Set
  <2>1. PICK p \in -1 .. size + 1, v \in Values :
          InBounds(p) /\ cells' = [cells EXCEPT ![p + 1] = v]
    BY <1>1 DEF Set
  <2>2. p + 1 \in 1 .. size /\ size' = size
    BY <1>1, <2>1 DEF InBounds, Set, TypeOK
  <2>3. /\ cells' \in Seq(Values \union {Junk})
        /\ CellsFit' /\ BlockIsTight'
        /\ \A j \in 1 .. size : cells'[j] = IF j = p + 1 THEN v ELSE cells[j]
    BY <2>1, <2>2, Store
  <2>. QED BY <1>1, <2>2, <2>3 DEF Set, TypeOK, Full, Inserting, Removing
<1>2. CASE ResizeMethod
  <2>1. PICK n \in Sizes : n - size <= MaxGrowth /\ ArrayResize(n)
    BY <1>2 DEF ResizeMethod
  <2>2. n \in Nat /\ n - size <= ArrayAllocSize
    BY <2>1, SizesAssumption, ArrayAllocSizeAssumption DEF SmallSteps, TypeOK
  <2>3. /\ size' = n
        /\ cells' \in Seq(Values \union {Junk})
        /\ CellsFit' /\ BlockIsTight'
        /\ \A j \in 1 .. n : cells'[j] = IF j <= size THEN cells[j] ELSE Null
    BY <2>1, <2>2, ArrayResizeProperties
  <2>. QED
    <3>1. \A j \in 1 .. n : cells'[j] \in Values
      BY <1>2, <2>2, <2>3, ValuesAssumption, SMTT(30) DEF ResizeMethod, TypeOK, Full
    <3>. QED
      BY <1>2, <2>2, <2>3, <3>1 DEF ResizeMethod, TypeOK, Full, Inserting, Removing
<1>3. CASE Add
  <2>1. PICK v \in Values :
          cells' = [Reallocated(NewAllocSize(Len(cells), size + 1), size + 1)
                      EXCEPT ![size + 1] = v]
    BY <1>3 DEF Add
  <2>2. PICK n \in Nat : n = size + 1
    BY DEF TypeOK
  <2>3. PICK block : block = Reallocated(NewAllocSize(Len(cells), n), n)
    OBVIOUS
  <2>4. n - size <= ArrayAllocSize
    BY <2>2, ArrayAllocSizeAssumption DEF TypeOK
  <2>5. /\ block \in Seq(Values \union {Junk})
        /\ n <= Len(block) /\ Len(block) - n <= ArrayAllocSize
        /\ \A j \in 1 .. n : block[j] = IF j <= size THEN cells[j] ELSE Null
    BY <2>3, <2>4, ReallocatedProperties
  <2>6. n \in 1 .. Len(block) /\ cells' = [block EXCEPT ![n] = v]
    BY <2>1, <2>2, <2>3, <2>5, LenProperties DEF TypeOK
  <2>7. /\ cells' \in Seq(Values \union {Junk})
        /\ Len(cells') = Len(block)
        /\ \A j \in 1 .. Len(block) : cells'[j] = IF j = n THEN v ELSE block[j]
    BY <2>5, <2>6, ExceptSeq
  <2>8. size' = n /\ pc = "idle" /\ UNCHANGED <<pc, i, pos, value, before>>
    BY <1>3, <2>2 DEF Add
  <2>9. CellsFit' /\ BlockIsTight'
    BY <2>5, <2>7, <2>8, LenProperties DEF CellsFit, BlockIsTight
  <2>10. \A j \in 1 .. n : cells'[j] \in Values
    BY <2>2, <2>5, <2>7, <2>8, LenProperties, SMTT(30) DEF Full, TypeOK
  <2>. QED BY <2>7, <2>8, <2>9, <2>10 DEF TypeOK, Full, Inserting, Removing
<1>4. CASE Insert
  <2>1. PICK p \in -1 .. size + 1, v \in Values : InsertBounds(p) /\ pos' = p /\ value' = v
    BY <1>4 DEF Insert
  <2>2. PICK n \in Nat : n = size + 1 /\ ArrayResize(n) /\ n - size <= ArrayAllocSize
    BY <1>4, ArrayAllocSizeAssumption DEF Insert, TypeOK
  <2>3. /\ size' = n
        /\ cells' \in Seq(Values \union {Junk})
        /\ CellsFit' /\ BlockIsTight'
        /\ \A j \in 1 .. n : cells'[j] = IF j <= size THEN cells[j] ELSE Null
    BY <2>2, ArrayResizeProperties
  <2>4. /\ before' \in Seq(Values) /\ Len(before') = size
        /\ \A j \in 1 .. size : before'[j] = cells[j]
    BY <1>4, ElementsProperties DEF Insert, Full
  <2>5. before' \in Seq(Values \union {Junk})
    BY <1>4, ElementsProperties DEF Insert
  <2>6. TypeOK'
    BY <1>4, <2>1, <2>3, <2>5 DEF Insert, InsertBounds, TypeOK
  <2>7. Inserting'
    <3>1. /\ size' = Len(before') + 1 /\ pos' <= Len(before') /\ i' = Len(before') - 1
          /\ pos' - 1 <= i'
      BY <1>4, <2>1, <2>2, <2>3, <2>4 DEF Insert, InsertBounds, TypeOK
    <3>2. \A j \in 1 .. size' :
            j # i' + 2 => cells'[j] = before'[IF j < i' + 2 THEN j ELSE j - 1]
      <4>1. size \in Nat /\ size' = size + 1 /\ i' + 2 = size + 1
        BY <2>4, <3>1 DEF TypeOK
      <4>2. ASSUME NEW j \in 1 .. size', j # i' + 2
            PROVE  cells'[j] = before'[IF j < i' + 2 THEN j ELSE j - 1]
        <5>1. j \in 1 .. size /\ j < i' + 2
          BY <4>1, <4>2
        <5>2. cells'[j] = cells[j] /\ before'[j] = cells[j]
          BY <2>2, <2>3, <2>4, <4>1, <5>1
        <5> QED
          BY <5>1, <5>2
      <4> QED
        BY <4>2
    <3>3. i' < Len(before')
      BY <2>4, <3>1 DEF TypeOK
    <3>. QED BY <2>4, <3>1, <3>2, <3>3 DEF Inserting
  <2>. QED BY <1>4, <2>3, <2>6, <2>7 DEF Insert, Full, Removing
<1>5. CASE MoveUpwards
  <2>1. /\ pc = "insert" /\ i >= pos /\ size' = size /\ i' = i - 1
        /\ UNCHANGED <<pc, pos, value, before>>
        /\ cells' = [cells EXCEPT ![i + 2] = cells[i + 1]]
    BY <1>5 DEF MoveUpwards
  <2>2. i + 2 \in 1 .. size /\ cells[i + 1] = before[i + 1] /\ before[i + 1] \in Values
    BY <2>1, LenProperties, SMTT(30) DEF Inserting, TypeOK
  <2>3. /\ cells' \in Seq(Values \union {Junk})
        /\ CellsFit' /\ BlockIsTight'
        /\ \A j \in 1 .. size : cells'[j] = IF j = i + 2 THEN cells[i + 1] ELSE cells[j]
    BY <2>1, <2>2, Store
  <2>4. Inserting'
    BY <2>1, <2>2, <2>3, SMTT(30) DEF Inserting, TypeOK
  <2>. QED BY <2>1, <2>3, <2>4 DEF TypeOK, Full, Removing
<1>6. CASE StoreInserted
  <2>1. /\ pc = "insert" /\ i < pos /\ size' = size /\ pc' = "idle"
        /\ i' = 0 /\ before' = <<>> /\ UNCHANGED <<pos, value>>
        /\ cells' = [cells EXCEPT ![pos + 1] = value]
    BY <1>6 DEF StoreInserted
  <2>2. pos + 1 \in 1 .. size
    BY <2>1 DEF Inserting, TypeOK
  <2>3. /\ cells' \in Seq(Values \union {Junk})
        /\ CellsFit' /\ BlockIsTight'
        /\ \A j \in 1 .. size : cells'[j] = IF j = pos + 1 THEN value ELSE cells[j]
    BY <2>1, <2>2, Store DEF TypeOK
  <2>4. \A j \in 1 .. size : cells'[j] \in Values
    BY <2>1, <2>3, InsertedElements DEF TypeOK
  <2>5. <<>> \in Seq(Values \union {Junk})
    BY EmptySeq
  <2>. QED BY <2>1, <2>3, <2>4, <2>5 DEF TypeOK, Full, Inserting, Removing
<1>7. CASE Remove
  <2>1. PICK p \in -1 .. size + 1 : InBounds(p) /\ pos' = p /\ i' = p + 1
    BY <1>7 DEF Remove
  <2>2. /\ before' \in Seq(Values) /\ Len(before') = size
        /\ \A j \in 1 .. size : before'[j] = cells[j]
    BY <1>7, ElementsProperties DEF Remove, Full
  <2>3. before' \in Seq(Values \union {Junk})
    BY <1>7, ElementsProperties DEF Remove
  <2>4. Removing'
    BY <1>7, <2>1, <2>2 DEF Remove, InBounds, Removing, TypeOK
  <2>. QED
    BY <1>7, <2>1, <2>3, <2>4
       DEF Remove, InBounds, TypeOK, CellsFit, BlockIsTight, Full, Inserting
<1>8. CASE MoveDownwards
  <2>1. /\ pc = "remove" /\ i < size /\ size' = size /\ i' = i + 1
        /\ UNCHANGED <<pc, pos, value, before>>
        /\ cells' = [cells EXCEPT ![i] = cells[i + 1]]
    BY <1>8 DEF MoveDownwards
  <2>2. i \in 1 .. size /\ cells[i + 1] = before[i + 1] /\ before[i + 1] \in Values
    BY <2>1, LenProperties DEF Removing, TypeOK
  <2>3. /\ cells' \in Seq(Values \union {Junk})
        /\ CellsFit' /\ BlockIsTight'
        /\ \A j \in 1 .. size : cells'[j] = IF j = i THEN cells[i + 1] ELSE cells[j]
    BY <2>1, <2>2, Store
  <2>4. Removing'
    BY <2>1, <2>2, <2>3 DEF Removing, TypeOK
  <2>. QED BY <2>1, <2>3, <2>4 DEF TypeOK, Full, Inserting
<1>9. CASE CutRemoved
  <2>1. PICK n \in Nat : n = size - 1 /\ ArrayResize(n) /\ n - size <= ArrayAllocSize
    BY <1>9, ArrayAllocSizeAssumption DEF CutRemoved, Removing, TypeOK
  <2>2. /\ size' = n
        /\ cells' \in Seq(Values \union {Junk})
        /\ CellsFit' /\ BlockIsTight'
        /\ \A j \in 1 .. n : cells'[j] = IF j <= size THEN cells[j] ELSE Null
    BY <2>1, ArrayResizeProperties
  <2>3. \A j \in 1 .. n : cells'[j] \in Values
    BY <1>9, <2>1, <2>2, RemovedElements, SMTT(30) DEF CutRemoved, TypeOK
  <2>4. <<>> \in Seq(Values \union {Junk})
    BY EmptySeq
  <2>. QED BY <1>9, <2>2, <2>3, <2>4 DEF CutRemoved, TypeOK, Full, Inserting, Removing
<1>10. CASE UNCHANGED vars
  BY <1>10 DEF vars, TypeOK, CellsFit, BlockIsTight, Full, Inserting, Removing
<1>. QED
  BY <1>1, <1>2, <1>3, <1>4, <1>5, <1>6, <1>7, <1>8, <1>9, <1>10 DEF Next

\* The inductive invariant: the block, and how far the loops of insert and remove have come.
THEOREM Invariance == SmallSteps => (Spec => []IInv)
<1> SUFFICES ASSUME SmallSteps PROVE Spec => []IInv
  OBVIOUS
<1>1. IInv /\ [Next]_vars => IInv'
  BY StepInvariant
<1>. QED BY <1>1, InitInvariant, PTL DEF Spec

\* The size of an array is never negative; its cells hold values a program stored or Junk.
THEOREM TypeCorrectness == SmallSteps => (Spec => []TypeOK)
<1>1. IInv => TypeOK
  BY DEF IInv
<1>. QED BY <1>1, Invariance, PTL

\* No method of an array that grows by small steps reads or writes outside its block.
THEOREM BlockCorrectness == SmallSteps => (Spec => []CellsFit)
<1>1. IInv => CellsFit
  BY DEF IInv
<1>. QED BY <1>1, Invariance, PTL

\* However an array grows and shrinks, it keeps at most ARRAY_ALLOC_SIZE cells to spare.
THEOREM BlockEconomy == SmallSteps => (Spec => []BlockIsTight)
<1>1. IInv => BlockIsTight
  BY DEF IInv
<1>. QED BY <1>1, Invariance, PTL

-----------------------------------------------------------------------------
(* An array implements List.                                               *)

Shown == IF pc = "idle" THEN Elements ELSE before

\* A part of a list, and two lists one behind the other.
LEMMA PartOf ==
  ASSUME NEW s \in Seq(Values), NEW m \in Nat \ {0}, NEW n \in Nat, m <= n + 1, n <= Len(s)
  PROVE  /\ SubSeq(s, m, n) \in Seq(Values)
         /\ Len(SubSeq(s, m, n)) = n - m + 1
         /\ \A j \in 1 .. n - m + 1 : SubSeq(s, m, n)[j] = s[m + j - 1]
<1>1. \A j \in m .. n : s[j] \in Values
  BY LenProperties
<1>2. /\ SubSeq(s, m, n) \in Seq(Values)
      /\ Len(SubSeq(s, m, n)) = IF m <= n THEN n - m + 1 ELSE 0
      /\ \A j \in 1 .. n - m + 1 : SubSeq(s, m, n)[j] = s[m + j - 1]
  BY ONLY m \in Int, n \in Int, <1>1, SubSeqProperties
<1>. QED BY <1>2

LEMMA Joined ==
  ASSUME NEW s \in Seq(Values), NEW t \in Seq(Values), NEW m \in Nat, NEW n \in Nat,
         Len(s) = m, Len(s) + Len(t) = n
  PROVE  /\ s \o t \in Seq(Values)
         /\ Len(s \o t) = n
         /\ \A j \in 1 .. n : (s \o t)[j] = IF j <= m THEN s[j] ELSE t[j - m]
BY ConcatProperties

\* What InsertAt and RemoveAt do, element by element.
LEMMA InsertAtProperties ==
  ASSUME NEW s \in Seq(Values), NEW p \in 0 .. Len(s), NEW v \in Values
  PROVE  /\ Promise!InsertAt(s, p + 1, v) \in Seq(Values)
         /\ Len(Promise!InsertAt(s, p + 1, v)) = Len(s) + 1
         /\ \A j \in 1 .. Len(s) + 1 :
              Promise!InsertAt(s, p + 1, v)[j] =
                IF j = p + 1 THEN v ELSE s[IF j <= p THEN j ELSE j - 1]
<1>1. PICK n \in Nat, k \in Nat, l \in Nat, m \in Nat \ {0} :
         n = Len(s) /\ k = n - p /\ m = p + 1 /\ l = n + 1
  BY LenProperties
<1>2. PICK front : front = SubSeq(s, 1, p)
  OBVIOUS
<1>3. PICK rear : rear = SubSeq(s, m, n)
  OBVIOUS
<1>4. /\ front \in Seq(Values) /\ Len(front) = p
      /\ \A j \in 1 .. p : front[j] = s[j]
  BY <1>1, <1>2, PartOf
<1>5. /\ rear \in Seq(Values) /\ Len(rear) = k
      /\ \A j \in 1 .. k : rear[j] = s[p + j]
  BY <1>1, <1>3, PartOf
<1>6. PICK middle : middle = front \o <<v>>
  OBVIOUS
<1>7. <<v>> \in Seq(Values) /\ Len(<<v>>) = 1 /\ <<v>>[1] = v
  OBVIOUS
<1>8. /\ middle \in Seq(Values) /\ Len(middle) = m
      /\ \A j \in 1 .. m : middle[j] = IF j <= p THEN front[j] ELSE v
  BY <1>1, <1>4, <1>6, <1>7, Joined
<1>9. PICK all : all = middle \o rear
  OBVIOUS
<1>10. /\ all \in Seq(Values) /\ Len(all) = l
       /\ \A j \in 1 .. l : all[j] = IF j <= m THEN middle[j] ELSE rear[j - m]
  <2>1. /\ middle \o rear \in Seq(Values) /\ Len(middle \o rear) = Len(middle) + Len(rear)
        /\ \A j \in 1 .. Len(middle) + Len(rear) :
             (middle \o rear)[j] = IF j <= Len(middle) THEN middle[j] ELSE rear[j - Len(middle)]
    BY ONLY <1>5, <1>8, ConcatProperties
  <2>2. Len(middle) = m /\ Len(rear) = k
    BY ONLY <1>5, <1>8
  <2>3. m + k = l
    BY <1>1
  <2>. QED BY ONLY <1>9, <2>1, <2>2, <2>3
<1>11. ASSUME NEW j \in 1 .. l
       PROVE  all[j] = IF j = p + 1 THEN v ELSE s[IF j <= p THEN j ELSE j - 1]
  <2>1. CASE j <= m
    BY <1>1, <1>4, <1>8, <1>10, <2>1
  <2>2. CASE j > m
    <3>1. j - m \in 1 .. k /\ p + (j - m) = j - 1 /\ ~(j <= p) /\ j # p + 1 /\ ~(j <= m)
      BY <1>1, <2>2
    <3>2. all[j] = rear[j - m] /\ rear[j - m] = s[p + (j - m)]
      BY <1>5, <1>10, <3>1
    <3>. QED BY <3>1, <3>2
  <2>. QED BY <1>1, <2>1, <2>2
<1>12. Promise!InsertAt(s, p + 1, v) = all
  <2>1. p + 1 = m /\ (p + 1) - 1 = p /\ Len(s) = n
    BY <1>1
  <2>2. SubSeq(s, 1, (p + 1) - 1) = front /\ SubSeq(s, p + 1, Len(s)) = rear
    BY ONLY <2>1, <1>2, <1>3, Zenon
  <2>. QED BY ONLY <2>2, <1>6, <1>9 DEF Promise!InsertAt
<1>. QED BY <1>1, <1>10, <1>11, <1>12

LEMMA RemoveAtProperties ==
  ASSUME NEW s \in Seq(Values), NEW p \in 0 .. Len(s) - 1
  PROVE  /\ Promise!RemoveAt(s, p + 1) \in Seq(Values)
         /\ Len(Promise!RemoveAt(s, p + 1)) = Len(s) - 1
         /\ \A j \in 1 .. Len(s) - 1 :
              Promise!RemoveAt(s, p + 1)[j] = s[IF j <= p THEN j ELSE j + 1]
<1>1. PICK n \in Nat, k \in Nat, l \in Nat, m \in Nat \ {0} :
         n = Len(s) /\ k = n - p - 1 /\ m = p + 2 /\ l = n - 1
  BY LenProperties
<1>2. PICK front : front = SubSeq(s, 1, p)
  OBVIOUS
<1>3. PICK rear : rear = SubSeq(s, m, n)
  OBVIOUS
<1>4. /\ front \in Seq(Values) /\ Len(front) = p
      /\ \A j \in 1 .. p : front[j] = s[j]
  BY <1>1, <1>2, PartOf, SMTT(30)
<1>5. /\ rear \in Seq(Values) /\ Len(rear) = k
      /\ \A j \in 1 .. k : rear[j] = s[p + 1 + j]
  <2>1. m <= n + 1 /\ n <= Len(s)
    BY <1>1
  <2>2. /\ SubSeq(s, m, n) \in Seq(Values) /\ Len(SubSeq(s, m, n)) = n - m + 1
        /\ \A j \in 1 .. n - m + 1 : SubSeq(s, m, n)[j] = s[m + j - 1]
    BY ONLY s \in Seq(Values), m \in Nat \ {0}, n \in Nat, <2>1, PartOf, Zenon
  <2>3. n - m + 1 = k /\ \A j \in 1 .. k : m + j - 1 = p + 1 + j
    BY <1>1
  <2>. QED BY ONLY <1>3, <2>2, <2>3
<1>6. PICK all : all = front \o rear
  OBVIOUS
<1>7. /\ all \in Seq(Values) /\ Len(all) = l
      /\ \A j \in 1 .. l : all[j] = IF j <= p THEN front[j] ELSE rear[j - p]
  <2>1. Len(front) + Len(rear) = l /\ p \in Nat
    BY <1>1, <1>4, <1>5
  <2>2. front \in Seq(Values) /\ rear \in Seq(Values) /\ Len(front) = p
    BY <1>4, <1>5
  <2>3. /\ front \o rear \in Seq(Values)
        /\ Len(front \o rear) = Len(front) + Len(rear)
        /\ \A j \in 1 .. Len(front) + Len(rear) :
             (front \o rear)[j] = IF j <= Len(front) THEN front[j] ELSE rear[j - Len(front)]
    BY ONLY <2>2, ConcatProperties, Zenon
  <2>. QED BY ONLY <1>6, <2>1, <2>2, <2>3
<1>8. ASSUME NEW j \in 1 .. l
      PROVE  all[j] = s[IF j <= p THEN j ELSE j + 1]
  <2>1. CASE j <= p
    BY <1>1, <1>4, <1>7, <2>1
  <2>2. CASE j > p
    <3>1. j - p \in 1 .. k /\ p + 1 + (j - p) = j + 1
      BY <1>1, <2>2
    <3>. QED BY <1>1, <1>5, <1>7, <2>2, <3>1
  <2>. QED BY <1>1, <2>1, <2>2
<1>9. Promise!RemoveAt(s, p + 1) = all
  <2>1. p + 1 + 1 = m /\ (p + 1) - 1 = p /\ Len(s) = n
    BY <1>1
  <2>2. SubSeq(s, 1, (p + 1) - 1) = front /\ SubSeq(s, p + 1 + 1, Len(s)) = rear
    BY ONLY <2>1, <1>2, <1>3, Zenon
  <2>. QED BY ONLY <2>2, <1>6 DEF Promise!RemoveAt
<1>. QED BY <1>1, <1>7, <1>8, <1>9

\* Init shows a list of nulls.
LEMMA InitShown == Init => Promise!Start
<1> SUFFICES ASSUME Init PROVE Elements \in Seq({Null})
  BY DEF Init, Promise!Start
<1>1. PICK n \in Nat : size = n /\ cells = [j \in 1 .. n |-> Null]
  BY SizesAssumption DEF Init
<1>2. \A j \in 1 .. n : cells[j] \in {Null}
  BY <1>1
<1>. QED BY <1>1, <1>2, SubSeqProperties DEF Elements

\* Every step of an array is a step of the list it shows, or shows nothing.
LEMMA StepShown ==
  ASSUME SmallSteps, IInv, IInv', [Next]_vars
  PROVE  [Promise!Step]_Shown
<1>. USE DEF IInv
<1>1. /\ Elements \in Seq(Values \union {Junk}) /\ Len(Elements) = size
      /\ \A j \in 1 .. size : Elements[j] = cells[j]
      /\ (\A j \in 1 .. size : cells[j] \in Values) => Elements \in Seq(Values)
  BY ElementsProperties
<1>2. /\ Elements' \in Seq(Values \union {Junk}) /\ Len(Elements') = size'
      /\ \A j \in 1 .. size' : Elements'[j] = cells'[j]
      /\ (\A j \in 1 .. size' : cells'[j] \in Values) => Elements' \in Seq(Values)
  BY FirstCells DEF Elements, TypeOK, CellsFit
<1>3. pc = "idle" => Elements \in Seq(Values)
  BY <1>1 DEF Full
<1>4. pc' = "idle" => Elements' \in Seq(Values)
  BY <1>2 DEF Full
<1>5. CASE Set
  <2>1. PICK p \in -1 .. size + 1, v \in Values :
          InBounds(p) /\ cells' = [cells EXCEPT ![p + 1] = v]
    BY <1>5 DEF Set
  <2>2. p \in 0 .. size - 1 /\ size' = size /\ pc = "idle" /\ pc' = "idle"
    BY <1>5, <2>1 DEF InBounds, Set, TypeOK
  <2>3. PICK list : list = [Elements EXCEPT ![p + 1] = v]
    OBVIOUS
  <2>4. /\ list \in Seq(Values) /\ Len(list) = size
        /\ \A j \in 1 .. size : list[j] = IF j = p + 1 THEN v ELSE cells[j]
    <3>1. p + 1 \in 1 .. Len(Elements)
      <4>1. size \in Nat
        BY DEF TypeOK
      <4>2. p + 1 \in 1 .. size
        BY ONLY <2>2, <4>1
      <4>. QED BY ONLY <1>1, <4>2
    <3>. QED BY <1>1, <1>3, <2>2, <2>3, <3>1, ExceptSeq
  <2>5. \A j \in 1 .. size : cells'[j] = IF j = p + 1 THEN v ELSE cells[j]
    BY <2>1, <2>2, LenProperties DEF TypeOK, CellsFit
  <2>6. Elements' = list
    BY <1>2, <1>4, <2>2, <2>4, <2>5, SeqEqual
  <2>7. p \in Promise!Positions
    BY <1>1, <2>2 DEF Promise!Positions, Shown
  <2>8. Shown' = Elements' /\ Shown = Elements
    BY <2>2 DEF Shown
  <2>. QED BY <2>3, <2>6, <2>7, <2>8, <2>2 DEF Promise!Step, Promise!Set, Shown
<1>6. CASE ResizeMethod
  <2>1. PICK n \in Sizes : n - size <= MaxGrowth /\ ArrayResize(n)
    BY <1>6 DEF ResizeMethod
  <2>2. n \in Nat /\ n - size <= ArrayAllocSize /\ pc = "idle" /\ pc' = "idle"
    BY <1>6, <2>1, SizesAssumption, ArrayAllocSizeAssumption
       DEF SmallSteps, TypeOK, ResizeMethod
  <2>3. /\ size' = n
        /\ \A j \in 1 .. n : cells'[j] = IF j <= size THEN cells[j] ELSE Null
    BY <2>1, <2>2, ArrayResizeProperties
  <2>4. PICK list : list = Promise!Resize(Elements, n)
    OBVIOUS
  <2>5. list = [j \in 1 .. n |-> IF j <= Len(Elements) THEN Elements[j] ELSE Null]
    BY <2>4 DEF Promise!Resize
  <2>6. \A j \in 1 .. size : Elements[j] \in Values
    BY <1>1, <2>2 DEF Full
  <2>7. list \in [1 .. n -> Values]
    BY <1>1, <2>2, <2>5, <2>6, ValuesAssumption DEF TypeOK
  <2>8. list \in Seq(Values) /\ Len(list) = n
    BY <2>2, <2>7, SeqDef, LenProperties
  <2>9. \A j \in 1 .. n : list[j] = IF j <= size THEN cells[j] ELSE Null
    BY <1>1, <2>2, <2>5 DEF TypeOK
  <2>10. Elements' = list
    BY <1>2, <1>4, <2>2, <2>3, <2>8, <2>9, SeqEqual
  <2>11. Shown' = Elements' /\ Shown = Elements
    BY <2>2 DEF Shown
  <2>12. Elements' = Promise!Resize(Elements, Len(Elements'))
    BY <1>2, <2>3, <2>4, <2>10
  <2>. QED BY <2>11, <2>12, <2>2 DEF Promise!Step, Promise!SetSize, Shown
<1>7. CASE Add
  <2>1. PICK v \in Values :
          cells' = [Reallocated(NewAllocSize(Len(cells), size + 1), size + 1)
                      EXCEPT ![size + 1] = v]
    BY <1>7 DEF Add
  <2>2. PICK n \in Nat : n = size + 1
    BY DEF TypeOK
  <2>3. PICK block : block = Reallocated(NewAllocSize(Len(cells), n), n)
    OBVIOUS
  <2>4. n - size <= ArrayAllocSize
    BY <2>2, ArrayAllocSizeAssumption DEF TypeOK
  <2>5. /\ block \in Seq(Values \union {Junk})
        /\ n <= Len(block) /\ Len(block) - n <= ArrayAllocSize
        /\ \A j \in 1 .. n : block[j] = IF j <= size THEN cells[j] ELSE Null
    BY <2>3, <2>4, ReallocatedProperties
  <2>6. cells' = [block EXCEPT ![n] = v] /\ size' = n /\ pc = "idle" /\ pc' = "idle"
    BY <1>7, <2>1, <2>2, <2>3 DEF Add
  <2>7. \A j \in 1 .. n : cells'[j] = IF j = n THEN v ELSE cells[j]
    BY <2>2, <2>5, <2>6, LenProperties DEF TypeOK
  <2>8. PICK list : list = Append(Elements, v)
    OBVIOUS
  <2>9. /\ list \in Seq(Values) /\ Len(list) = n
        /\ \A j \in 1 .. size : list[j] = cells[j]
        /\ list[n] = v
    BY <1>1, <1>3, <2>2, <2>6, <2>8, AppendProperties
  <2>10. \A j \in 1 .. n : Elements'[j] = list[j]
    BY <1>2, <2>2, <2>6, <2>7, <2>9, SMTT(30) DEF TypeOK
  <2>11. Elements' = list
    BY <1>2, <1>4, <2>6, <2>9, <2>10, SeqEqual
  <2>12. Shown' = Elements' /\ Shown = Elements
    BY <2>6 DEF Shown
  <2>. QED BY <2>8, <2>11, <2>12, <2>6 DEF Promise!Step, Promise!Add, Shown
<1>8. CASE Insert
  BY <1>8 DEF Insert, Shown
<1>9. CASE MoveUpwards
  BY <1>9 DEF MoveUpwards, Shown
<1>10. CASE StoreInserted
  <2>1. /\ pc = "insert" /\ pc' = "idle" /\ i < pos /\ size' = size
        /\ cells' = [cells EXCEPT ![pos + 1] = value]
    BY <1>10 DEF StoreInserted
  <2>2. /\ before \in Seq(Values) /\ size = Len(before) + 1 /\ pos <= Len(before)
        /\ \A j \in 1 .. size :
             j # pos + 1 => cells[j] = before[IF j <= pos THEN j ELSE j - 1]
    BY <2>1, InsertedElements
  <2>3. pos \in 0 .. Len(before) /\ pos + 1 \in 1 .. Len(cells) /\ value \in Values
    BY <2>2, LenProperties, SMTT(30) DEF TypeOK, CellsFit
  <2>4. \A j \in 1 .. size :
          cells'[j] = IF j = pos + 1 THEN value ELSE before[IF j <= pos THEN j ELSE j - 1]
    BY <2>1, <2>2, <2>3, LenProperties, SMTT(30) DEF TypeOK, CellsFit
  <2>5. PICK list : list = Promise!InsertAt(before, pos + 1, value)
    OBVIOUS
  <2>6. /\ list \in Seq(Values) /\ Len(list) = size
        /\ \A j \in 1 .. size :
             list[j] = IF j = pos + 1 THEN value ELSE before[IF j <= pos THEN j ELSE j - 1]
    BY <2>2, <2>3, <2>5, InsertAtProperties, ZenonT(30)
  <2>7. Elements' = list
    BY <1>2, <1>4, <2>1, <2>4, <2>6, SeqEqual
  <2>8. Shown' = Elements' /\ Shown = before
    BY <2>1 DEF Shown
  <2>9. pos \in Promise!Positions \union {Len(before)}
    BY <2>3, <2>8, LenProperties DEF Promise!Positions, Shown
  <2>. QED BY <2>3, <2>5, <2>7, <2>8, <2>9, <2>1 DEF Promise!Step, Promise!Insert, Shown
<1>11. CASE Remove
  BY <1>11 DEF Remove, Shown
<1>12. CASE MoveDownwards
  BY <1>12 DEF MoveDownwards, Shown
<1>13. CASE CutRemoved
  <2>1. /\ pc = "remove" /\ pc' = "idle" /\ i >= size /\ ArrayResize(size - 1)
    BY <1>13 DEF CutRemoved
  <2>2. /\ before \in Seq(Values) /\ size = Len(before) /\ pos < size
        /\ \A j \in 1 .. size - 1 : cells[j] = before[IF j <= pos THEN j ELSE j + 1]
    BY <2>1, RemovedElements
  <2>3. PICK n \in Nat : n = size - 1 /\ ArrayResize(n) /\ n - size <= ArrayAllocSize
    BY <2>1, <2>2, ArrayAllocSizeAssumption DEF TypeOK
  <2>4. /\ size' = n
        /\ \A j \in 1 .. n : cells'[j] = IF j <= size THEN cells[j] ELSE Null
    BY <2>3, ArrayResizeProperties
  <2>5. ASSUME NEW j \in 1 .. n PROVE cells'[j] = before[IF j <= pos THEN j ELSE j + 1]
    <3>1. j \in 1 .. size - 1 /\ j <= size
      BY <2>3 DEF TypeOK
    <3> QED
      BY <2>2, <2>4, <3>1
  <2>6. PICK list : list = Promise!RemoveAt(before, pos + 1)
    OBVIOUS
  <2>7. pos \in 0 .. Len(before) - 1
    BY <2>2, LenProperties DEF TypeOK
  <2>8. /\ list \in Seq(Values) /\ Len(list) = n
        /\ \A j \in 1 .. n : list[j] = before[IF j <= pos THEN j ELSE j + 1]
    BY <2>2, <2>3, <2>6, <2>7, RemoveAtProperties
  <2>9. Elements' = list
    BY <1>2, <1>4, <2>1, <2>4, <2>5, <2>8, SeqEqual
  <2>10. Shown' = Elements' /\ Shown = before
    BY <2>1 DEF Shown
  <2>. QED BY <2>6, <2>7, <2>9, <2>10, <2>1 DEF Promise!Step, Promise!RemoveOne, Promise!Positions, Shown
<1>14. CASE UNCHANGED vars
  BY <1>14 DEF vars, Shown, Elements
<1>. QED
  BY <1>5, <1>6, <1>7, <1>8, <1>9, <1>10, <1>11, <1>12, <1>13, <1>14 DEF Next

\* To a program an array that grows by small steps is a list that its methods change in one
\* step each, without a value nobody stored.
THEOREM Refinement == SmallSteps => (Spec => PromiseKept)
<1> SUFFICES ASSUME SmallSteps PROVE Spec => PromiseKept
  OBVIOUS
<1>1. Init => Promise!Start
  BY InitShown
<1>2. IInv /\ IInv' /\ [Next]_vars => [Promise!Step]_Shown
  BY StepShown
<1>3. Spec => []IInv
  BY Invariance
<1>. QED BY <1>1, <1>2, <1>3, PTL DEF Spec, PromiseKept, Promise!Behaviour, Shown

-----------------------------------------------------------------------------
(* foreach over it (Iteration).                                            *)

\* The positions before Frontier are those foreach has dealt with.
Frontier == IF loop \in {"body", "next"} THEN index + 1 ELSE index

\* Elements foreach will not come to any more, and ones it will come to again
Skipped == {j \in Present : visits[j] = 0 /\ place[j] < Frontier}
Pending == {j \in Present : visits[j] >= 1 /\ place[j] >= Frontier}

\* While an element is removed the last cell no longer counts.
LastPlace == (IF pc = "remove" THEN size - 1 ELSE size) - 1

\* The elements are where place says, each at a place of its own.
PlacesAreApart ==
  /\ \A j \in Present : place[j] \in 0 .. LastPlace
  /\ \A j, k \in Present : place[j] = place[k] => j = k

LoopState ==
  /\ loop = "none" => place = <<>>
  /\ loop # "body" /\ loop # "none" => pc = "idle"
  /\ loop = "current_item" => index < size
  /\ removals <= changes /\ insertions <= changes

Counts ==
  /\ Cardinality(Skipped) <= removals
  /\ Cardinality(Revisits) + Cardinality(Pending) <= insertions

LInv == IInv /\ IterationTypeOK /\ PlacesAreApart /\ LoopState /\ Counts

-----------------------------------------------------------------------------
(* foreach and the array                                                   *)

\* Whatever happens during a loop is a step of the array, or none.
LEMMA ArrayStepOrNone == [IterationNext]_iterationVars => [Next]_vars
<1>1. UNCHANGED iterationVars => UNCHANGED vars
  BY DEF iterationVars
<1>2. StartLoop \/ IteratorStep \/ BodyEnds \/ LeaveLoop => UNCHANGED vars
  BY DEF StartLoop, IteratorStep, IsDone, CurrentItem, NextItem, BodyEnds, LeaveLoop
<1>3. BodyChanges \/ ArrayStep => Next
  BY DEF BodyChanges, ArrayStep, Next
<1>. QED BY <1>1, <1>2, <1>3 DEF IterationNext

\* What is proved above of an array holds of one that a foreach runs over: CellsFit,
\* BlockIsTight and PromiseKept among it.
THEOREM LoopsKeepArrays == IterationSpec => Spec
<1>1. IterationInit => Init
  BY DEF IterationInit
<1>. QED BY <1>1, ArrayStepOrNone, PTL DEF IterationSpec, Spec

-----------------------------------------------------------------------------
(* Counting                                                                *)

LEMMA FiniteSets ==
  ASSUME IterationTypeOK
  PROVE  /\ IsFiniteSet(Present) /\ IsFiniteSet(Skipped) /\ IsFiniteSet(Pending)
         /\ IsFiniteSet(NeverVisited) /\ IsFiniteSet(Revisits)
<1>1. DOMAIN place = 1 .. Len(place) /\ Len(place) \in Nat
  BY LenProperties DEF IterationTypeOK
<1>2. IsFiniteSet(DOMAIN place)
  BY <1>1, FS_Interval
<1>3. IsFiniteSet(Present)
  BY <1>2, FS_Subset DEF Present
<1>4. IsFiniteSet(Present \X (2 .. 1 + MaxChanges))
  <2>1. 2 \in Int /\ 1 + MaxChanges \in Int
    BY IterationAssumption
  <2>2. IsFiniteSet(2 .. 1 + MaxChanges)
    BY <2>1, FS_Interval
  <2>. QED BY <1>3, <2>2, FS_Product
<1>. QED BY <1>3, <1>4, FS_Subset DEF Skipped, Pending, NeverVisited, Revisits

LEMMA Smaller ==
  ASSUME NEW S, NEW T, IsFiniteSet(S), T \subseteq S
  PROVE  Cardinality(T) \in Nat /\ Cardinality(S) \in Nat /\ Cardinality(T) <= Cardinality(S)
BY FS_Subset, FS_CardinalityType

LEMMA OneMore ==
  ASSUME NEW S, NEW T, IsFiniteSet(S), NEW x, T \subseteq S \union {x}
  PROVE  Cardinality(T) \in Nat /\ Cardinality(S) \in Nat /\ Cardinality(T) <= Cardinality(S) + 1
<1>1. IsFiniteSet(S \union {x}) /\ Cardinality(S \union {x}) <= Cardinality(S) + 1
  <2>1. Cardinality(S) \in Nat
    BY FS_CardinalityType
  <2>2. /\ IsFiniteSet(S \cup {x})
        /\ Cardinality(S \cup {x}) = IF x \in S THEN Cardinality(S) ELSE Cardinality(S) + 1
    BY FS_AddElement
  <2>. QED BY <2>1, <2>2
<1>. QED BY <1>1, Smaller, FS_CardinalityType

LEMMA OneLess ==
  ASSUME NEW S, NEW T, IsFiniteSet(S), NEW x \in S, T \subseteq S \ {x}
  PROVE  Cardinality(T) \in Nat /\ Cardinality(S) \in Nat /\ Cardinality(T) + 1 <= Cardinality(S)
<1>1. IsFiniteSet(S \ {x}) /\ Cardinality(S \ {x}) = Cardinality(S) - 1
  BY FS_RemoveElement
<1>. QED BY <1>1, Smaller, FS_CardinalityType

-----------------------------------------------------------------------------
(* The invariant                                                           *)

\* Where no element is counted there is nothing to show.
LEMMA NothingCounted ==
  ASSUME place = <<>>, removals \in Nat, insertions \in Nat
  PROVE  PlacesAreApart /\ Counts
<1>1. Present = {}
  BY DEF Present
<1>2. Skipped = {} /\ Pending = {} /\ Revisits = {}
  BY <1>1 DEF Skipped, Pending, Revisits
<1>. QED BY <1>1, <1>2, FS_EmptySet DEF PlacesAreApart, Counts

LEMMA LoopInit == SmallSteps /\ IterationInit => LInv
<1>. SUFFICES ASSUME SmallSteps, IterationInit PROVE LInv
  OBVIOUS
<1>1. IInv
  BY InitInvariant DEF IterationInit
<1>2. IterationTypeOK
  BY <1>1, IterationAssumption, ValuesAssumption DEF IterationInit, NoLoop, IterationTypeOK, IInv
<1>3. LoopState /\ PlacesAreApart /\ Counts
  BY NothingCounted DEF IterationInit, NoLoop, LoopState
<1>. QED BY <1>1, <1>2, <1>3 DEF LInv

LEMMA EndLoopKeeps ==
  ASSUME IterationTypeOK, EndLoop, UNCHANGED vars
  PROVE  IterationTypeOK' /\ LoopState' /\ PlacesAreApart' /\ Counts'
<1>1. IterationTypeOK'
  BY IterationAssumption, ValuesAssumption DEF IterationTypeOK, TypeOK, vars, EndLoop
<1>2. PlacesAreApart' /\ Counts'
  <2>1. place' = <<>> /\ removals' \in Nat /\ insertions' \in Nat
    BY DEF EndLoop
  <2>2. Present' = {}
    BY <2>1 DEF Present
  <2>3. Skipped' = {} /\ Pending' = {} /\ Revisits' = {}
    BY <2>2 DEF Skipped, Pending, Revisits
  <2>. QED BY <2>1, <2>2, <2>3, FS_EmptySet DEF PlacesAreApart, Counts
<1>3. LoopState'
  BY DEF EndLoop, LoopState
<1>. QED BY <1>1, <1>2, <1>3

\* Steps of foreach that change neither the array nor the places
LEMMA StartLoopKeeps ==
  ASSUME LInv, StartLoop
  PROVE  IterationTypeOK' /\ LoopState' /\ PlacesAreApart' /\ Counts'
<1>. USE DEF LInv
<1>1. /\ place' = [j \in 1 .. size |-> j - 1] /\ visits' = [j \in 1 .. size |-> 0]
      /\ size \in Nat /\ pc = "idle"
  BY DEF StartLoop, IterationTypeOK, TypeOK
<1>2. place' \in Seq(Int) /\ visits' \in Seq(Nat) /\ Len(place') = size /\ Len(visits') = size
  <2>1. place' \in [1 .. size -> Int] /\ visits' \in [1 .. size -> Nat]
    BY <1>1
  <2>. QED BY <1>1, <2>1, SeqDef, LenProperties
<1>3. IterationTypeOK'
  BY <1>2, IterationAssumption, ValuesAssumption DEF StartLoop, IterationTypeOK, TypeOK, vars
<1>4. Present' \subseteq 1 .. size
  BY <1>1 DEF Present
<1>5. Skipped' = {} /\ Pending' = {} /\ Revisits' = {}
  <2>1. \A j \in Present' : visits'[j] = 0 /\ place'[j] >= 0
    BY <1>1, <1>4
  <2>2. Frontier' = 0
    BY DEF StartLoop, Frontier
  <2>3. \A j \in Present' : ~ (place'[j] < 0) /\ ~ (visits'[j] >= 1)
    <3>. SUFFICES ASSUME NEW j \in Present' PROVE ~ (place'[j] < 0) /\ ~ (visits'[j] >= 1)
      OBVIOUS
    <3>1. j \in 1 .. size /\ place'[j] = j - 1 /\ visits'[j] = 0
      BY <1>1, <1>4
    <3>. QED BY <1>1, <3>1
  <2>4. \A visit \in Present' \X (2 .. 1 + MaxChanges) : ~ (visits'[visit[1]] >= visit[2])
    BY <2>1, IterationAssumption
  <2>. QED BY <2>2, <2>3, <2>4 DEF Skipped, Pending, Revisits
<1>6. Counts'
  BY <1>5, FS_EmptySet DEF StartLoop, Counts
<1>7. PlacesAreApart'
  BY <1>1, <1>4 DEF StartLoop, PlacesAreApart, LastPlace, vars
<1>8. LoopState'
  BY <1>1 DEF StartLoop, LoopState, vars
<1>. QED BY <1>3, <1>6, <1>7, <1>8

\* Steps that only go from one call of foreach to the next, or in a loop of insert or remove
LEMMA SameFrontierKeeps ==
  ASSUME LInv, Frontier' = Frontier,
         UNCHANGED <<place, visits, removals, insertions>>, LastPlace' = LastPlace
  PROVE  PlacesAreApart' /\ Counts'
<1>1. Present' = Present /\ Revisits' = Revisits
  BY DEF Present, Revisits
<1>2. Skipped' = Skipped /\ Pending' = Pending
  BY <1>1 DEF Skipped, Pending
<1>. QED BY <1>1, <1>2 DEF LInv, PlacesAreApart, Counts

\* The body is run for the element at index: one that had been skipped no longer is, one that was
\* pending has been visited again.
LEMMA CurrentItemKeeps ==
  ASSUME LInv, CurrentItem
  PROVE  IterationTypeOK' /\ LoopState' /\ PlacesAreApart' /\ Counts'
<1>. USE DEF LInv
<1>1. /\ InBounds(index) /\ index \in Nat /\ size \in Nat /\ pc = "idle"
      /\ \A j \in DOMAIN visits : visits[j] \in Nat
      /\ \A j \in DOMAIN place : place[j] \in Int
      /\ DOMAIN place = DOMAIN visits
  BY LenProperties, SMTT(30) DEF CurrentItem, LoopState, InBounds, IterationTypeOK, TypeOK
<1>2. /\ visits' = [j \in DOMAIN visits |-> visits[j] + (IF place[j] = index THEN 1 ELSE 0)]
      /\ loop' = "body" /\ loop = "current_item"
      /\ UNCHANGED <<index, place, removals, insertions, changes>> /\ UNCHANGED vars
      /\ item' = cells[index + 1]
  BY <1>1 DEF CurrentItem
<1>3. /\ Frontier = index /\ Frontier' = index + 1 /\ Present' = Present
      /\ Present \subseteq DOMAIN place
  BY <1>2 DEF Frontier, Present
<1>4. \A j \in Present : visits'[j] = visits[j] + (IF place[j] = index THEN 1 ELSE 0)
  BY <1>1, <1>2, <1>3
<1>5. IterationTypeOK' /\ LoopState'
  <2>1. visits' \in Seq(Nat) /\ Len(visits') = Len(visits)
    <3>1. visits \in Seq(Nat) /\ Len(visits) \in Nat /\ DOMAIN visits = 1 .. Len(visits)
      BY LenProperties DEF IterationTypeOK
    <3>2. visits' \in [1 .. Len(visits) -> Nat]
      BY <1>1, <1>2, <3>1
    <3>. QED BY <3>1, <3>2, SeqDef, LenProperties
  <2>2. cells[index + 1] \in Values
    BY <1>1 DEF IInv, Full, InBounds
  <2>. QED BY <1>1, <1>2, <2>1, <2>2 DEF IterationTypeOK, LoopState, TypeOK, vars
<1>6. PlacesAreApart'
  BY <1>2, <1>3 DEF PlacesAreApart, LastPlace, vars
<1>7. Skipped' \subseteq Skipped
  BY <1>1, <1>2, <1>3, <1>4 DEF Skipped
<1>8. Cardinality(Skipped') <= removals'
  BY <1>2, <1>7, FiniteSets, Smaller DEF Counts, IterationTypeOK
<1>9. Cardinality(Revisits') + Cardinality(Pending') <= insertions'
  <2>1. CASE \E j \in Present : place[j] = index /\ visits[j] >= 1
    <3>1. PICK j \in Present : place[j] = index /\ visits[j] >= 1
      BY <2>1
    <3>2. \A k \in Present : k # j => place[k] # index
      BY <3>1 DEF PlacesAreApart
    <3>3. j \in Pending
      BY <1>1, <1>3, <3>1 DEF Pending
    <3>4. Pending' \subseteq Pending \ {j}
      BY <1>1, <1>2, <1>3, <1>4, <3>1, <3>2 DEF Pending
    <3>5. Revisits' \subseteq Revisits \union {<<j, visits[j] + 1>>}
      <4>. SUFFICES ASSUME NEW k \in Present, NEW n \in 2 .. 1 + MaxChanges, visits'[k] >= n,
                           <<k, n>> # <<j, visits[j] + 1>>
                    PROVE  visits[k] >= n
        BY <1>3 DEF Revisits
      <4>1. visits[k] \in Nat /\ n \in Int
        BY <1>1, <1>3, IterationAssumption
      <4>2. CASE k = j
        BY <4>1, <4>2, <1>4
      <4>3. CASE k # j
        BY <4>1, <4>3, <1>4, <3>2
      <4>. QED BY <4>2, <4>3
    <3>6. /\ Cardinality(Pending') \in Nat /\ Cardinality(Pending) \in Nat
          /\ Cardinality(Pending') + 1 <= Cardinality(Pending)
      BY <3>3, <3>4, FiniteSets, OneLess
    <3>7. /\ Cardinality(Revisits') \in Nat /\ Cardinality(Revisits) \in Nat
          /\ Cardinality(Revisits') <= Cardinality(Revisits) + 1
      BY <3>5, FiniteSets, OneMore
    <3>. QED BY <1>2, <3>6, <3>7, SMTT(30) DEF Counts, IterationTypeOK
  <2>2. CASE \A j \in Present : place[j] = index => visits[j] = 0
    <3>1. Pending' \subseteq Pending
      BY <1>1, <1>2, <1>3, <1>4, <2>2 DEF Pending
    <3>2. Revisits' \subseteq Revisits
      <4>. SUFFICES ASSUME NEW k \in Present, NEW n \in 2 .. 1 + MaxChanges, visits'[k] >= n
                    PROVE  visits[k] >= n
        BY <1>3 DEF Revisits
      <4>1. visits[k] \in Nat /\ n \in Int /\ n >= 2
        BY <1>1, <1>3, IterationAssumption
      <4>. QED BY <4>1, <1>4, <2>2
    <3>3. /\ Cardinality(Pending') \in Nat /\ Cardinality(Pending) \in Nat
          /\ Cardinality(Pending') <= Cardinality(Pending)
      BY <3>1, FiniteSets, Smaller
    <3>4. /\ Cardinality(Revisits') \in Nat /\ Cardinality(Revisits) \in Nat
          /\ Cardinality(Revisits') <= Cardinality(Revisits)
      BY <3>2, FiniteSets, Smaller
    <3>. QED BY <1>2, <3>3, <3>4 DEF Counts, IterationTypeOK
  <2>. QED BY <1>1, <1>3, <2>1, <2>2
<1>. QED BY <1>5, <1>6, <1>8, <1>9 DEF Counts

\* Where the elements are after the body has called a method: an element that is inserted moves
\* those behind it up, one that is removed moves them down.
LEMMA BodyMoves ==
  ASSUME SmallSteps, LInv, BodyChanges
  PROVE  /\ pc = "idle" /\ loop = "body" /\ size \in Nat /\ size' \in Nat /\ index \in Nat
         /\ \A j \in Present : place[j] \in 0 .. size - 1
         /\ \A j \in Present' : j \in Present /\ place'[j] = Moved(place[j]) /\ place'[j] # Gone
         /\ \/ /\ pc' = "idle" /\ removals' = removals /\ insertions' = insertions
               /\ \A q \in Nat : Moved(q) = IF q < size' THEN q ELSE Gone
            \/ /\ pc' = "insert" /\ pos' \in 0 .. size /\ size' = size + 1
               /\ removals' = removals
               /\ insertions' = insertions + (IF pos' <= index THEN 1 ELSE 0)
               /\ \A q \in Nat : Moved(q) = IF q >= pos' THEN q + 1 ELSE q
            \/ /\ pc' = "remove" /\ pos' \in 0 .. size - 1 /\ size' = size
               /\ removals' = removals + (IF pos' <= index THEN 1 ELSE 0)
               /\ insertions' = insertions
               /\ \A q \in Nat : Moved(q) = IF q = pos' THEN Gone
                                           ELSE IF q > pos' THEN q - 1 ELSE q
<1>. USE DEF LInv
<1>1. pc = "idle" /\ loop = "body" /\ size \in Nat /\ index \in Nat
      /\ removals \in Nat /\ insertions \in Nat
  BY DEF BodyChanges, IterationTypeOK, TypeOK, Set, ResizeMethod, Add, Insert, Remove
<1>2. \A j \in Present : place[j] \in 0 .. size - 1
  BY <1>1 DEF PlacesAreApart, LastPlace
<1>3. DOMAIN place' = DOMAIN place
      /\ \A j \in DOMAIN place : place'[j] = IF place[j] = Gone THEN Gone ELSE Moved(place[j])
  BY DEF BodyChanges
<1>4. \A j \in Present' : j \in Present /\ place'[j] = Moved(place[j]) /\ place'[j] # Gone
  BY <1>3 DEF Present
<1>5. CASE Set \/ ResizeMethod \/ Add
  <2>1. pc' = "idle" /\ size' \in Nat
    BY <1>1, <1>5 DEF Set, ResizeMethod, Add, ArrayResize, SmallSteps
  <2>2. removals' = removals /\ insertions' = insertions
    BY <1>1, <2>1 DEF BodyChanges
  <2>3. \A q \in Nat : Moved(q) = IF q < size' THEN q ELSE Gone
    BY <2>1 DEF Moved
  <2>. QED BY <1>1, <1>2, <1>4, <2>1, <2>2, <2>3
<1>6. CASE Insert
  <2>1. pc' = "insert" /\ pos' \in 0 .. size /\ size' = size + 1
    BY <1>1, <1>6 DEF Insert, InsertBounds, ArrayResize
  <2>2. removals' = removals /\ insertions' = insertions + (IF pos' <= index THEN 1 ELSE 0)
    BY <1>1, <2>1 DEF BodyChanges
  <2>3. \A q \in Nat : Moved(q) = IF q >= pos' THEN q + 1 ELSE q
    BY <2>1 DEF Moved
  <2>. QED BY <1>1, <1>2, <1>4, <2>1, <2>2, <2>3
<1>7. CASE Remove
  <2>1. pc' = "remove" /\ pos' \in 0 .. size - 1 /\ size' = size
    BY <1>1, <1>7 DEF Remove, InBounds
  <2>2. removals' = removals + (IF pos' <= index THEN 1 ELSE 0) /\ insertions' = insertions
    BY <1>1, <2>1 DEF BodyChanges
  <2>3. \A q \in Nat : Moved(q) = IF q = pos' THEN Gone ELSE IF q > pos' THEN q - 1 ELSE q
    BY <2>1 DEF Moved
  <2>. QED BY <1>1, <1>2, <1>4, <2>1, <2>2, <2>3
<1>. QED BY <1>5, <1>6, <1>7 DEF BodyChanges

\* An element removed at or before index lets at most one be skipped, one inserted there makes at
\* most one pending.
LEMMA BodyChangesKeep ==
  ASSUME SmallSteps, LInv, BodyChanges
  PROVE  LoopState' /\ PlacesAreApart' /\ Counts'
<1>. USE DEF LInv
<1>1. /\ pc = "idle" /\ loop = "body" /\ size \in Nat /\ size' \in Nat /\ index \in Nat
      /\ \A j \in Present : place[j] \in 0 .. size - 1
      /\ \A j \in Present' : j \in Present /\ place'[j] = Moved(place[j]) /\ place'[j] # Gone
  BY BodyMoves
<1>2. /\ UNCHANGED <<loop, index, item, visits>> /\ changes' = changes + 1
      /\ Frontier = index + 1 /\ Frontier' = index + 1
  BY <1>1 DEF BodyChanges, Frontier
<1>3. /\ removals \in Nat /\ insertions \in Nat /\ changes \in Nat
      /\ removals' \in {removals, removals + 1} /\ insertions' \in {insertions, insertions + 1}
  <2>1. removals \in Nat /\ insertions \in Nat /\ changes \in Nat
    BY DEF IterationTypeOK
  <2>. QED BY <2>1, BodyMoves
<1>4. LoopState'
  BY <1>1, <1>2, <1>3 DEF LoopState
<1>5. \A j \in Present' : place'[j] \in 0 .. LastPlace'
  BY <1>1, BodyMoves DEF LastPlace, Gone
<1>6. \A j, k \in Present' : place'[j] = place'[k] => j = k
  <2>. SUFFICES ASSUME NEW j \in Present', NEW k \in Present', place'[j] = place'[k]
                PROVE  place[j] = place[k]
    BY <1>1 DEF PlacesAreApart
  <2>1. Moved(place[j]) = Moved(place[k]) /\ Moved(place[j]) # Gone
    BY <1>1
  <2>2. place[j] \in Nat /\ place[k] \in Nat
    BY <1>1
  <2>. QED BY <2>1, <2>2, BodyMoves
<1>7. \A j \in Present' : visits'[j] = visits[j] /\ visits[j] \in Nat
  BY <1>1, <1>2, LenProperties DEF IterationTypeOK, Present
<1>8. Revisits' \subseteq Revisits
  BY <1>1, <1>2 DEF Revisits
<1>9. CASE pc' = "idle"
  <2>1. removals' = removals /\ insertions' = insertions
        /\ \A j \in Present' : place'[j] = place[j]
    BY <1>1, <1>9, BodyMoves
  <2>2. Skipped' \subseteq Skipped /\ Pending' \subseteq Pending
    BY <1>1, <1>2, <1>7, <2>1 DEF Skipped, Pending
  <2>. QED
    BY <1>3, <1>4, <1>5, <1>6, <1>8, <2>1, <2>2, FiniteSets, Smaller DEF Counts, PlacesAreApart
<1>10. CASE pc' = "insert"
  <2>1. /\ pos' \in 0 .. size /\ removals' = removals
        /\ insertions' = insertions + (IF pos' <= index THEN 1 ELSE 0)
        /\ \A j \in Present' : place'[j] = IF place[j] >= pos' THEN place[j] + 1 ELSE place[j]
    BY <1>1, <1>10, BodyMoves
  <2>2. Skipped' \subseteq Skipped
    BY <1>1, <1>2, <1>7, <2>1 DEF Skipped
  <2>3. CASE pos' <= index /\ \E j \in Present : place[j] = index
    <3>1. PICK j \in Present : place[j] = index
      BY <2>3
    <3>2. \A k \in Present : k # j => place[k] # index
      BY <3>1 DEF PlacesAreApart
    <3>3. Pending' \subseteq Pending \union {j}
      BY <1>1, <1>2, <1>7, <2>1, <3>2 DEF Pending
    <3>4. /\ Cardinality(Pending') \in Nat /\ Cardinality(Pending) \in Nat
          /\ Cardinality(Pending') <= Cardinality(Pending) + 1
      BY <3>3, FiniteSets, OneMore
    <3>. QED
      BY <1>3, <1>5, <1>6, <1>8, <1>4, <2>1, <2>2, <2>3, <3>4, FiniteSets, Smaller
         DEF Counts, PlacesAreApart
  <2>4. CASE pos' > index \/ \A j \in Present : place[j] # index
    <3>1. Pending' \subseteq Pending
      BY <1>1, <1>2, <1>7, <2>1, <2>4 DEF Pending
    <3>. QED
      BY <1>3, <1>5, <1>6, <1>8, <1>4, <2>1, <2>2, <3>1, FiniteSets, Smaller
         DEF Counts, PlacesAreApart
  <2>. QED BY <1>1, <2>1, <2>3, <2>4
<1>11. CASE pc' = "remove"
  <2>1. /\ pos' \in 0 .. size - 1 /\ insertions' = insertions
        /\ removals' = removals + (IF pos' <= index THEN 1 ELSE 0)
        /\ \A j \in Present' : place'[j] = IF place[j] > pos' THEN place[j] - 1 ELSE place[j]
    BY <1>1, <1>11, BodyMoves
  <2>2. Pending' \subseteq Pending
    BY <1>1, <1>2, <1>7, <2>1 DEF Pending
  <2>3. CASE pos' <= index /\ \E j \in Present : place[j] = index + 1
    <3>1. PICK j \in Present : place[j] = index + 1
      BY <2>3
    <3>2. \A k \in Present : k # j => place[k] # index + 1
      BY <3>1 DEF PlacesAreApart
    <3>3. Skipped' \subseteq Skipped \union {j}
      BY <1>1, <1>2, <1>7, <2>1, <3>2 DEF Skipped
    <3>4. /\ Cardinality(Skipped') \in Nat /\ Cardinality(Skipped) \in Nat
          /\ Cardinality(Skipped') <= Cardinality(Skipped) + 1
      BY <3>3, FiniteSets, OneMore
    <3>. QED
      BY <1>3, <1>5, <1>6, <1>8, <1>4, <2>1, <2>2, <2>3, <3>4, FiniteSets, Smaller
         DEF Counts, PlacesAreApart
  <2>4. CASE pos' > index \/ \A j \in Present : place[j] # index + 1
    <3>1. Skipped' \subseteq Skipped
      BY <1>1, <1>2, <1>7, <2>1, <2>4 DEF Skipped
    <3>. QED
      BY <1>3, <1>5, <1>6, <1>8, <1>4, <2>1, <2>2, <3>1, FiniteSets, Smaller
         DEF Counts, PlacesAreApart
  <2>. QED BY <1>1, <2>1, <2>3, <2>4
<1>. QED BY <1>9, <1>10, <1>11, BodyMoves

LEMMA BodyTypes ==
  ASSUME SmallSteps, LInv, BodyChanges, TypeOK'
  PROVE  IterationTypeOK'
<1>. USE DEF LInv
<1>1. /\ UNCHANGED <<loop, index, item, visits>> /\ changes' = changes + 1 /\ changes < MaxChanges
      /\ place' = [j \in DOMAIN place |-> IF place[j] = Gone THEN Gone ELSE Moved(place[j])]
  BY DEF BodyChanges
<1>2. DOMAIN place = 1 .. Len(place) /\ Len(place) \in Nat /\ place \in Seq(Int)
      /\ Len(place) = Len(visits)
  BY LenProperties DEF IterationTypeOK
<1>3. \A j \in Present : Moved(place[j]) \in Int
  <2>. SUFFICES ASSUME NEW j \in Present PROVE Moved(place[j]) \in Int
    OBVIOUS
  <2>1. place[j] \in Nat
    BY BodyMoves
  <2>. QED BY <2>1, BodyMoves DEF Gone
<1>4. place' \in [1 .. Len(place) -> Int]
  BY <1>1, <1>2, <1>3 DEF Present, Gone
<1>5. place' \in Seq(Int) /\ Len(place') = Len(place)
  BY <1>2, <1>4, SeqDef, LenProperties
<1>6. changes' \in 0 .. MaxChanges
  BY <1>1, IterationAssumption DEF IterationTypeOK
<1>7. removals' \in Nat /\ removals' <= removals + 1 /\ insertions' \in Nat
      /\ insertions' <= insertions + 1
  <2>1. removals \in Nat /\ insertions \in Nat
    BY DEF IterationTypeOK
  <2>. QED BY <2>1, BodyMoves
<1>8. removals' \in 0 .. MaxChanges /\ insertions' \in 0 .. MaxChanges
  <2>1. removals \in Nat /\ insertions \in Nat /\ changes \in Nat
        /\ removals <= changes /\ insertions <= changes
    BY DEF LoopState, IterationTypeOK
  <2>. QED BY <1>1, <1>6, <1>7, <2>1, IterationAssumption
<1>. QED BY <1>1, <1>2, <1>5, <1>6, <1>8 DEF IterationTypeOK

\* The body moves cells on in insert and remove, or another part of the program uses the array.
LEMMA ArrayStepKeeps ==
  ASSUME LInv, ArrayStep, TypeOK'
  PROVE  IterationTypeOK' /\ LoopState' /\ PlacesAreApart' /\ Counts'
<1>. USE DEF LInv
<1>1. UNCHANGED loopVars
  BY DEF ArrayStep
<1>2. IterationTypeOK'
  BY <1>1 DEF IterationTypeOK, loopVars
<1>3. CASE loop = "none"
  <2>1. LoopState' /\ place = <<>>
    BY <1>1, <1>3 DEF LoopState, loopVars
  <2>2. Frontier' = Frontier /\ Present = {} /\ Present' = {}
    BY <1>1, <2>1 DEF Frontier, Present, loopVars
  <2>3. Skipped' = {} /\ Pending' = {} /\ Revisits' = {}
    BY <2>2 DEF Skipped, Pending, Revisits
  <2>4. removals' \in Nat /\ insertions' \in Nat
    BY <1>2 DEF IterationTypeOK
  <2>. QED BY <1>2, <2>1, <2>2, <2>3, <2>4, FS_EmptySet DEF PlacesAreApart, Counts
<1>4. CASE MoveUpwards \/ StoreInserted \/ MoveDownwards \/ CutRemoved
  <2>1. CASE loop = "none"
    BY <1>3, <2>1
  <2>2. CASE loop = "body"
    <3>1. LastPlace' = LastPlace
      BY <1>4 DEF MoveUpwards, StoreInserted, MoveDownwards, CutRemoved, LastPlace, ArrayResize,
                  IterationTypeOK, TypeOK
    <3>2. Frontier' = Frontier
      BY <1>1 DEF Frontier, loopVars
    <3>3. LoopState'
      BY <1>1, <2>2 DEF LoopState, loopVars
    <3>. QED BY <1>1, <1>2, <3>1, <3>2, <3>3, SameFrontierKeeps DEF loopVars
  <2>. QED BY <2>1, <2>2 DEF ArrayStep
<1>. QED BY <1>3, <1>4 DEF ArrayStep

LEMMA LoopStep ==
  ASSUME SmallSteps, LInv, [IterationNext]_iterationVars
  PROVE  LInv'
<1>. USE DEF LInv
<1>1. IInv'
  BY ArrayStepOrNone, StepInvariant
<1>2. TypeOK'
  BY <1>1 DEF IInv
<1>3. CASE StartLoop
  BY <1>1, <1>3, StartLoopKeeps
<1>4. CASE CurrentItem
  BY <1>1, <1>4, CurrentItemKeeps
<1>5. CASE BodyChanges
  BY <1>1, <1>2, <1>5, BodyChangesKeep, BodyTypes
<1>6. CASE ArrayStep
  BY <1>1, <1>2, <1>6, ArrayStepKeeps
<1>7. CASE EndLoop /\ UNCHANGED vars
  BY <1>1, <1>7, EndLoopKeeps
<1>8. CASE /\ UNCHANGED <<vars, item, place, visits, removals, insertions, changes>>
           /\ \/ IsDone /\ loop' = "current_item"
              \/ BodyEnds \/ NextItem \/ UNCHANGED iterationVars
  <2>1. LastPlace' = LastPlace
    BY <1>8 DEF LastPlace, vars
  <2>2. index \in Nat /\ size \in Nat
    BY DEF IterationTypeOK, TypeOK
  <2>3. /\ Frontier' = Frontier /\ index' \in Nat /\ LoopState'
        /\ loop' \in {"none", "is_done", "current_item", "body", "next"}
    <3>1. CASE IsDone /\ loop' = "current_item"
      <4>1. /\ loop = "is_done" /\ index < size /\ UNCHANGED <<size, pc>>
            /\ UNCHANGED <<index, place, removals, insertions, changes>>
        BY <2>2, <3>1 DEF IsDone, Beyond, EndLoop, vars
      <4>. QED BY <2>2, <3>1, <4>1 DEF Frontier, LoopState
    <3>2. CASE BodyEnds
      BY <1>8, <2>2, <3>2 DEF BodyEnds, Frontier, LoopState, vars
    <3>3. CASE NextItem
      BY <1>8, <2>2, <3>3 DEF NextItem, Advance, Frontier, LoopState, vars
    <3>4. CASE UNCHANGED iterationVars
      BY <2>2, <3>4 DEF iterationVars, loopVars, vars, Frontier, LoopState, IterationTypeOK
    <3>. QED BY <1>8, <3>1, <3>2, <3>3, <3>4
  <2>4. IterationTypeOK'
    BY <1>2, <1>8, <2>3 DEF IterationTypeOK
  <2>. QED BY <1>1, <1>8, <2>1, <2>3, <2>4, SameFrontierKeeps
<1>. QED
  BY <1>3, <1>4, <1>5, <1>6, <1>7, <1>8
     DEF IterationNext, IteratorStep, IsDone, BodyEnds, NextItem, LeaveLoop, iterationVars, loopVars

-----------------------------------------------------------------------------
(* The theorems                                                            *)

\* What is reached from the initial states satisfies the invariant.
THEOREM LoopInvariance == SmallSteps => (IterationSpec => []LInv)
<1>. SUFFICES ASSUME SmallSteps PROVE IterationSpec => []LInv
  OBVIOUS
<1>1. IterationInit => LInv
  BY LoopInit
<1>2. LInv /\ [IterationNext]_iterationVars => LInv'
  BY LoopStep
<1>. QED BY <1>1, <1>2, PTL DEF IterationSpec

\* The variables have their types, those of the array included.
THEOREM LoopTypes == SmallSteps => (IterationSpec => []IterationTypeOK)
<1>1. LInv => IterationTypeOK
  BY DEF LInv
<1>. QED BY <1>1, LoopInvariance, PTL

\* However the body changes the array: the iterator never goes beyond its end, and foreach, when it
\* comes to the end, has skipped at most one element for each one removed, and has come back to at
\* most one for each one inserted, at or before the element it was at.
THEOREM ElementsOnce == SmallSteps => (IterationSpec => EachElementOnce)
<1>. SUFFICES ASSUME SmallSteps PROVE IterationSpec => EachElementOnce
  OBVIOUS
<1>1. LInv /\ loop = "is_done" /\ [IterationNext]_iterationVars /\ loop' = "none"
        => Cardinality(NeverVisited) <= removals /\ Cardinality(Revisits) <= insertions
  <2>. SUFFICES ASSUME LInv, loop = "is_done", [IterationNext]_iterationVars, loop' = "none"
                PROVE  Cardinality(NeverVisited) <= removals /\ Cardinality(Revisits) <= insertions
    OBVIOUS
  <2>. USE DEF LInv
  <2>1. IsDone
    BY DEF IterationNext, IteratorStep, StartLoop, CurrentItem, NextItem, BodyChanges, ArrayStep,
           BodyEnds, LeaveLoop, iterationVars, loopVars
  <2>2. index >= size /\ index \in Nat /\ size \in Nat /\ pc = "idle"
    BY <2>1 DEF IsDone, Beyond, LoopState, IterationTypeOK, TypeOK
  <2>3. NeverVisited \subseteq Skipped
    BY <2>2 DEF NeverVisited, Skipped, Frontier, PlacesAreApart, LastPlace
  <2>4. /\ Cardinality(NeverVisited) \in Nat /\ Cardinality(Skipped) \in Nat
        /\ Cardinality(NeverVisited) <= Cardinality(Skipped)
    BY <2>3, FiniteSets, Smaller
  <2>5. Cardinality(Revisits) \in Nat /\ Cardinality(Pending) \in Nat
    BY FiniteSets, FS_CardinalityType
  <2>. QED BY <2>4, <2>5 DEF Counts, IterationTypeOK
<1>2. LInv /\ loop = "current_item" /\ [IterationNext]_iterationVars
        => loop' \in {"current_item", "body"}
  BY DEF LInv, IterationNext, IteratorStep, StartLoop, IsDone, CurrentItem, NextItem, BodyChanges,
         ArrayStep, BodyEnds, LeaveLoop, iterationVars, loopVars, LoopState, InBounds,
         IterationTypeOK
<1>. QED BY <1>1, <1>2, LoopInvariance, PTL DEF EachElementOnce, IterationSpec

\* What is shown of arrays holds while foreach runs over them.
THEOREM LoopsStayInBlocks == SmallSteps => (IterationSpec => []CellsFit)
BY LoopsKeepArrays, BlockCorrectness

\* An array that foreach runs over is a list all the same.
THEOREM LoopsKeepPromise == SmallSteps => (IterationSpec => PromiseKept)
BY LoopsKeepArrays, Refinement

=============================================================================
