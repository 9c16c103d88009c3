--------------------------- MODULE ArrayAllocation ---------------------------
(* How CRB_array_resize (heap.c) chooses the memory of an array.           *)
EXTENDS Integers

CONSTANT ArrayAllocSize  \* ARRAY_ALLOC_SIZE

ASSUME ArrayAllocSizeAssumption == ArrayAllocSize \in Nat \ {0}

NeedsRealloc(alloc, n) == n > alloc \/ alloc - n > ArrayAllocSize

\* The memory doubles; where that is too little, it is the size asked for and ArrayAllocSize
\* more, and where that is too much, ArrayAllocSize more than before.
Doubled(alloc, n) == IF NeedsRealloc(alloc, n) THEN 2 * alloc ELSE alloc
NewAllocSize(alloc, n) ==
  CASE ~NeedsRealloc(alloc, n)     -> alloc
    [] n <= alloc                  -> n
    [] n > alloc /\ 2 * alloc < n  -> n + ArrayAllocSize
    [] OTHER -> IF alloc > ArrayAllocSize THEN alloc + ArrayAllocSize ELSE 2 * alloc
=============================================================================
