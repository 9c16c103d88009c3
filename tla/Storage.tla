------------------------------ MODULE Storage -------------------------------
(***************************************************************************)
(* Storages (memory/storage.c), from which the interpreter takes memory it *)
(* never gives back one by one: the syntax tree and the interpreter itself *)
(* from the one, the global variables from the other. A storage cuts what  *)
(* is asked for out of pages, which are blocks of module Blocks, as are    *)
(* those that the rest of the program allocates, resizes and frees.        *)
(***************************************************************************)
EXTENDS Blocks

CONSTANTS Storages,     \* the storages a program opens
          CellSize,     \* CELL_SIZE
          Overhead,     \* bytes of a page before its first cell
          PageSize,     \* current_page_size: the cells of a page
          StorageSize,  \* sizeof(struct MEM_Storage_tag)
          BlockSizes,   \* sizes of the other blocks
          Requests      \* sizes asked of a storage

ASSUME SizesAssumption ==
  /\ CellSize \in Nat \ {0} /\ PageSize \in Nat \ {0}
  /\ Overhead \in Nat /\ StorageSize \in Nat
  /\ BlockSizes \subseteq Nat /\ Requests \subseteq Nat \ {0}

VARIABLES self,    \* of each storage: the block of its MEM_Storage_tag, or Null
          pages,   \* its page_list, the newest page first
          closing, \* whether MEM_dispose_storage_func is at work on it
          objects, \* history: what it has handed out
          own      \* history: the blocks of the rest of the program

vars == <<chain, used, order, mode, self, pages, closing, objects, own>>

-----------------------------------------------------------------------------
Pages == [block : Addresses, cell_num : Nat, use_cell_num : Nat]
Objects == [page : Addresses, first : Nat, size : Nat]

TypeOK ==
  /\ BlocksTypeOK
  /\ self \in [Storages -> Pointers]
  /\ pages \in [Storages -> Seq(Pages)]
  /\ closing \in [Storages -> BOOLEAN]
  /\ \A s \in Storages : objects[s] \subseteq Objects
  /\ own \subseteq Addresses

Init ==
  /\ BlocksInit
  /\ self = [s \in Storages |-> Null]
  /\ pages = [s \in Storages |-> <<>>]
  /\ closing = [s \in Storages |-> FALSE]
  /\ objects = [s \in Storages |-> {}]
  /\ own = {}

\* The interpreter is one thread: nothing else happens while a storage is disposed of.
Idle == \A s \in Storages : ~closing[s]

-----------------------------------------------------------------------------
(* The rest of the program.                                                *)

Malloc ==
  /\ Idle
  /\ \E a \in Addresses, size \in BlockSizes :
       MallocBlock(a, size) /\ own' = own \union {a}
  /\ UNCHANGED <<self, pages, closing, objects>>

Realloc ==
  /\ Idle
  /\ \E p \in own, a \in Addresses, size \in BlockSizes :
       ReallocBlock(p, a, size) /\ own' = (own \ {p}) \union {a}
  /\ UNCHANGED <<self, pages, closing, objects>>

Free ==
  /\ Idle
  /\ \E p \in own : FreeBlock(p) /\ own' = own \ {p}
  /\ UNCHANGED <<self, pages, closing, objects>>

Fault ==
  /\ BadMark \/ OutOfMemory \/ Overrun
  /\ UNCHANGED <<self, pages, closing, objects, own>>

-----------------------------------------------------------------------------
\* MEM_open_storage_func
Open(s) ==
  /\ Idle /\ self[s] = Null
  /\ \E a \in Addresses : MallocBlock(a, StorageSize) /\ self' = [self EXCEPT ![s] = a]
  /\ UNCHANGED <<pages, closing, objects, own>>

Cells(size) == (size - 1) \div CellSize + 1

\* There is room for n cells on the newest page of s.
HasSomeRoom(s, n) ==
  /\ pages[s] # <<>>
  /\ pages[s][1].use_cell_num < pages[s][1].cell_num
HasRoom(s, n) ==
  /\ pages[s] # <<>>
  /\ pages[s][1].use_cell_num + n < pages[s][1].cell_num

HandOut(s, page, first, size) ==
  objects' = [objects EXCEPT ![s] = @ \union {[page |-> page, first |-> first, size |-> size]}]

\* MEM_storage_malloc_func, from the page it has
MallocFromPage(s, size) ==
  LET page == pages[s][1] IN
  /\ Idle /\ mode = "run" /\ self[s] # Null
  /\ HasRoom(s, Cells(size))
  /\ HandOut(s, page.block, page.use_cell_num, size)
  /\ pages' = [pages EXCEPT ![s][1].use_cell_num = @ + Cells(size)]
  /\ UNCHANGED <<blockVars, self, closing, own>>

\* The cells of a new page for an object of n cells: alloc_cell_num
AlwaysOnePage(n) == PageSize
NewPageCells(n) == IF n > PageSize THEN n ELSE PageSize

\* MEM_storage_malloc_func, from a new page
MallocNewPage(s, size) ==
  LET n == NewPageCells(Cells(size)) IN
  /\ Idle /\ self[s] # Null
  /\ ~HasRoom(s, Cells(size))
  /\ \E a \in Addresses :
       /\ MallocBlock(a, Overhead + CellSize * n)
       /\ pages' = [pages EXCEPT ![s] =
                      <<[block |-> a, cell_num |-> n, use_cell_num |-> Cells(size)]>> \o @]
       /\ HandOut(s, a, 0, size)
  /\ UNCHANGED <<self, closing, own>>

\* MEM_dispose_storage_func frees the pages from the list, and then the storage.
Dispose(s) ==
  /\ Idle /\ mode = "run" /\ self[s] # Null
  /\ closing' = [closing EXCEPT ![s] = TRUE]
  /\ objects' = [objects EXCEPT ![s] = {}]
  /\ UNCHANGED <<blockVars, self, pages, own>>

FreePage(s) ==
  /\ closing[s] /\ pages[s] # <<>>
  /\ FreeBlock(pages[s][1].block)
  /\ pages' = [pages EXCEPT ![s] = Tail(@)]
  /\ UNCHANGED <<self, closing, objects, own>>

OnlyTheLast(s) == Len(pages[s]) <= 1
NoPages(s) == pages[s] = <<>>

FreeStorage(s) ==
  /\ closing[s] /\ NoPages(s)
  /\ FreeBlock(self[s])
  /\ self' = [self EXCEPT ![s] = Null]
  /\ closing' = [closing EXCEPT ![s] = FALSE]
  /\ UNCHANGED <<pages, objects, own>>

Stopped == mode # "run" /\ UNCHANGED vars

Next ==
  \/ Malloc \/ Realloc \/ Free \/ Fault \/ Stopped
  \/ \E s \in Storages :
       \/ Open(s) \/ Dispose(s) \/ FreePage(s) \/ FreeStorage(s)
       \/ \E size \in Requests : MallocFromPage(s, size) \/ MallocNewPage(s, size)

Spec == Init /\ [][Next]_vars

-----------------------------------------------------------------------------
(* Properties.                                                             *)

\* The bytes of the page's block that object o has
Bytes(o) == Overhead + CellSize * o.first + 1 .. Overhead + CellSize * o.first + o.size

Overlap(o, p) == o.page = p.page /\ Bytes(o) \intersect Bytes(p) # {}

\* Nothing that a storage has handed out shares memory with anything else, or goes
\* beyond the block of its page (storage.c:57-80).
ObjectsAreApart ==
  \A s \in Storages : \A o \in objects[s] :
    /\ o.page \in used /\ Bytes(o) \subseteq 1 .. chain.header[o.page].size
    /\ o.page \notin own
    /\ \A t \in Storages : \A p \in objects[t] : Overlap(o, p) => o = p /\ s = t

BlocksOf(s) == ({self[s]} \ {Null}) \union {pages[s][i].block : i \in 1 .. Len(pages[s])}

\* Every block in use belongs to a storage that is open or to the rest of the
\* program: a storage that has been disposed of leaves nothing to MEM_dump_blocks.
NothingIsLost ==
  /\ used = own \union UNION {BlocksOf(s) : s \in Storages}
  /\ \A s \in Storages : self[s] = Null => pages[s] = <<>>
=============================================================================
