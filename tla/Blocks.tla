------------------------------- MODULE Blocks -------------------------------
(***************************************************************************)
(* The allocator of the debug build (memory/memory.c): every block that    *)
(* MEM_malloc hands out has a header in front, by which it is chained to   *)
(* all the others in use, and marks around it that show when a program has *)
(* written beyond its ends.                                                *)
(***************************************************************************)
EXTENDS Naturals, SequencesExt

CONSTANTS Addresses, \* places at which malloc and realloc can put a block
          Null       \* NULL

ASSUME NullAssumption == Null \notin Addresses

VARIABLES chain, \* controller->block_header, and the headers of the blocks
          used,  \* blocks that malloc has handed out and free not taken back
          order, \* history: those, the latest first
          mode   \* "exit": malloc has failed; "abort": a bad mark was found

blockVars == <<chain, used, order, mode>>

-----------------------------------------------------------------------------
Pointers == Addresses \union {Null}

\* HeaderStruct; mark is whether the marks before and after the block are intact.
Header(pointers) == [size : Nat, prev : pointers, next : pointers, mark : BOOLEAN]

\* Memory is filled with 0xCC before it is used and when it is freed; set_header
\* then sets the size and the marks.
Filled == "0xCC"
NewHeader(size) == [size |-> size, prev |-> Filled, next |-> Filled, mark |-> TRUE]
NoHeader == [size |-> 0, prev |-> Filled, next |-> Filled, mark |-> FALSE]

BlocksTypeOK ==
  /\ chain \in [first : Pointers, header : [Addresses -> Header(Pointers \union {Filled})]]
  /\ used \subseteq Addresses
  /\ \A a \in used : chain.header[a] \in Header(Pointers)
  /\ order \in Seq(Addresses)
  /\ mode \in {"run", "exit", "abort"}

BlocksInit ==
  /\ chain = [first |-> Null, header |-> [a \in Addresses |-> NoHeader]]
  /\ used = {} /\ order = <<>> /\ mode = "run"

-----------------------------------------------------------------------------
(* The doubly linked list.                                                 *)

SetPrev(header, a, p) == IF a = Null THEN header ELSE [header EXCEPT ![a].prev = p]
SetNext(header, a, n) == IF a = Null THEN header ELSE [header EXCEPT ![a].next = n]

ChainBlock(c, a) ==
  [first  |-> a,
   header |-> [SetPrev(c.header, c.first, a) EXCEPT ![a].prev = Null, ![a].next = c.first]]

\* The neighbours of a, or the list, now point to a: at its new place.
HeadForgotten(c, a) ==
  [first  |-> c.first,
   header |-> SetNext(SetPrev(c.header, c.header[a].next, a), c.header[a].prev, a)]
RechainBlock(c, a) ==
  [first  |-> IF c.header[a].prev = Null THEN a ELSE c.first,
   header |-> SetNext(SetPrev(c.header, c.header[a].next, a), c.header[a].prev, a)]

\* The neighbours of a now point to each other.
OneWay(c, a) ==
  [first  |-> IF c.header[a].prev = Null THEN c.header[a].next ELSE c.first,
   header |-> SetNext(c.header, c.header[a].prev, c.header[a].next)]
UnchainBlock(c, a) ==
  [first  |-> IF c.header[a].prev = Null THEN c.header[a].next ELSE c.first,
   header |-> SetNext(SetPrev(c.header, c.header[a].next, c.header[a].prev),
                      c.header[a].prev, c.header[a].next)]

SetHeader(c, a, header) == [c EXCEPT !.header[a] = header]

\* The blocks that MEM_dump_blocks_func finds, following next from block_header
Listed ==
  {a \in Addresses :
     \A S \in SUBSET Addresses :
       /\ chain.first \in S \union {Null}
       /\ \A b \in S : chain.header[b].next \in S \union {Null}
       => a \in S}

-----------------------------------------------------------------------------
\* check_mark
Unchecked(a) == TRUE
CheckMark(a) == chain.header[a].mark

Place(a) == CHOOSE i \in 1 .. Len(order) : order[i] = a

\* MEM_malloc_func, MEM_strdup_func, and MEM_realloc_func with NULL
MallocBlock(a, size) ==
  /\ mode = "run" /\ a \in Addresses \ used
  /\ chain' = ChainBlock(SetHeader(chain, a, NewHeader(size)), a)
  /\ used' = used \union {a}
  /\ order' = <<a>> \o order
  /\ UNCHANGED mode

\* MEM_realloc_func: realloc may leave the block p where it is, or move it to a;
\* the header goes with it.
ReallocBlock(p, a, size) ==
  /\ mode = "run" /\ p \in used /\ a \in {p} \union (Addresses \ used)
  /\ CheckMark(p)
  /\ LET old_header == chain.header[p]
         moved == SetHeader(SetHeader(UnchainBlock(chain, p), p, NoHeader),
                            a, [old_header EXCEPT !.size = size, !.mark = TRUE]) IN
       chain' = RechainBlock(moved, a)
  /\ used' = (used \ {p}) \union {a}
  /\ order' = ReplaceAt(order, Place(p), a)
  /\ UNCHANGED mode

\* MEM_free_func
FreeBlock(p) ==
  /\ mode = "run" /\ p \in used
  /\ CheckMark(p)
  /\ chain' = SetHeader(UnchainBlock(chain, p), p, NoHeader)
  /\ used' = used \ {p}
  /\ order' = RemoveAt(order, Place(p))
  /\ UNCHANGED mode

\* check_mark_sub finds a bad mark, when a block is freed or resized, or when
\* MEM_dump_blocks lists the blocks.
BadMark ==
  /\ mode = "run"
  /\ \E a \in used \union Listed : ~CheckMark(a)
  /\ mode' = "abort"
  /\ UNCHANGED <<chain, used, order>>

\* error_handler: MEM_FAIL_AND_EXIT is the mode of the only controller in use.
OutOfMemory ==
  /\ mode = "run"
  /\ mode' = "exit"
  /\ UNCHANGED <<chain, used, order>>

\* Code writes next to one of its blocks (as the resize method can, module Arrays).
Overrun ==
  /\ mode = "run"
  /\ \E a \in used : chain' = [chain EXCEPT !.header[a].mark = FALSE]
  /\ UNCHANGED <<used, order, mode>>

-----------------------------------------------------------------------------
(* Properties.                                                             *)

Follows(i) == IF i = Len(order) THEN Null ELSE order[i + 1]
Precedes(i) == IF i = 1 THEN Null ELSE order[i - 1]

\* Whatever is allocated, moved by realloc and freed in between, the headers chain
\* the blocks in use to each other both ways, the latest first, each once; a block
\* that is resized keeps its place (memory.c:74-113, 197-228).
ChainIsExact ==
  /\ used = {order[i] : i \in 1 .. Len(order)}
  /\ \A i, j \in 1 .. Len(order) : order[i] = order[j] => i = j
  /\ chain.first = IF order = <<>> THEN Null ELSE order[1]
  /\ \A i \in 1 .. Len(order) :
       /\ chain.header[order[i]].next = Follows(i)
       /\ chain.header[order[i]].prev = Precedes(i)

\* What main() lists at its end is what was not released, all of it and nothing that
\* was (MEM_dump_blocks_func).
DumpIsExact == Listed = used

\* A block with a damaged mark is never released, resized or handed out again: the
\* program is aborted first.
DamageIsCaught ==
  [][\A a \in used : ~chain.header[a].mark =>
       a \in used' /\ chain'.header[a].size = chain.header[a].size
         /\ ~chain'.header[a].mark]_blockVars
=============================================================================
