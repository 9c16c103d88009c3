-------------------------------- MODULE Heap --------------------------------
(***************************************************************************)
(* The heap of the crowbar interpreter (heap.c): objects on a doubly       *)
(* linked list, created and resized by the interpreter, which may run the  *)
(* mark-and-sweep collector before it does so.                             *)
(*                                                                         *)
(* The interpreter around it is reduced to what it does to the roots: the  *)
(* value stack, the environments, a global variable and the exception      *)
(* being thrown. A value is the object it keeps alive, or None. A native   *)
(* pointer is, for the collector, a string of no characters.               *)
(***************************************************************************)
EXTENDS Integers, SequencesExt, ArrayAllocation

CONSTANTS MaxObjects,     \* bound: objects ever created
          MaxStack,       \* bound: values on the stack
          MaxEnvs,        \* bound: local environments
          ArraySizes,     \* sizes a program gives its arrays
          MaxMembers,     \* bound: members of an assoc
          StringLengths,  \* a string's characters, with its terminator; 0: a literal's
          Threshold       \* HEAP_THRESHOLD_SIZE

ASSUME HeapAssumption ==
  /\ {MaxObjects, MaxStack, MaxEnvs, MaxMembers, Threshold} \subseteq Nat
  /\ ArraySizes \subseteq Nat /\ StringLengths \subseteq Nat

\* Objects are named in the order of their creation; no name is used twice.
Object == 1 .. MaxObjects
None == 0
Ref == Object \union {None}

Types == {"array", "string", "assoc", "scope"}

VARIABLES
  created,     \* objects created so far
  allocated,   \* objects whose memory has not been freed
  header,      \* inter->heap.header, the newest object of the list
  next, prev,  \* the links of the list
  marked,      \* obj->marked
  type,        \* obj->type
  cells,       \* the values in an array, an assoc or a scope chain
  capacity,    \* u.array.alloc_size; the characters of a string
  size,        \* inter->heap.current_heap_size
  threshold,   \* inter->heap.current_threshold
  global,      \* the value of a variable of inter->variable
  envs,        \* inter->top_environment, the newest one last
  stack,       \* inter->stack
  exc,         \* inter->current_exception
  pc,          \* where the interpreter, or its collector, is
  op,          \* the heap function called and its arguments
  toMark,      \* objects that calls of gc_mark, active or still to come, are given
  cursor       \* `obj' of the loops over the list

list == <<header, next, prev>>
contents == <<type, cells, capacity>>
roots == <<global, envs, stack, exc>>
collector == <<marked, toMark, cursor>>

vars == <<created, allocated, list, contents, size, threshold, roots, pc, op, collector>>

-----------------------------------------------------------------------------
Environment == [variable : Ref, natives : SUBSET Object]

Operation ==
  [name : {"none", "alloc", "resize", "member", "collect", "dispose"},
   type : Types, dest : {"none", "stack", "native", "variable", "frame"},
   obj : Ref, value : Ref, n : Nat, checks : {0, 1, 2}]

NoOperation ==
  [name |-> "none", type |-> "string", dest |-> "none", obj |-> None, value |-> None,
   n |-> 0, checks |-> 0]

TypeOK ==
  /\ created \in 0 .. MaxObjects
  /\ allocated \subseteq 1 .. created
  /\ header \in Ref /\ next \in [Object -> Ref] /\ prev \in [Object -> Ref]
  /\ marked \in [Object -> BOOLEAN]
  /\ type \in [Object -> Types] /\ cells \in [Object -> Seq(Ref)]
  /\ capacity \in [Object -> Int]
  /\ size \in Int /\ threshold \in Int
  /\ global \in Ref /\ exc \in Ref
  /\ envs \in Seq(Environment) /\ stack \in Seq(Ref)
  /\ pc \in {"run", "check", "reset", "mark", "sweep", "commit", "disposed"}
  /\ op \in Operation
  /\ toMark \subseteq Object /\ cursor \in Ref

Init ==
  /\ created = 0 /\ allocated = {} /\ header = None
  /\ next = [o \in Object |-> None] /\ prev = [o \in Object |-> None]
  /\ marked = [o \in Object |-> FALSE]
  /\ type = [o \in Object |-> "string"] /\ cells = [o \in Object |-> <<>>]
  /\ capacity = [o \in Object |-> 0]
  /\ size = 0 /\ threshold = Threshold
  /\ global = None /\ envs = <<>> /\ stack = <<>> /\ exc = None
  /\ pc = "run" /\ op = NoOperation
  /\ toMark = {} /\ cursor = None

\* The objects the interpreter holds on to: by a variable, an environment and what its
\* native function has created, the stack and the exception being thrown.
Roots ==
  ({global, exc} \union Range(stack)
     \union UNION {{envs[i].variable} \union envs[i].natives : i \in DOMAIN envs}) \ {None}

\* The objects that o refers to.
Children(o) == (IF type[o] = "string" THEN {} ELSE Range(cells[o])) \ {None}

-----------------------------------------------------------------------------
(* The interpreter: what it does to its roots.                             *)

Push(v) == stack' = Append(stack, v) /\ Len(stack) < MaxStack

\* An expression fetches a variable, an element or member of the object it has just
\* evaluated, or, as a closure, the scope chain it runs in.
Fetch ==
  /\ pc = "run"
  /\ \/ Push(global)
     \/ envs # <<>> /\ Push(Last(envs).variable)
     \/ /\ stack # <<>> /\ Last(stack) # None /\ type[Last(stack)] # "string"
        /\ \E v \in Range(cells[Last(stack)]) : stack' = Append(Front(stack), v)
  /\ UNCHANGED <<created, allocated, list, contents, size, threshold, global, envs, exc, pc, op,
                 collector>>

Discard ==
  /\ pc = "run" /\ stack # <<>>
  /\ stack' = Front(stack)
  /\ UNCHANGED <<created, allocated, list, contents, size, threshold, global, envs, exc, pc, op,
                 collector>>

\* The value on top of the stack is assigned to the variable, or thrown.
AssignVariable ==
  /\ pc = "run" /\ stack # <<>>
  /\ global' = Last(stack)
  /\ UNCHANGED <<created, allocated, list, contents, size, threshold, envs, stack, exc, pc, op,
                 collector>>

Throw ==
  /\ pc = "run" /\ stack # <<>>
  /\ exc' = Last(stack) /\ stack' = Front(stack)
  /\ UNCHANGED <<created, allocated, list, contents, size, threshold, global, envs, pc, op,
                 collector>>

Catch ==
  /\ pc = "run" /\ exc # None
  /\ Push(exc) /\ exc' = None
  /\ UNCHANGED <<created, allocated, list, contents, size, threshold, global, envs, pc, op,
                 collector>>

\* What the code can name without leaving anything on the stack, in one step from a
\* global variable or from the scopes it runs in: the object of an lvalue.
Named ==
  LET scopes == (IF envs = <<>> THEN {} ELSE {Last(envs).variable}) \ {None}
      direct == ({global} \ {None}) \union UNION {Children(o) : o \in scopes}
  IN  direct \union UNION {Children(o) : o \in direct}

\* An element is assigned the value on top of the stack.
AssignElement ==
  /\ pc = "run" /\ stack # <<>>
  /\ \E o \in Named : \E i \in DOMAIN cells[o] :
       /\ type[o] \in {"array", "assoc"}
       /\ cells' = [cells EXCEPT ![o][i] = Last(stack)]
  /\ UNCHANGED <<created, allocated, list, type, capacity, size, threshold, roots, pc, op,
                 collector>>

\* dispose_local_environment
LeaveEnvironment ==
  /\ pc = "run" /\ envs # <<>>
  /\ envs' = Front(envs)
  /\ UNCHANGED <<created, allocated, list, contents, size, threshold, global, stack, exc, pc, op,
                 collector>>

-----------------------------------------------------------------------------
(* The functions of heap.c the interpreter calls; each starts with         *)
(* check_gc.                                                               *)

Call(operation) == pc' = "check" /\ op' = operation

\* crb_create_..._i leaves its object to its caller, which pushes it;
\* CRB_create_... adds it to the references of the native function that runs.
CreateObject ==
  /\ pc = "run" /\ created < MaxObjects
  /\ \E t \in {"array", "string", "assoc"}, dest \in {"stack", "native"} :
     \E n \in CASE t = "array" -> ArraySizes [] t = "string" -> StringLengths [] OTHER -> {0} :
       /\ dest = "stack" => Len(stack) < MaxStack
       /\ dest = "native" => envs # <<>>
       /\ Call([NoOperation EXCEPT !.name = "alloc", !.type = t, !.dest = dest, !.n = n,
                                   !.checks = 1])
  /\ UNCHANGED <<created, allocated, list, contents, size, threshold, roots, collector>>

\* alloc_local_environment: the environment is on the chain before it has its
\* scope chain, and that before it has its frame. The closure environment is that of
\* the function on top of the stack.
EnterEnvironment ==
  /\ pc = "run" /\ created + 1 < MaxObjects /\ Len(envs) < MaxEnvs
  /\ envs' = Append(envs, [variable |-> None, natives |-> {}])
  /\ \E closure \in (IF stack = <<>> THEN {None} ELSE {None, Last(stack)}) :
       Call([NoOperation EXCEPT !.name = "alloc", !.type = "scope", !.dest = "variable",
                                !.value = closure, !.checks = 1])
  /\ UNCHANGED <<created, allocated, list, contents, size, threshold, global, stack, exc,
                 collector>>

\* CRB_array_resize
ResizeArray ==
  /\ pc = "run" /\ stack # <<>>
  /\ LET o == Last(stack) IN
       /\ o # None /\ type[o] = "array"
       /\ \E n \in ArraySizes :
            Call([NoOperation EXCEPT !.name = "resize", !.obj = o, !.n = n,
                    !.checks = IF NeedsRealloc(capacity[o], n) THEN 2 ELSE 1])
  /\ UNCHANGED <<created, allocated, list, contents, size, threshold, roots, collector>>

\* CRB_add_assoc_member, for an assignment to a member that does not exist yet
AddMember ==
  /\ pc = "run" /\ stack # <<>>
  /\ \E o \in Named :
       /\ type[o] = "assoc" /\ Len(cells[o]) < MaxMembers
       /\ Call([NoOperation EXCEPT !.name = "member", !.obj = o, !.value = Last(stack),
                                   !.checks = 1])
  /\ UNCHANGED <<created, allocated, list, contents, size, threshold, roots, collector>>

\* check_gc
CheckGC ==
  /\ pc = "check"
  /\ IF size > threshold
     THEN pc' = "reset" /\ cursor' = header /\ UNCHANGED op
     ELSE /\ op' = [op EXCEPT !.checks = @ - 1]
          /\ pc' = (IF op.checks = 1 THEN "commit" ELSE "check")
          /\ UNCHANGED cursor
  /\ UNCHANGED <<created, allocated, list, contents, size, threshold, roots, marked, toMark>>

-----------------------------------------------------------------------------
(* The collector. `Passed' ends a check_gc that has collected.             *)

\* What gc_mark_objects visits before anything it leads to.
MarksWithoutException ==
  (({global} \union Range(stack)
     \union UNION {{envs[i].variable} \union envs[i].natives : i \in DOMAIN envs}) \ {None})
MarksAndNull == Roots \union {None}
InitialMarks == Roots

\* gc_reset_mark, for each object of the list
NoReset ==
  /\ pc = "reset" /\ cursor # None
  /\ cursor' = next[cursor]
  /\ UNCHANGED <<created, allocated, list, contents, size, threshold, roots, pc, op, marked,
                 toMark>>
ResetMark ==
  /\ pc = "reset" /\ cursor # None
  /\ marked' = [marked EXCEPT ![cursor] = FALSE]
  /\ cursor' = next[cursor]
  /\ UNCHANGED <<created, allocated, list, contents, size, threshold, roots, pc, op, toMark>>

StartMarking ==
  /\ pc = "reset" /\ cursor = None
  /\ pc' = "mark" /\ toMark' = InitialMarks
  /\ UNCHANGED <<created, allocated, list, contents, size, threshold, roots, op, marked, cursor>>

\* What a call of gc_mark for o leaves to be marked; the calls nest, and any order will do.
VisitAgain(o) == Children(o)
VisitFrameOnly(o) ==
  IF marked[o] THEN {} ELSE IF type[o] = "scope" THEN {cells[o][1]} \ {None} ELSE Children(o)
Visit(o) == IF marked[o] THEN {} ELSE Children(o)

Mark ==
  /\ pc = "mark"
  /\ \E o \in toMark :
       /\ marked' = [marked EXCEPT ![o] = TRUE]
       /\ toMark' = (toMark \ {o}) \union Visit(o)
  /\ UNCHANGED <<created, allocated, list, contents, size, threshold, roots, pc, op, cursor>>

StartSweeping ==
  /\ pc = "mark" /\ toMark = {}
  /\ pc' = "sweep" /\ cursor' = header
  /\ UNCHANGED <<created, allocated, list, contents, size, threshold, roots, op, marked, toMark>>

\* What an object counts for in current_heap_size. sizeof(CRB_Object), of a value, a
\* member and a character are all 1: only whether the same is added and taken away matters.
Cost(o) ==
  1 + (CASE type[o] \in {"array", "string"} -> capacity[o]
         [] type[o] = "assoc" -> Len(cells[o])
         [] OTHER -> 0)

\* gc_sweep_objects takes o out of the list ...
UnlinkForward(o) ==
  /\ header' = (IF prev[o] # None THEN header ELSE next[o])
  /\ next' = [p \in Object |-> IF p = o THEN None
                              ELSE IF p = prev[o] THEN next[o] ELSE next[p]]
  /\ prev' = [prev EXCEPT ![o] = None]
Unlink(o) ==
  /\ header' = (IF prev[o] # None THEN header ELSE next[o])
  /\ next' = [p \in Object |-> IF p = o THEN None
                              ELSE IF p = prev[o] THEN next[o] ELSE next[p]]
  /\ prev' = [p \in Object |-> IF p = o THEN None
                              ELSE IF p = next[o] THEN prev[o] ELSE prev[p]]

\* ... and gc_dispose_object frees it; its memory is overwritten.
DisposeBySize(o) ==
  /\ allocated' = allocated \ {o}
  /\ size' = size - (1 + Len(cells[o]) + IF type[o] = "string" THEN capacity[o] ELSE 0)
  /\ type' = [type EXCEPT ![o] = "string"]
  /\ cells' = [cells EXCEPT ![o] = <<>>]
  /\ capacity' = [capacity EXCEPT ![o] = 0]
Dispose(o) ==
  /\ allocated' = allocated \ {o}
  /\ size' = size - Cost(o)
  /\ type' = [type EXCEPT ![o] = "string"]
  /\ cells' = [cells EXCEPT ![o] = <<>>]
  /\ capacity' = [capacity EXCEPT ![o] = 0]

Sweep ==
  /\ pc = "sweep" /\ cursor # None
  /\ cursor' = next[cursor]
  /\ IF marked[cursor]
     THEN UNCHANGED <<allocated, size, list, contents>>
     ELSE Unlink(cursor) /\ Dispose(cursor)
  /\ UNCHANGED <<created, threshold, roots, pc, op, marked, toMark>>

\* The collection is over: the threshold is set by check_gc, not by
\* CRB_interpret and CRB_dispose_interpreter, which collect unconditionally.
FinishCollection ==
  /\ pc = "sweep" /\ cursor = None
  /\ \/ /\ op.name = "collect"
        /\ pc' = "run" /\ op' = NoOperation /\ UNCHANGED threshold
     \/ /\ op.name = "dispose"
        /\ pc' = "disposed" /\ UNCHANGED <<op, threshold>>
     \/ /\ op.name \notin {"collect", "dispose"}
        /\ threshold' = size + Threshold
        /\ op' = [op EXCEPT !.checks = @ - 1]
        /\ pc' = (IF op.checks = 1 THEN "commit" ELSE "check")
  /\ UNCHANGED <<created, allocated, list, contents, size, roots, collector>>

\* crb_garbage_collect, at the end of CRB_interpret
Collect ==
  /\ pc = "run" /\ stack = <<>> /\ envs = <<>> /\ exc = None
  /\ pc' = "reset" /\ cursor' = header
  /\ op' = [NoOperation EXCEPT !.name = "collect"]
  /\ UNCHANGED <<created, allocated, list, contents, size, threshold, roots, marked, toMark>>

\* release_global_strings
ReleaseVariables == global' = None

\* CRB_dispose_interpreter releases the variables and collects.
DisposeInterpreter ==
  /\ pc = "run" /\ stack = <<>> /\ envs = <<>> /\ exc = None
  /\ ReleaseVariables
  /\ pc' = "reset" /\ cursor' = header
  /\ op' = [NoOperation EXCEPT !.name = "dispose"]
  /\ UNCHANGED <<created, allocated, list, contents, size, threshold, envs, stack, exc, marked,
                 toMark>>

-----------------------------------------------------------------------------
(* What is left to do of the operation after its check_gc.                 *)

\* alloc_object
Link(o) ==
  /\ header' = o
  /\ next' = [next EXCEPT ![o] = header]
  /\ prev' = [p \in Object |-> IF p = o THEN None ELSE IF p = header THEN o ELSE prev[p]]

\* The cells an object is created with: an array's are uninitialised and refer to
\* nothing (MEM_malloc fills them with 0xCC, no value type), a scope chain's are set
\* by alloc_local_environment.
InitialCells ==
  CASE op.type = "array" -> [i \in 1 .. op.n |-> None]
    [] op.type = "scope" -> <<None, None>>
    [] OTHER -> <<>>

\* Where the new object o goes.
Deliver(o) ==
  CASE op.dest = "stack" -> stack' = Append(stack, o) /\ UNCHANGED envs
    [] op.dest = "native" ->
         envs' = [envs EXCEPT ![Len(envs)].natives = @ \union {o}] /\ UNCHANGED stack
    [] op.dest = "variable" ->
         envs' = [envs EXCEPT ![Len(envs)].variable = o] /\ UNCHANGED stack
    [] OTHER -> UNCHANGED <<envs, stack>>

\* The cells after o has been created; a frame is stored in the scope chain of its
\* environment, together with the closure environment.
CellsWith(o) ==
  [p \in Object |->
     IF p = o THEN InitialCells
     ELSE IF op.dest = "frame" /\ p = Last(envs).variable THEN <<o, op.value>>
     ELSE cells[p]]

\* A scope chain is followed by its frame: alloc_local_environment goes on.
AfterCreation ==
  IF op.dest = "variable"
  THEN pc' = "check" /\ op' = [op EXCEPT !.type = "assoc", !.dest = "frame", !.checks = 1]
  ELSE pc' = "run" /\ op' = NoOperation

AllocObject ==
  /\ pc = "commit" /\ op.name = "alloc" /\ created < MaxObjects
  /\ LET o == created + 1 IN
       /\ created' = o
       /\ allocated' = allocated \union {o}
       /\ Link(o)
       /\ marked' = [marked EXCEPT ![o] = FALSE]
       /\ type' = [type EXCEPT ![o] = op.type]
       /\ cells' = CellsWith(o)
       /\ capacity' = [capacity EXCEPT ![o] = op.n]
       /\ size' = size + 1 + op.n
       /\ Deliver(o)
  /\ AfterCreation
  /\ UNCHANGED <<threshold, global, exc, toMark, cursor>>

\* The rest of CRB_array_resize; new cells are null.
Resized(c, n) == [i \in 1 .. n |-> IF i <= Len(c) THEN c[i] ELSE None]

ReallocArray ==
  /\ pc = "commit" /\ op.name = "resize"
  /\ LET o == op.obj
         alloc == NewAllocSize(capacity[o], op.n) IN
       /\ cells' = [cells EXCEPT ![o] = Resized(@, op.n)]
       /\ capacity' = [capacity EXCEPT ![o] = alloc]
       /\ size' = size + (alloc - capacity[o])
  /\ pc' = "run" /\ op' = NoOperation
  /\ UNCHANGED <<created, allocated, list, type, threshold, roots, collector>>

\* The rest of CRB_add_assoc_member
AppendMember ==
  /\ pc = "commit" /\ op.name = "member"
  /\ cells' = [cells EXCEPT ![op.obj] = Append(@, op.value)]
  /\ size' = size + 1
  /\ pc' = "run" /\ op' = NoOperation
  /\ UNCHANGED <<created, allocated, list, type, capacity, threshold, roots, collector>>

Disposed == pc = "disposed" /\ UNCHANGED vars

-----------------------------------------------------------------------------
Mutator ==
  \/ Fetch \/ Discard \/ AssignVariable \/ AssignElement \/ Throw \/ Catch \/ LeaveEnvironment
  \/ CreateObject \/ EnterEnvironment \/ ResizeArray \/ AddMember \/ Collect
  \/ DisposeInterpreter

Collector == CheckGC \/ ResetMark \/ StartMarking \/ Mark \/ StartSweeping \/ Sweep
               \/ FinishCollection

Commit == AllocObject \/ ReallocArray \/ AppendMember

Next == Mutator \/ Collector \/ Commit \/ Disposed

Spec == Init /\ [][Next]_vars

-----------------------------------------------------------------------------
(* Properties.                                                             *)

Closed(S) == \A o \in S : Children(o) \subseteq S

\* What the program can still get at, now and after any sequence of its steps.
Reachable ==
  LET start == Roots
      closed == {S \in SUBSET Object : start \subseteq S /\ Closed(S)}
  IN  {o \in Object : \A S \in closed : o \in S}

\* An object the program can get at has not been freed, and neither have the arguments
\* of the heap function that is waiting for a collection (heap.c:13-17, 172-194).
NothingInUseIsFreed ==
  Reachable \union ({op.obj, op.value} \ {None}) \subseteq allocated

\* A collection frees everything the program has lost, cycles included: when the sweep
\* is over, only objects in use are left.
GarbageIsFreed == [][pc = "sweep" /\ pc' # "sweep" => allocated = Reachable]_vars

\* heap.header and the links are exactly the objects not freed yet, newest first,
\* whatever has been unlinked (heap.c:34-39, 756-763).
ListIsExact ==
  /\ header \in allocated \union {None} /\ \A p \in allocated : p <= header
  /\ \A o \in allocated :
       /\ next[o] \in allocated \union {None} /\ next[o] < o
       /\ \A p \in allocated : p < o => p <= next[o]
       /\ IF o = header THEN prev[o] = None ELSE prev[o] \in allocated /\ prev[o] > o
       /\ \A p \in allocated : p > o => prev[o] # None /\ p >= prev[o]

\* DBG_assert(interpreter->heap.current_heap_size == 0, ...) (interface.c:221)
NothingLeaks == pc = "disposed" => size = 0

\* current_heap_size is the size of the objects not freed, after every growth,
\* shrinking and disposal, and nothing is left of it at the end.
SizeIsExact == size = MapThenSumSet(Cost, allocated) /\ NothingLeaks

\* The heap keeps the promise of Memory: what is in use is never freed, and what the
\* program has lost it never gets at again.
Promise == INSTANCE Memory WITH inUse <- Reachable
PromiseKept == Promise!Behaviour

\* gc_mark comes to an end, on cyclic objects too: each of its calls marks one more
\* object or has nothing left to do but to return.
Unmarked == {o \in Object : ~marked[o]}

MarkingEnds ==
  [][pc = "mark" /\ pc' = "mark" =>
       \/ Unmarked' \subseteq Unmarked /\ Unmarked' # Unmarked
       \/ Unmarked' = Unmarked /\ toMark' \subseteq toMark /\ toMark' # toMark]_vars

=============================================================================
