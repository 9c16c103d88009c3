----------------------------- MODULE HeapProofs -----------------------------
(***************************************************************************)
(* Proofs about Heap, for every number of objects, size of arrays and      *)
(* threshold.                                                              *)
(*                                                                         *)
(* What is in use is the least set that holds the roots and is closed      *)
(* under references. So a set of objects that is closed and holds the      *)
(* roots contains all of it (marking misses nothing), and what the         *)
(* collector marks never leaves it (marking keeps no garbage); neither     *)
(* direction needs an induction over paths.                                *)
(***************************************************************************)
EXTENDS Heap, LeastNumber, SequenceTheorems, FiniteSetTheorems

-----------------------------------------------------------------------------
(* Sequences.                                                              *)

\* What popping a value leaves.
LEMMA FrontAndLast ==
  ASSUME NEW S, NEW s \in Seq(S), s # <<>>
  PROVE  /\ Last(s) \in S /\ Last(s) \in Range(s)
         /\ Front(s) \in Seq(S) /\ Range(Front(s)) \subseteq Range(s)
<1>1. Len(s) \in Nat \ {0} /\ DOMAIN s = 1 .. Len(s) /\ \A i \in 1 .. Len(s) : s[i] \in S
  BY EmptySeq, LenProperties
<1>2. Last(s) \in S /\ Last(s) \in Range(s)
  BY <1>1 DEF Last, Range
<1>3. /\ Front(s) \in Seq(S)
      /\ Len(Front(s)) = Len(s) - 1
      /\ \A i \in 1 .. Len(s) - 1 : Front(s)[i] = s[i]
  <2>1. \A i \in 1 .. Len(s) - 1 : s[i] \in S
    BY <1>1
  <2>2. 1 \in Int /\ Len(s) - 1 \in Int
    BY <1>1
  <2>3. /\ SubSeq(s, 1, Len(s) - 1) \in Seq(S)
        /\ Len(SubSeq(s, 1, Len(s) - 1)) = IF 1 <= Len(s) - 1 THEN Len(s) - 1 - 1 + 1 ELSE 0
        /\ \A i \in 1 .. Len(s) - 1 - 1 + 1 : SubSeq(s, 1, Len(s) - 1)[i] = s[1 + i - 1]
    BY ONLY <2>1, <2>2, SubSeqProperties
  <2>. QED BY <2>3, <1>1 DEF Front
<1>4. Range(Front(s)) \subseteq Range(s)
  BY <1>1, <1>3, LenProperties DEF Range
<1>. QED BY <1>2, <1>3, <1>4

LEMMA FrontOfSeq ==
  ASSUME NEW S, NEW s \in Seq(S), s # <<>>
  PROVE  DOMAIN Front(s) \subseteq DOMAIN s /\ \A i \in DOMAIN Front(s) : Front(s)[i] = s[i]
<1>1. Len(s) \in Nat \ {0} /\ DOMAIN s = 1 .. Len(s) /\ \A i \in 1 .. Len(s) : s[i] \in S
  BY EmptySeq, LenProperties
<1>2. \A i \in 1 .. Len(s) - 1 : s[i] \in S
  BY <1>1
<1>3. 1 \in Int /\ Len(s) - 1 \in Int
  BY <1>1
<1>4. /\ SubSeq(s, 1, Len(s) - 1) \in Seq(S)
      /\ Len(SubSeq(s, 1, Len(s) - 1)) = IF 1 <= Len(s) - 1 THEN Len(s) - 1 - 1 + 1 ELSE 0
      /\ \A i \in 1 .. Len(s) - 1 - 1 + 1 : SubSeq(s, 1, Len(s) - 1)[i] = s[1 + i - 1]
  BY ONLY <1>2, <1>3, SubSeqProperties
<1>. QED BY <1>1, <1>4, LenProperties DEF Front

\* What pushing a value adds.
LEMMA RangeOfAppend ==
  ASSUME NEW S, NEW s \in Seq(S), NEW v \in S
  PROVE  /\ Append(s, v) \in Seq(S)
         /\ Range(Append(s, v)) = Range(s) \union {v}
<1>1. Append(s, v) \in Seq(S) /\ Len(Append(s, v)) = Len(s) + 1 /\ Len(s) \in Nat
      /\ DOMAIN Append(s, v) = 1 .. Len(s) + 1 /\ DOMAIN s = 1 .. Len(s)
  OBVIOUS
<1>2. Append(s, v)[Len(s) + 1] = v /\ \A i \in 1 .. Len(s) : Append(s, v)[i] = s[i]
  OBVIOUS
<1>3. ASSUME NEW x \in Range(Append(s, v)) PROVE x \in Range(s) \union {v}
  BY <1>1, <1>2 DEF Range
<1>4. ASSUME NEW x \in Range(s) \union {v} PROVE x \in Range(Append(s, v))
  <2>1. CASE x = v
    BY <2>1, <1>1, <1>2 DEF Range
  <2>2. CASE x \in Range(s)
    <3>1. PICK i \in 1 .. Len(s) : x = s[i]
      BY <2>2, <1>1 DEF Range
    <3>. QED BY <3>1, <1>1, <1>2 DEF Range
  <2>. QED BY <2>1, <2>2, <1>4
<1>. QED BY <1>1, <1>3, <1>4

\* What an assignment to an element changes.
LEMMA RangeOfExcept ==
  ASSUME NEW S, NEW s \in Seq(S), NEW i \in DOMAIN s, NEW v \in S
  PROVE  /\ [s EXCEPT ![i] = v] \in Seq(S)
         /\ Range([s EXCEPT ![i] = v]) \subseteq Range(s) \union {v}
<1>1. i \in 1 .. Len(s) /\ DOMAIN s = 1 .. Len(s)
  BY LenProperties
<1>2. [s EXCEPT ![i] = v] \in Seq(S)
  BY <1>1, ExceptSeq
<1>. QED BY <1>1, <1>2 DEF Range

\* The cells of a new array, and those of a resized one.
LEMMA RangeOfTuple ==
  ASSUME NEW S, NEW n \in Nat, NEW f \in [1 .. n -> S]
  PROVE  f \in Seq(S) /\ Range(f) \subseteq S
BY SeqDef DEF Range

-----------------------------------------------------------------------------
(* What is in use.                                                         *)

LEMMA RootsAreObjects ==
  ASSUME TypeOK
  PROVE  Roots \subseteq Object /\ \A o \in Object : Children(o) \subseteq Object
<1>1. Range(stack) \subseteq Ref /\ \A o \in Object : Range(cells[o]) \subseteq Ref
  BY RangeOfSeq DEF TypeOK
<1>2. \A i \in DOMAIN envs : envs[i].variable \in Ref /\ envs[i].natives \subseteq Object
  <2>1. SUFFICES ASSUME NEW i \in DOMAIN envs PROVE envs[i] \in Environment
    BY <2>1 DEF Environment
  <2>2. envs \in Seq(Environment)
    BY DEF TypeOK
  <2>. QED BY <2>2, LenProperties, ElementOfSeq
<1>. QED BY <1>1, <1>2 DEF Roots, Children, TypeOK, Ref

\* The objects in use hold the roots and what they refer to.
LEMMA ReachableIsClosed ==
  TypeOK => Reachable \subseteq Object /\ Roots \subseteq Reachable /\ Closed(Reachable)
BY RootsAreObjects DEF Reachable, Closed

LEMMA ReachableIsClosedNext ==
  (TypeOK => Reachable \subseteq Object /\ Roots \subseteq Reachable /\ Closed(Reachable))'
BY ReachableIsClosed, PTL

\* They are the fewest that do.
LEMMA ReachableIsLeast ==
  ASSUME NEW S \in SUBSET Object, Roots \subseteq S, Closed(S)
  PROVE  Reachable \subseteq S
BY DEF Reachable

LEMMA ReachableIsLeastNext ==
  ASSUME NEW S \in SUBSET Object, Roots' \subseteq S, \A o \in S : Children(o)' \subseteq S
  PROVE  Reachable' \subseteq S
BY DEF Reachable, Closed

\* Steps that leave all references alone.
LEMMA SameReferences ==
  ASSUME UNCHANGED <<roots, contents>>
  PROVE  Roots' = Roots /\ Reachable' = Reachable /\ \A o : Children(o)' = Children(o)
BY DEF roots, contents, Roots, Children, Reachable, Closed

\* Steps that change roots only, to what was already in use.
LEMMA RootsWithinReachable ==
  ASSUME TypeOK, UNCHANGED contents, Roots' \subseteq Reachable
  PROVE  Reachable' \subseteq Reachable
<1>1. Reachable \in SUBSET Object /\ \A o \in Reachable : Children(o) \subseteq Reachable
  BY ReachableIsClosed DEF Closed
<1>2. \A o \in Reachable : Children(o)' \subseteq Reachable
  BY <1>1 DEF contents, Children
<1>. QED BY <1>1, <1>2, ReachableIsLeastNext

-----------------------------------------------------------------------------
(* The inductive invariant.                                                *)

\* The heap function waiting for check_gc has its arguments, and its value is rooted.
OperationInv ==
  /\ pc = "run" => op = NoOperation
  /\ pc \in {"check", "commit"} => op.name \in {"alloc", "resize", "member"}
  /\ pc = "check" => op.checks # 0
  /\ pc \in {"reset", "mark", "sweep"} /\ op.name \notin {"collect", "dispose"} =>
       op.checks # 0 /\ op.name \in {"alloc", "resize", "member"}
  /\ op.name \in {"resize", "member"} => op.obj # None
  /\ op.name = "alloc" => op.obj = None
  /\ {op.obj} \ {None} \subseteq Reachable
  /\ {op.value} \ {None} \subseteq Range(stack)
  /\ op.dest \in {"native", "variable", "frame"} => envs # <<>>

\* gc_mark_objects has reset the marks of the list up to the cursor.
ResetInv ==
  pc = "reset" =>
    cursor \in allocated \union {None} /\ \A o \in allocated : o > cursor => ~marked[o]

\* Nothing but what is in use has been or will be marked; what a marked object refers to
\* has been marked or will be.
MarkInv ==
  pc = "mark" =>
    /\ toMark \subseteq Reachable
    /\ \A o \in allocated : marked[o] => o \in Reachable
    /\ \A o \in Roots : marked[o] \/ o \in toMark
    /\ \A o \in Reachable : marked[o] =>
         \A c \in Children(o) : marked[c] \/ c \in toMark

\* The marks are those of the objects in use, and what lies behind the cursor is marked.
SweepInv ==
  pc = "sweep" =>
    /\ cursor \in allocated \union {None}
    /\ \A o \in allocated : marked[o] <=> o \in Reachable
    /\ \A o \in allocated : o > cursor => marked[o]

InUseInv == Reachable \subseteq allocated

IInv ==
  /\ TypeOK /\ ListIsExact /\ OperationInv /\ InUseInv
  /\ ResetInv /\ MarkInv /\ SweepInv

-----------------------------------------------------------------------------
(* Types.                                                                  *)

LEMMA NoOperationType ==
  /\ NoOperation \in Operation
  /\ {"alloc", "resize", "member", "collect", "dispose"}
       \subseteq {"none", "alloc", "resize", "member", "collect", "dispose"}
  /\ {"array", "string", "assoc", "scope"} \subseteq Types
  /\ \A d \in {"stack", "native", "variable", "frame"} :
       d \in {"none", "stack", "native", "variable", "frame"}
  /\ 1 \in {0, 1, 2} /\ 2 \in {0, 1, 2}
BY DEF NoOperation, Operation, Types, Ref

\* What the newest environment is made of.
LEMMA NewestEnvironment ==
  ASSUME TypeOK, envs # <<>>
  PROVE  /\ Len(envs) \in DOMAIN envs /\ DOMAIN envs = 1 .. Len(envs)
         /\ Last(envs) = envs[Len(envs)] /\ Last(envs) \in Environment
         /\ Last(envs).variable \in Ref /\ Last(envs).natives \subseteq Object
<1>1. envs \in Seq(Environment)
  BY DEF TypeOK
<1>2. Len(envs) \in Nat \ {0} /\ DOMAIN envs = 1 .. Len(envs)
  BY <1>1, EmptySeq, LenProperties
<1>3. Last(envs) \in Environment
  BY <1>1, FrontAndLast
<1>4. Last(envs) = envs[Len(envs)]
  BY DEF Last
<1>5. Last(envs).variable \in Ref /\ Last(envs).natives \subseteq Object
  BY <1>3 DEF Environment
<1>. QED BY <1>2, <1>3, <1>4, <1>5

\* What is named by the code that runs is in use.
LEMMA NamedIsReachable ==
  ASSUME TypeOK
  PROVE  Named \subseteq Reachable
<1>1. Reachable \subseteq Object /\ Roots \subseteq Reachable
      /\ \A o \in Reachable : Children(o) \subseteq Reachable
  BY ReachableIsClosed DEF Closed
<1>2. {global} \ {None} \subseteq Roots
  BY DEF Roots
<1>3. (IF envs = <<>> THEN {} ELSE {Last(envs).variable}) \ {None} \subseteq Roots
  <2>1. CASE envs # <<>>
    BY <2>1, NewestEnvironment DEF Roots
  <2>. QED BY <2>1
<1>. QED BY <1>1, <1>2, <1>3 DEF Named

\* Fetch pushes a value that is in use.
LEMMA FetchedValue ==
  ASSUME TypeOK, Fetch
  PROVE  /\ stack' \in Seq(Ref)
         /\ Range(stack') \ {None} \subseteq Reachable
<1>1. Reachable \subseteq Object /\ Roots \subseteq Reachable
      /\ \A o \in Reachable : Children(o) \subseteq Reachable
  BY ReachableIsClosed DEF Closed
<1>2. stack \in Seq(Ref) /\ global \in Ref /\ Range(stack) \ {None} \subseteq Roots
  BY DEF TypeOK, Roots
<1>3. CASE Push(global)
  BY <1>1, <1>2, <1>3, RangeOfAppend DEF Push, Roots
<1>4. CASE envs # <<>> /\ Push(Last(envs).variable)
  <2>1. Last(envs).variable \in Ref /\ {Last(envs).variable} \ {None} \subseteq Roots
    BY <1>4, NewestEnvironment DEF Roots
  <2>. QED BY <1>1, <1>2, <1>4, <2>1, RangeOfAppend DEF Push
<1>5. CASE /\ stack # <<>> /\ Last(stack) # None /\ type[Last(stack)] # "string"
           /\ \E v \in Range(cells[Last(stack)]) : stack' = Append(Front(stack), v)
  <2>1. PICK v \in Range(cells[Last(stack)]) : stack' = Append(Front(stack), v)
    BY <1>5
  <2>2. /\ Last(stack) \in Range(stack)
        /\ Front(stack) \in Seq(Ref) /\ Range(Front(stack)) \subseteq Range(stack)
    BY <1>2, <1>5, FrontAndLast
  <2>3. Last(stack) \in Reachable
    BY <1>1, <1>2, <1>5, <2>2
  <2>4. Children(Last(stack)) = Range(cells[Last(stack)]) \ {None}
    BY <1>5 DEF Children
  <2>5. v = None \/ v \in Reachable
    BY <1>1, <2>1, <2>3, <2>4
  <2>6. v \in Ref
    BY <2>5, <1>1 DEF Ref
  <2>. QED BY <1>1, <1>2, <2>1, <2>2, <2>5, <2>6, RangeOfAppend
<1>. QED BY <1>3, <1>4, <1>5 DEF Fetch

\* The cells a new object gets hold nothing but the arguments of the call.
LEMMA NewCells ==
  ASSUME TypeOK, NEW o \in Object
  PROVE  /\ CellsWith(o) \in [Object -> Seq(Ref)]
         /\ InitialCells \in Seq(Ref) /\ Range(InitialCells) \subseteq {None}
<1>1. op \in Operation /\ cells \in [Object -> Seq(Ref)]
  BY DEF TypeOK
<1>2. op.n \in Nat /\ op.value \in Ref /\ None \in Ref /\ o \in Ref
  BY <1>1 DEF Operation, Ref
<1>3. InitialCells \in Seq(Ref) /\ Range(InitialCells) \subseteq {None}
  <2>1. /\ [i \in 1 .. op.n |-> None] \in Seq({None})
        /\ Range([i \in 1 .. op.n |-> None]) \subseteq {None}
    <3> DEFINE f == [i \in 1 .. op.n |-> None]
    <3>1. f \in [1 .. op.n -> {None}]
      OBVIOUS
    <3>. HIDE DEF f
    <3>2. f \in Seq({None}) /\ Range(f) \subseteq {None}
      BY ONLY <3>1, <1>2, RangeOfTuple
    <3>. QED BY <3>2 DEF f
  <2>2. <<None, None>> \in Seq({None}) /\ Range(<<None, None>>) \subseteq {None}
    <3>1. <<None, None>> \in Seq({None})
      OBVIOUS
    <3>. QED BY <3>1, RangeOfSeq
  <2>3. <<>> \in Seq({None}) /\ Range(<<>>) \subseteq {None}
    <3>1. <<>> \in Seq({None})
      BY EmptySeq
    <3>. QED BY <3>1, RangeOfSeq
  <2>4. InitialCells \in Seq({None}) /\ Range(InitialCells) \subseteq {None}
    BY <2>1, <2>2, <2>3 DEF InitialCells
  <2>. QED BY <2>4, <1>2, SeqMonotonic
<1>4. <<o, op.value>> \in Seq(Ref)
  BY <1>2
<1>5. ASSUME NEW p \in Object PROVE CellsWith(o)[p] \in Seq(Ref)
  BY <1>1, <1>3, <1>4 DEF CellsWith
<1>. QED BY <1>3, <1>5 DEF CellsWith

\* gc_dispose_object overwrites an object.
LEMMA DisposeType ==
  ASSUME TypeOK, NEW o \in Object, Dispose(o)
  PROVE  /\ type' \in [Object -> Types] /\ cells' \in [Object -> Seq(Ref)]
         /\ capacity' \in [Object -> Int] /\ size' \in Int /\ allocated' = allocated \ {o}
<1>1. <<>> \in Seq(Ref) /\ "string" \in Types /\ 0 \in Int
  BY EmptySeq DEF Types
<1>2. Len(cells[o]) \in Int /\ capacity[o] \in Int /\ size \in Int
  BY LenProperties DEF TypeOK
<1>3. Cost(o) \in Int
  BY <1>2 DEF Cost
<1>4. size' \in Int /\ allocated' = allocated \ {o}
  BY <1>2, <1>3 DEF Dispose
<1>. QED BY <1>1, <1>4 DEF Dispose, TypeOK

\* What a call of a heap function hands over.
LEMMA CallType ==
  ASSUME TypeOK, OperationInv, pc = "run"
  PROVE  /\ CreateObject \/ EnterEnvironment \/ ResizeArray \/ AddMember \/ Collect
              \/ DisposeInterpreter => op' \in Operation
         /\ EnterEnvironment => envs' \in Seq(Environment)
<1>1. ASSUME CreateObject PROVE op' \in Operation
  <2>1. PICK t \in {"array", "string", "assoc"}, dest \in {"stack", "native"},
             n \in ArraySizes \union StringLengths \union {0} :
          op' = [NoOperation EXCEPT !.name = "alloc", !.type = t, !.dest = dest, !.n = n,
                                    !.checks = 1]
    BY <1>1 DEF CreateObject, Call
  <2>2. n \in Nat /\ t \in Types
    BY HeapAssumption DEF Types
  <2>3. dest \in {"none", "stack", "native", "variable", "frame"}
    OBVIOUS
  <2>. QED BY <2>1, <2>2, <2>3, NoOperationType, Zenon DEF Operation
<1>2. ASSUME EnterEnvironment PROVE op' \in Operation /\ envs' \in Seq(Environment)
  <2>1. PICK closure \in (IF stack = <<>> THEN {None} ELSE {None, Last(stack)}) :
          op' = [NoOperation EXCEPT !.name = "alloc", !.type = "scope", !.dest = "variable",
                                    !.value = closure, !.checks = 1]
    BY <1>2 DEF EnterEnvironment, Call
  <2>2. closure \in Ref
    <3>1. stack \in Seq(Ref) /\ None \in Ref
      BY DEF TypeOK, Ref
    <3>. QED BY <3>1, FrontAndLast
  <2>3. op' \in Operation
    BY <2>1, <2>2, NoOperationType, Zenon DEF Operation
  <2>4. [variable |-> None, natives |-> {}] \in Environment /\ envs \in Seq(Environment)
    BY DEF Environment, Ref, TypeOK
  <2>. QED BY <2>3, <2>4, <1>2 DEF EnterEnvironment
<1>3. ASSUME ResizeArray PROVE op' \in Operation
  <2>1. PICK n \in ArraySizes, checks \in {1, 2} :
          op' = [NoOperation EXCEPT !.name = "resize", !.obj = Last(stack), !.n = n,
                                    !.checks = checks]
    <3>1. PICK n \in ArraySizes :
            op' = [NoOperation EXCEPT !.name = "resize", !.obj = Last(stack), !.n = n,
                     !.checks = IF NeedsRealloc(capacity[Last(stack)], n) THEN 2 ELSE 1]
      BY <1>3 DEF ResizeArray, Call
    <3>. QED BY <3>1
  <2>2. n \in Nat /\ checks \in {0, 1, 2} /\ Last(stack) \in Ref
    BY <1>3, FrontAndLast, HeapAssumption DEF ResizeArray, TypeOK
  <2>. QED BY <2>1, <2>2, NoOperationType, Zenon DEF Operation
<1>4. ASSUME AddMember PROVE op' \in Operation
  <2>1. PICK o \in Named :
          op' = [NoOperation EXCEPT !.name = "member", !.obj = o, !.value = Last(stack),
                                    !.checks = 1]
    BY <1>4 DEF AddMember, Call
  <2>2. o \in Ref /\ Last(stack) \in Ref
    BY <1>4, FrontAndLast, NamedIsReachable, ReachableIsClosed DEF AddMember, TypeOK, Ref
  <2>. QED BY <2>1, <2>2, NoOperationType, Zenon DEF Operation
<1>5. ASSUME Collect \/ DisposeInterpreter PROVE op' \in Operation
  <2>1. op' \in {[NoOperation EXCEPT !.name = "collect"], [NoOperation EXCEPT !.name = "dispose"]}
    BY <1>5 DEF Collect, DisposeInterpreter
  <2>2. ASSUME NEW name \in {"collect", "dispose"}
        PROVE  [NoOperation EXCEPT !.name = name] \in Operation
    BY NoOperationType, Zenon DEF Operation
  <2>. QED BY <2>1, <2>2
<1>. QED BY <1>1, <1>2, <1>3, <1>4, <1>5

\* A check_gc done: what is left of the operation.
LEMMA CheckedType ==
  ASSUME TypeOK, op.checks # 0
  PROVE  /\ [op EXCEPT !.checks = @ - 1] \in Operation
         /\ [op EXCEPT !.checks = @ - 1].checks = op.checks - 1
         /\ [op EXCEPT !.checks = @ - 1].name = op.name
         /\ [op EXCEPT !.checks = @ - 1].dest = op.dest
         /\ [op EXCEPT !.checks = @ - 1].obj = op.obj
         /\ [op EXCEPT !.checks = @ - 1].value = op.value
<1>1. op \in Operation /\ op.checks - 1 \in {0, 1, 2}
  BY DEF TypeOK, Operation
<1>2. [op EXCEPT !.checks = @ - 1] = [op EXCEPT !.checks = op.checks - 1]
  BY <1>1 DEF Operation
<1>3. [op EXCEPT !.checks = op.checks - 1] \in Operation
  BY <1>1, Zenon DEF Operation
<1>. QED BY <1>1, <1>2, <1>3 DEF Operation

\* The capacity an array is given is a number.
LEMMA CapacityNumber ==
  ASSUME NEW alloc \in Int, NEW n \in Nat
  PROVE  NewAllocSize(alloc, n) \in Int
BY ArrayAllocSizeAssumption DEF NewAllocSize

\* An array keeps its elements as far as they fit, and refers to nothing else.
LEMMA ResizedCells ==
  ASSUME TypeOK, NEW o \in Object, NEW n \in Nat
  PROVE  /\ Resized(cells[o], n) \in Seq(Ref)
         /\ Range(Resized(cells[o], n)) \subseteq Range(cells[o]) \union {None}
<1> DEFINE S == Range(cells[o]) \union {None}
<1>1. cells[o] \in Seq(Ref) /\ S \subseteq Ref
  BY RangeOfSeq DEF TypeOK, Ref
<1>2. \A i \in 1 .. n : i <= Len(cells[o]) => cells[o][i] \in S
  BY <1>1, RangeEquality
<1>3. Resized(cells[o], n) \in [1 .. n -> S]
  BY <1>2 DEF Resized
<1>. HIDE DEF S
<1>4. Resized(cells[o], n) \in Seq(S) /\ Range(Resized(cells[o], n)) \subseteq S
  BY <1>3, RangeOfTuple
<1>5. Resized(cells[o], n) \in Seq(Ref)
  BY <1>1, <1>4, SeqMonotonic
<1>. QED BY <1>4, <1>5 DEF S

\* Where a new object goes.
LEMMA DeliverType ==
  ASSUME TypeOK, OperationInv, pc = "commit", NEW o \in Object, Deliver(o)
  PROVE  /\ stack' \in Seq(Ref) /\ Range(stack) \subseteq Range(stack')
         /\ envs' \in Seq(Environment) /\ Len(envs') = Len(envs)
         /\ Range(stack') \subseteq Range(stack) \union {o}
         /\ \A i \in DOMAIN envs : /\ envs'[i].variable \in {envs[i].variable, o}
                                   /\ envs'[i].natives \subseteq envs[i].natives \union {o}
<1>0. stack \in Seq(Ref) /\ envs \in Seq(Environment) /\ o \in Ref
  BY DEF TypeOK, Ref
<1>1. CASE op.dest = "stack"
  <2>1. stack' = Append(stack, o) /\ envs' = envs
    BY <1>1 DEF Deliver
  <2>2. stack' \in Seq(Ref) /\ Range(stack') = Range(stack) \union {o}
    BY <1>0, <2>1, RangeOfAppend
  <2>. QED BY <1>0, <2>1, <2>2
<1>2. CASE op.dest \in {"native", "variable"}
  <2>1. envs # <<>>
    BY <1>2 DEF OperationInv
  <2>2. Len(envs) \in 1 .. Len(envs) /\ DOMAIN envs = 1 .. Len(envs)
    BY <2>1, NewestEnvironment
  <2> DEFINE e == envs[Len(envs)]
  <2>3. e \in Environment /\ e.natives \subseteq Object /\ e.variable \in Ref
    BY <2>1, NewestEnvironment
  <2>4. PICK f \in {[e EXCEPT !.natives = @ \union {o}], [e EXCEPT !.variable = o]} :
          envs' = [envs EXCEPT ![Len(envs)] = f]
    <3>1. CASE op.dest = "native"
      <4>1. envs' = [envs EXCEPT ![Len(envs)].natives = @ \union {o}]
        BY <3>1 DEF Deliver
      <4>. QED BY <4>1
    <3>2. CASE op.dest = "variable"
      <4>1. envs' = [envs EXCEPT ![Len(envs)].variable = o]
        BY <3>2 DEF Deliver
      <4>. QED BY <4>1
    <3>. QED BY <1>2, <3>1, <3>2
  <2>5. f \in Environment /\ f.variable \in {e.variable, o} /\ f.natives \subseteq e.natives \union {o}
    BY <2>3, <1>0 DEF Environment
  <2>6. envs' \in Seq(Environment) /\ Len(envs') = Len(envs)
        /\ \A i \in 1 .. Len(envs) : envs'[i] = IF i = Len(envs) THEN f ELSE envs[i]
    BY <1>0, <2>2, <2>4, <2>5, ExceptSeq
  <2>7. stack' = stack
    BY <1>2 DEF Deliver
  <2>. QED BY <1>0, <2>2, <2>5, <2>6, <2>7
<1>3. CASE op.dest \in {"none", "frame"}
  BY <1>0, <1>3 DEF Deliver
<1>4. op.dest \in {"none", "stack", "native", "variable", "frame"}
  BY DEF TypeOK, Operation
<1>. QED BY <1>1, <1>2, <1>3, <1>4

LEMMA AllocType ==
  ASSUME TypeOK, OperationInv, AllocObject
  PROVE  TypeOK'
<1> DEFINE o == created + 1
<1>1. o \in Object /\ o \notin allocated /\ created' = o /\ created' \in 0 .. MaxObjects
      /\ o \in Ref
  BY HeapAssumption, SMTT(30) DEF AllocObject, TypeOK, Object, Ref
<1>2. allocated' \subseteq 1 .. created'
  BY <1>1 DEF AllocObject, TypeOK, Object
<1>3. /\ header' \in Ref /\ next' \in [Object -> Ref] /\ prev' \in [Object -> Ref]
      /\ marked' \in [Object -> BOOLEAN]
  BY <1>1 DEF AllocObject, Link, TypeOK, Ref
<1>4. type' \in [Object -> Types] /\ capacity' \in [Object -> Int] /\ size' \in Int
  BY <1>1 DEF AllocObject, TypeOK, Operation
<1>5. cells' \in [Object -> Seq(Ref)]
  BY <1>1, NewCells DEF AllocObject
<1>6. stack' \in Seq(Ref) /\ envs' \in Seq(Environment)
  BY <1>1, DeliverType DEF AllocObject
<1>7. pc' \in {"check", "run"} /\ op' \in Operation
  <2>1. CASE op.dest = "variable"
    <3>1. op' = [op EXCEPT !.type = "assoc", !.dest = "frame", !.checks = 1]
          /\ pc' = "check"
      BY <2>1 DEF AllocObject, AfterCreation
    <3>2. op \in Operation /\ "assoc" \in Types /\ 1 \in {0, 1, 2}
          /\ "frame" \in {"none", "stack", "native", "variable", "frame"}
      BY DEF TypeOK, Types
    <3>. QED BY <3>1, <3>2, Zenon DEF Operation
  <2>. QED BY <2>1, NoOperationType DEF AllocObject, AfterCreation
<1>. QED
  BY <1>1, <1>2, <1>3, <1>4, <1>5, <1>6, <1>7 DEF AllocObject, TypeOK

LEMMA TypeStep ==
  ASSUME TypeOK, OperationInv, ResetInv, SweepInv, [Next]_vars
  PROVE  TypeOK'
<1>. USE DEF list, contents, roots, collector
<1>0. NoOperation \in Operation /\ None \in Ref /\ Object \subseteq Ref
  BY NoOperationType DEF Ref
<1>1. CASE Fetch
  BY <1>1, FetchedValue DEF TypeOK, Fetch
<1>2. CASE Discard
  BY <1>2, FrontAndLast DEF TypeOK, Discard
<1>3. CASE AssignVariable
  BY <1>3, FrontAndLast DEF TypeOK, AssignVariable
<1>4. CASE AssignElement
  <2>0. PICK o \in Named : \E i \in DOMAIN cells[o] : cells' = [cells EXCEPT ![o][i] = Last(stack)]
    BY <1>4 DEF AssignElement
  <2>1. PICK i \in DOMAIN cells[o] : cells' = [cells EXCEPT ![o][i] = Last(stack)]
    BY <2>0
  <2>2. o \in Object /\ cells[o] \in Seq(Ref) /\ Last(stack) \in Ref
    BY <1>4, NamedIsReachable, ReachableIsClosed, FrontAndLast DEF TypeOK, AssignElement
  <2>3. [cells[o] EXCEPT ![i] = Last(stack)] \in Seq(Ref)
    BY <2>2, RangeOfExcept
  <2>4. cells' = [cells EXCEPT ![o] = [cells[o] EXCEPT ![i] = Last(stack)]]
    BY <2>1
  <2>5. cells' \in [Object -> Seq(Ref)]
    BY <2>2, <2>3, <2>4 DEF TypeOK
  <2>. QED BY <1>4, <2>5 DEF TypeOK, AssignElement
<1>5. CASE Throw
  BY <1>5, FrontAndLast DEF TypeOK, Throw
<1>6. CASE Catch
  BY <1>0, <1>6, RangeOfAppend DEF TypeOK, Catch, Push
<1>7. CASE LeaveEnvironment
  BY <1>7, FrontAndLast DEF TypeOK, LeaveEnvironment
<1>8. CASE CreateObject
  BY <1>8, CallType DEF TypeOK, CreateObject, Call
<1>9. CASE EnterEnvironment
  BY <1>9, CallType DEF TypeOK, EnterEnvironment, Call
<1>10. CASE ResizeArray
  BY <1>10, CallType DEF TypeOK, ResizeArray, Call
<1>11. CASE AddMember
  BY <1>11, CallType DEF TypeOK, AddMember, Call
<1>12. CASE Collect
  BY <1>12, CallType DEF TypeOK, Collect
<1>13. CASE DisposeInterpreter
  BY <1>0, <1>13, CallType DEF TypeOK, DisposeInterpreter, ReleaseVariables
<1>14. CASE CheckGC
  BY <1>14, CheckedType DEF TypeOK, CheckGC, OperationInv
<1>15. CASE ResetMark
  BY <1>15 DEF TypeOK, ResetMark, Ref
<1>16. CASE StartMarking
  BY <1>16, RootsAreObjects DEF TypeOK, StartMarking, InitialMarks
<1>17. CASE Mark
  <2>1. PICK o \in toMark : /\ marked' = [marked EXCEPT ![o] = TRUE]
                            /\ toMark' = (toMark \ {o}) \union Visit(o)
    BY <1>17 DEF Mark
  <2>2. Visit(o) \subseteq Object
    BY RootsAreObjects DEF Visit, TypeOK
  <2>. QED BY <1>17, <2>1, <2>2 DEF TypeOK, Mark
<1>18. CASE StartSweeping
  BY <1>18 DEF TypeOK, StartSweeping
<1>19. CASE Sweep
  <2>1. cursor \in Object /\ cursor \in allocated
    BY <1>19 DEF Sweep, TypeOK, Ref, SweepInv
  <2>2. /\ header' \in Ref /\ next' \in [Object -> Ref] /\ prev' \in [Object -> Ref]
        /\ cursor' \in Ref
    BY <1>0, <1>19, <2>1, SMTT(30) DEF Sweep, Unlink, TypeOK
  <2>3. /\ type' \in [Object -> Types] /\ cells' \in [Object -> Seq(Ref)]
        /\ capacity' \in [Object -> Int] /\ size' \in Int /\ allocated' \subseteq allocated
    BY <1>19, <2>1, DisposeType DEF Sweep, TypeOK
  <2>. QED BY <1>19, <2>2, <2>3 DEF Sweep, TypeOK
<1>20. CASE FinishCollection
  <2>1. threshold' \in Int
    BY <1>20, HeapAssumption DEF FinishCollection, TypeOK
  <2>2. pc' \in {"run", "check", "commit", "disposed"} /\ op' \in Operation
    BY <1>0, <1>20, CheckedType DEF FinishCollection, TypeOK, OperationInv
  <2>. QED BY <1>20, <2>1, <2>2 DEF FinishCollection, TypeOK
<1>21. CASE AllocObject
  BY <1>21, AllocType
<1>22. CASE ReallocArray
  <2>1. op.obj \in Object /\ op.n \in Nat
    BY <1>22 DEF ReallocArray, OperationInv, TypeOK, Operation, Ref
  <2>2. Resized(cells[op.obj], op.n) \in Seq(Ref)
    BY <2>1, ResizedCells
  <2>3. NewAllocSize(capacity[op.obj], op.n) \in Int
    <3>1. capacity[op.obj] \in Int
      BY <2>1 DEF TypeOK
    <3>. QED BY <2>1, <3>1, CapacityNumber
  <2>4. /\ cells' = [cells EXCEPT ![op.obj] = Resized(cells[op.obj], op.n)]
        /\ capacity' = [capacity EXCEPT ![op.obj] = NewAllocSize(capacity[op.obj], op.n)]
        /\ size' = size + (NewAllocSize(capacity[op.obj], op.n) - capacity[op.obj])
    BY <1>22 DEF ReallocArray
  <2>5. cells' \in [Object -> Seq(Ref)] /\ capacity' \in [Object -> Int] /\ size' \in Int
    BY <2>1, <2>2, <2>3, <2>4 DEF TypeOK
  <2>. QED BY <1>0, <1>22, <2>5 DEF TypeOK, ReallocArray
<1>23. CASE AppendMember
  <2>1. op.obj \in Object /\ op.value \in Ref
    BY <1>23 DEF AppendMember, OperationInv, TypeOK, Operation, Ref
  <2>2. Append(cells[op.obj], op.value) \in Seq(Ref)
    BY <2>1, RangeOfAppend DEF TypeOK
  <2>3. cells' \in [Object -> Seq(Ref)]
    BY <1>23, <2>1, <2>2 DEF AppendMember, TypeOK
  <2>. QED BY <1>0, <1>23, <2>3 DEF TypeOK, AppendMember
<1>24. CASE UNCHANGED vars
  BY <1>24 DEF TypeOK, vars
<1>. QED
  BY <1>1, <1>2, <1>3, <1>4, <1>5, <1>6, <1>7, <1>8, <1>9, <1>10, <1>11, <1>12, <1>13, <1>14,
     <1>15, <1>16, <1>17, <1>18, <1>19, <1>20, <1>21, <1>22, <1>23, <1>24
     DEF Next, Mutator, Collector, Commit, Disposed

-----------------------------------------------------------------------------
(* What the steps do to what is in use.                                    *)

\* An assignment, a new member or a resized array refers to what was in use.
LEMMA CellsWithinReachable ==
  ASSUME TypeOK, NEW o \in Reachable, NEW c, cells' = [cells EXCEPT ![o] = c],
         Range(c) \ {None} \subseteq Reachable, UNCHANGED <<type, roots>>
  PROVE  Reachable' \subseteq Reachable
<1>1. Reachable \in SUBSET Object /\ Roots \subseteq Reachable
      /\ \A p \in Reachable : Children(p) \subseteq Reachable
  BY ReachableIsClosed DEF Closed
<1>2. Roots' = Roots
  BY DEF Roots, roots
<1>3. ASSUME NEW p \in Reachable PROVE Children(p)' \subseteq Reachable
  <2>1. CASE p = o
    <3>1. cells'[p] = c
      BY <2>1, <1>1 DEF TypeOK
    <3>. QED BY <3>1 DEF Children
  <2>2. CASE p # o
    <3>1. cells'[p] = cells[p]
      BY <2>2, <1>1 DEF TypeOK
    <3>. QED BY <1>1, <3>1 DEF Children
  <2>. QED BY <2>1, <2>2
<1>. QED BY <1>1, <1>2, <1>3, ReachableIsLeastNext

\* Steps of the program find no object again.
ProgramStep ==
  \/ Fetch \/ Discard \/ AssignVariable \/ AssignElement \/ Throw \/ Catch \/ LeaveEnvironment
  \/ EnterEnvironment \/ DisposeInterpreter \/ ReallocArray \/ AppendMember

LEMMA ProgramSteps ==
  ASSUME TypeOK, OperationInv, ProgramStep
  PROVE  allocated' = allocated /\ Reachable' \subseteq Reachable
<1>. USE DEF roots, contents, list, collector
<1>0. /\ Reachable \in SUBSET Object /\ Roots \subseteq Reachable
      /\ \A p \in Reachable : Children(p) \subseteq Reachable
      /\ stack \in Seq(Ref) /\ Range(stack) \ {None} \subseteq Roots
      /\ {global, exc} \ {None} \subseteq Roots
  BY ReachableIsClosed DEF TypeOK, Roots, Closed
<1>1. CASE Fetch
  <2>1. Range(stack') \ {None} \subseteq Reachable
    BY <1>1, FetchedValue
  <2>2. Roots' \subseteq Reachable
    BY <1>0, <1>1, <2>1 DEF Roots, Fetch
  <2>. QED BY <1>1, <2>2, RootsWithinReachable DEF Fetch
<1>2. CASE Discard
  <2>1. Roots' \subseteq Roots
    BY <1>0, <1>2, FrontAndLast DEF Roots, Discard
  <2>. QED BY <1>0, <1>2, <2>1, RootsWithinReachable DEF Discard
<1>3. CASE AssignVariable
  <2>0. Last(stack) \in Range(stack) /\ global' = Last(stack)
    BY <1>0, <1>3, FrontAndLast DEF AssignVariable
  <2>1. Roots' \subseteq Roots
    BY <1>3, <2>0 DEF Roots, AssignVariable
  <2>. QED BY <1>0, <1>3, <2>1, RootsWithinReachable DEF AssignVariable
<1>4. CASE AssignElement
  <2>0. PICK o \in Named : \E i \in DOMAIN cells[o] :
          type[o] \in {"array", "assoc"} /\ cells' = [cells EXCEPT ![o][i] = Last(stack)]
    BY <1>4 DEF AssignElement
  <2>1. PICK i \in DOMAIN cells[o] :
          type[o] \in {"array", "assoc"} /\ cells' = [cells EXCEPT ![o][i] = Last(stack)]
    BY <2>0
  <2> DEFINE c == [cells[o] EXCEPT ![i] = Last(stack)]
  <2>2. o \in Reachable /\ o \in Object /\ cells[o] \in Seq(Ref)
    BY <1>0, NamedIsReachable DEF TypeOK
  <2>3. Last(stack) \in Ref /\ Last(stack) \in Range(stack)
    BY <1>0, <1>4, FrontAndLast DEF AssignElement
  <2>4. Range(c) \subseteq Range(cells[o]) \union {Last(stack)}
    BY <2>2, <2>3, RangeOfExcept
  <2>5. Range(cells[o]) \ {None} = Children(o)
    BY <2>1 DEF Children
  <2>6. Range(c) \ {None} \subseteq Reachable
    BY <1>0, <2>2, <2>3, <2>4, <2>5
  <2>7. cells' = [cells EXCEPT ![o] = c]
    BY <2>1
  <2>. HIDE DEF c
  <2>. QED BY <1>4, <2>2, <2>6, <2>7, CellsWithinReachable DEF AssignElement
<1>5. CASE Throw
  <2>1. Roots' \subseteq Roots
    BY <1>0, <1>5, FrontAndLast DEF Roots, Throw
  <2>. QED BY <1>0, <1>5, <2>1, RootsWithinReachable DEF Throw
<1>6. CASE Catch
  <2>1. Range(stack') = Range(stack) \union {exc} /\ exc \in Ref
    BY <1>6, RangeOfAppend DEF TypeOK, Catch, Push
  <2>2. Roots' \subseteq Roots
    BY <1>0, <1>6, <2>1 DEF Roots, Catch, Ref, Object, None
  <2>. QED BY <1>0, <1>6, <2>2, RootsWithinReachable DEF Catch
<1>7. CASE LeaveEnvironment
  <2>1. DOMAIN envs' \subseteq DOMAIN envs /\ \A i \in DOMAIN envs' : envs'[i] = envs[i]
    BY <1>7, FrontOfSeq DEF TypeOK, LeaveEnvironment
  <2>2. Roots' \subseteq Roots
    BY <1>7, <2>1 DEF Roots, LeaveEnvironment
  <2>. QED BY <1>0, <1>7, <2>2, RootsWithinReachable DEF LeaveEnvironment
<1>8. CASE EnterEnvironment
  <2>1. \A i \in DOMAIN envs' : \/ i \in DOMAIN envs /\ envs'[i] = envs[i]
                                \/ envs'[i] = [variable |-> None, natives |-> {}]
    BY <1>8 DEF TypeOK, EnterEnvironment
  <2>2. Roots' \subseteq Roots
    BY <1>8, <2>1 DEF Roots, EnterEnvironment
  <2>. QED BY <1>0, <1>8, <2>2, RootsWithinReachable DEF EnterEnvironment
<1>9. CASE DisposeInterpreter
  <2>1. Roots' \subseteq Roots
    BY <1>9 DEF Roots, DisposeInterpreter, ReleaseVariables
  <2>. QED BY <1>0, <1>9, <2>1, RootsWithinReachable DEF DisposeInterpreter
<1>10. CASE ReallocArray
  <2>1. op.obj \in Reachable /\ op.obj \in Object /\ op.n \in Nat
    BY <1>0, <1>10 DEF ReallocArray, OperationInv, TypeOK, Operation
  <2> DEFINE c == Resized(cells[op.obj], op.n)
  <2>2. Range(c) \subseteq Range(cells[op.obj]) \union {None}
    BY <2>1, ResizedCells
  <2>3. cells' = [cells EXCEPT ![op.obj] = c] /\ UNCHANGED <<type, allocated>>
    BY <1>10 DEF ReallocArray
  <2>4. CASE type[op.obj] = "string"
    <3>1. \A o \in Object : Children(o)' = Children(o)
      BY <2>1, <2>3, <2>4 DEF Children, TypeOK
    <3>2. Roots' = Roots
      BY <1>10 DEF ReallocArray, Roots
    <3>. QED BY <1>0, <2>3, <3>1, <3>2, ReachableIsLeastNext
  <2>5. CASE type[op.obj] # "string"
    <3>1. Range(cells[op.obj]) \ {None} = Children(op.obj)
      BY <2>5 DEF Children
    <3>2. Range(c) \ {None} \subseteq Reachable
      BY <1>0, <2>1, <2>2, <3>1
    <3>. HIDE DEF c
    <3>. QED BY <1>10, <2>1, <2>3, <3>2, CellsWithinReachable DEF ReallocArray
  <2>. QED BY <2>4, <2>5
<1>11. CASE AppendMember
  <2>1. op.obj \in Reachable /\ op.obj \in Object /\ op.value \in Ref
        /\ {op.value} \ {None} \subseteq Reachable
    BY <1>0, <1>11 DEF AppendMember, OperationInv, TypeOK, Operation
  <2> DEFINE c == Append(cells[op.obj], op.value)
  <2>2. Range(c) \subseteq Range(cells[op.obj]) \union {op.value}
    BY <2>1, RangeOfAppend DEF TypeOK
  <2>3. cells' = [cells EXCEPT ![op.obj] = c] /\ UNCHANGED <<type, allocated>>
    BY <1>11 DEF AppendMember
  <2>4. CASE type[op.obj] = "string"
    <3>1. \A o \in Object : Children(o)' = Children(o)
      BY <2>1, <2>3, <2>4 DEF Children, TypeOK
    <3>2. Roots' = Roots
      BY <1>11 DEF AppendMember, Roots
    <3>. QED BY <1>0, <2>3, <3>1, <3>2, ReachableIsLeastNext
  <2>5. CASE type[op.obj] # "string"
    <3>1. Range(cells[op.obj]) \ {None} = Children(op.obj)
      BY <2>5 DEF Children
    <3>2. Range(c) \ {None} \subseteq Reachable
      BY <1>0, <2>1, <2>2, <3>1
    <3>. HIDE DEF c
    <3>. QED BY <1>11, <2>1, <2>3, <3>2, CellsWithinReachable DEF AppendMember
  <2>. QED BY <2>4, <2>5
<1>. QED
  BY <1>1, <1>2, <1>3, <1>4, <1>5, <1>6, <1>7, <1>8, <1>9, <1>10, <1>11 DEF ProgramStep

\* Creating an object adds nothing but that object to what is in use.
LEMMA AllocStep ==
  ASSUME TypeOK, OperationInv, AllocObject
  PROVE  /\ created + 1 \in Object \ allocated
         /\ allocated' = allocated \union {created + 1}
         /\ Reachable' \subseteq Reachable \union {created + 1}
<1> DEFINE o == created + 1
<1>1. o \in Object /\ o \notin allocated /\ allocated' = allocated \union {o}
  BY HeapAssumption DEF AllocObject, TypeOK, Object
<1>2. /\ Reachable \in SUBSET Object /\ Roots \subseteq Reachable
      /\ \A p \in Reachable : Children(p) \subseteq Reachable
  BY ReachableIsClosed DEF Closed
<1>. HIDE DEF o
<1>3. Deliver(o) /\ pc = "commit" /\ cells' = CellsWith(o) /\ type' = [type EXCEPT ![o] = op.type]
      /\ UNCHANGED <<global, exc>>
  BY DEF AllocObject, o
<1>4. Roots' \subseteq Reachable \union {o}
  <2>1. /\ Range(stack') \subseteq Range(stack) \union {o} /\ DOMAIN envs' = DOMAIN envs
        /\ \A i \in DOMAIN envs : /\ envs'[i].variable \in {envs[i].variable, o}
                                  /\ envs'[i].natives \subseteq envs[i].natives \union {o}
    BY <1>1, <1>3, DeliverType, LenProperties DEF TypeOK
  <2>2. Roots' \subseteq Roots \union {o}
    BY <1>3, <2>1 DEF Roots
  <2>. QED BY <1>2, <2>2
<1>5. ASSUME NEW p \in Reachable \union {o} PROVE Children(p)' \subseteq Reachable \union {o}
  <2>1. p \in Object
    BY <1>1, <1>2
  <2>2. CASE p = o
    <3>1. cells'[p] = InitialCells
      BY <1>1, <1>3, <2>2 DEF CellsWith
    <3>. QED BY <3>1, NewCells, <1>1 DEF Children
  <2>3. CASE p # o /\ op.dest = "frame" /\ p = Last(envs).variable
    <3>1. cells'[p] = <<o, op.value>>
      BY <1>3, <2>1, <2>3 DEF CellsWith
    <3>2. Range(<<o, op.value>>) = {o, op.value}
      BY DEF Range
    <3>3. {op.value} \ {None} \subseteq Reachable
      BY <1>2 DEF OperationInv, Roots
    <3>. QED BY <3>1, <3>2, <3>3 DEF Children
  <2>4. CASE p # o /\ ~(op.dest = "frame" /\ p = Last(envs).variable)
    <3>1. cells'[p] = cells[p] /\ type'[p] = type[p]
      BY <1>3, <2>1, <2>4 DEF CellsWith, TypeOK
    <3>. QED BY <1>2, <2>4, <3>1 DEF Children
  <2>. QED BY <2>2, <2>3, <2>4
<1>6. Reachable' \subseteq Reachable \union {o}
  BY <1>1, <1>2, <1>4, <1>5, ReachableIsLeastNext, ZenonT(30)
<1>. QED BY <1>1, <1>6 DEF o

\* What is not in use can be overwritten.
LEMMA DisposeStep ==
  ASSUME TypeOK, TypeOK', NEW o \in Object \ Reachable, Dispose(o), UNCHANGED roots
  PROVE  Reachable' = Reachable
<1>1. /\ Reachable \in SUBSET Object /\ Roots \subseteq Reachable
      /\ \A p \in Reachable : Children(p) \subseteq Reachable
  BY ReachableIsClosed DEF Closed
<1>2. Roots' = Roots
  BY DEF Roots, roots
<1>3. \A p \in Object \ {o} : Children(p)' = Children(p)
  BY DEF Children, Dispose, TypeOK
<1>4. Reachable' \subseteq Reachable
  BY <1>1, <1>2, <1>3, ReachableIsLeastNext
<1>5. (TypeOK => Reachable \subseteq Object /\ Roots \subseteq Reachable /\ Closed(Reachable))'
  BY ReachableIsClosedNext
<1> DEFINE S == Reachable'
<1>6. S \in SUBSET Object /\ Roots \subseteq S /\ \A p \in S : Children(p)' \subseteq S
  BY <1>2, <1>5 DEF Closed
<1>7. \A p \in S : Children(p) \subseteq S
  BY <1>1, <1>3, <1>4, <1>6
<1>. HIDE DEF S
<1>8. Reachable \subseteq S
  BY <1>6, <1>7, ReachableIsLeast DEF Closed
<1>. QED BY <1>4, <1>8 DEF S

-----------------------------------------------------------------------------
(* Every step keeps the inductive invariant.                               *)

\* Steps that keep the list and what has been allocated.
LEMMA SameList ==
  ASSUME ListIsExact, UNCHANGED <<allocated, list>>
  PROVE  ListIsExact'
BY DEF ListIsExact, list

LEMMA ListStep ==
  ASSUME TypeOK, ListIsExact, SweepInv, [Next]_vars
  PROVE  ListIsExact'
<1>0. /\ \A p \in allocated : p \in Object /\ p \in Nat /\ p > 0
      /\ \A p \in Object : next[p] \in Nat /\ prev[p] \in Nat
      /\ header \in Nat /\ None = 0
  <2>1. Object \subseteq Nat \ {0} /\ Ref \subseteq Nat /\ None = 0
    BY HeapAssumption DEF Object, Ref, None
  <2>2. allocated \subseteq Object
    BY HeapAssumption DEF TypeOK, Object
  <2>3. header \in Ref /\ \A p \in Object : next[p] \in Ref /\ prev[p] \in Ref
    BY DEF TypeOK
  <2>4. \A p \in allocated : p \in Object /\ p \in Nat /\ p > 0
    BY <2>1, <2>2
  <2>. QED BY <2>1, <2>3, <2>4
<1>1. CASE AllocObject
  <2> DEFINE o == created + 1
  <2>1. /\ o \in Object /\ \A p \in allocated : p < o /\ p # o
        /\ allocated' = allocated \union {o} /\ o \in Nat /\ o > 0
    BY <1>1, HeapAssumption DEF AllocObject, TypeOK, Object
  <2>2. /\ header' = o
        /\ next' = [next EXCEPT ![o] = header]
        /\ prev' = [p \in Object |-> IF p = o THEN None ELSE IF p = header THEN o ELSE prev[p]]
    BY <1>1 DEF AllocObject, Link
  <2>. HIDE DEF o
  <2>3. next'[o] = header /\ \A p \in allocated : next'[p] = next[p]
    BY <1>0, <2>1, <2>2 DEF TypeOK
  <2>4. prev'[o] = None /\ \A p \in allocated : prev'[p] = IF p = header THEN o ELSE prev[p]
    BY <1>0, <2>1, <2>2
  <2>5. header' \in allocated' \union {None} /\ \A p \in allocated' : p <= header'
    <3>1. \A p \in allocated' : p <= o
      BY <1>0, <2>1
    <3>. QED BY <2>1, <2>2, <3>1
  <2>6. header \in allocated \union {None} /\ \A p \in allocated : p <= header
    BY DEF ListIsExact
  <2>7. ASSUME NEW p \in allocated'
        PROVE  /\ next'[p] \in allocated' \union {None} /\ next'[p] < p
               /\ \A q \in allocated' : q < p => q <= next'[p]
               /\ IF p = header' THEN prev'[p] = None ELSE prev'[p] \in allocated' /\ prev'[p] > p
               /\ \A q \in allocated' : q > p => prev'[p] # None /\ q >= prev'[p]
    <3>1. CASE p = o
      <4>1. header < o
        BY <1>0, <2>1, <2>6
      <4>2. \A q \in allocated' : q <= o /\ (q < o => q <= header)
        BY <1>0, <2>1, <2>6
      <4>. QED BY <1>0, <2>1, <2>2, <2>3, <2>4, <2>6, <3>1, <4>1, <4>2
    <3>2. CASE p # o
      <4>1. p \in allocated /\ next'[p] = next[p] /\ p # header' /\ p < o
            /\ prev'[p] = IF p = header THEN o ELSE prev[p]
        BY <2>1, <2>2, <2>3, <2>4, <3>2
      <4>2. /\ next[p] \in allocated \union {None} /\ next[p] < p
            /\ \A q \in allocated : q < p => q <= next[p]
            /\ IF p = header THEN prev[p] = None ELSE prev[p] \in allocated /\ prev[p] > p
            /\ \A q \in allocated : q > p => prev[p] # None /\ q >= prev[p]
        BY <4>1 DEF ListIsExact
      <4>3. \A q \in allocated' : q < p => q <= next'[p]
        BY <1>0, <2>1, <4>1, <4>2
      <4>4. prev'[p] \in allocated' /\ prev'[p] > p
        BY <1>0, <2>1, <4>1, <4>2
      <4>5. \A q \in allocated' : q > p => prev'[p] # None /\ q >= prev'[p]
        <5>1. CASE p = header
          BY <1>0, <2>1, <2>6, <4>1, <5>1
        <5>2. CASE p # header
          <6>1. prev[p] < o
            BY <1>0, <2>1, <4>2, <5>2
          <6>. QED BY <1>0, <2>1, <4>1, <4>2, <5>2, <6>1
        <5>. QED BY <5>1, <5>2
      <4>. QED BY <2>1, <4>1, <4>2, <4>3, <4>4, <4>5
    <3>. QED BY <3>1, <3>2
  <2>. QED BY <2>5, <2>7 DEF ListIsExact
<1>2. CASE Sweep /\ ~marked[cursor]
  <2> DEFINE o == cursor
  <2>1. o \in allocated /\ o \in Object /\ allocated' = allocated \ {o}
    BY <1>0, <1>2 DEF Sweep, SweepInv, Dispose
  <2>2. /\ header' = (IF prev[o] # None THEN header ELSE next[o])
        /\ \A p \in allocated' : next'[p] = IF p = prev[o] THEN next[o] ELSE next[p]
        /\ \A p \in allocated' : prev'[p] = IF p = next[o] THEN prev[o] ELSE prev[p]
    BY <1>0, <1>2, <2>1 DEF Sweep, Unlink
  <2>. HIDE DEF o
  <2>3. ASSUME NEW p \in allocated
        PROVE  /\ next[p] \in allocated \union {None} /\ next[p] < p
               /\ \A q \in allocated : q < p => q <= next[p]
               /\ p = header => prev[p] = None
               /\ p # header => prev[p] \in allocated /\ prev[p] > p
               /\ \A q \in allocated : q > p => prev[p] # None /\ q >= prev[p]
    BY DEF ListIsExact
  <2>4. header \in allocated \union {None} /\ \A q \in allocated : q <= header
    BY DEF ListIsExact
  <2>5. header' \in allocated' \union {None} /\ \A p \in allocated' : p <= header'
    <3>1. CASE o = header
      <4>1. header' = next[o]
        BY <2>1, <2>2, <2>3, <3>1
      <4>2. \A p \in allocated' : p < o
        BY <1>0, <2>1, <2>4, <3>1
      <4>3. next[o] # o
        BY <1>0, <2>1, <2>3
      <4>. QED BY <2>1, <2>3, <4>1, <4>2, <4>3
    <3>2. CASE o # header
      <4>1. prev[o] # None
        BY <1>0, <2>1, <2>3, <3>2
      <4>. QED BY <2>1, <2>2, <2>4, <3>2, <4>1
    <3>. QED BY <3>1, <3>2
  <2>6. ASSUME NEW p \in allocated'
        PROVE  /\ next'[p] \in allocated' \union {None} /\ next'[p] < p
               /\ \A q \in allocated' : q < p => q <= next'[p]
               /\ IF p = header' THEN prev'[p] = None ELSE prev'[p] \in allocated' /\ prev'[p] > p
               /\ \A q \in allocated' : q > p => prev'[p] # None /\ q >= prev'[p]
    <3>1. p \in allocated /\ p # o /\ (p < o \/ p > o)
      BY <1>0, <2>1
    <3>2. /\ next'[p] \in allocated' \union {None} /\ next'[p] < p
          /\ \A q \in allocated' : q < p => q <= next'[p]
      <4>1. CASE p = prev[o]
        <5>1. next'[p] = next[o] /\ o # header /\ p > o /\ next[o] # o /\ next[o] < o
          BY <1>0, <2>1, <2>2, <2>3, <4>1
        <5>2. next[o] \in allocated' \union {None} /\ next[o] < p
          BY <1>0, <2>1, <2>3, <5>1, <3>1
        <5>3. ASSUME NEW q \in allocated', q < p PROVE q <= next[o]
          <6>1. q \in allocated /\ q # o /\ ~(q > o)
            BY <1>0, <2>1, <2>3, <4>1, <5>3, <3>1
          <6>2. q < o
            BY <1>0, <2>1, <6>1
          <6>. QED BY <2>1, <2>3, <6>1, <6>2
        <5>. QED BY <5>1, <5>2, <5>3
      <4>2. CASE p # prev[o]
        <5>1. next'[p] = next[p]
          BY <2>2, <4>2
        <5>2. next[p] # o
          <6>1. SUFFICES ASSUME next[p] = o PROVE FALSE
            OBVIOUS
          <6>2. p > o /\ p >= prev[o] /\ prev[o] # None
            BY <1>0, <2>1, <2>3, <3>1, <6>1
          <6>3. o # header
            BY <2>1, <2>3, <6>2
          <6>4. prev[o] \in allocated /\ prev[o] > o /\ prev[o] < p
            <7>1. prev[o] \in allocated /\ prev[o] > o
              BY <2>1, <2>3, <6>3
            <7>. QED BY <1>0, <4>2, <6>2, <3>1, <7>1
          <6>5. prev[o] <= next[p]
            BY <2>3, <3>1, <6>4
          <6>. QED BY <1>0, <6>1, <6>4, <6>5, <2>1
        <5>. QED BY <2>1, <2>3, <3>1, <5>1, <5>2
      <4>. QED BY <4>1, <4>2
    <3>3. /\ IF p = header' THEN prev'[p] = None ELSE prev'[p] \in allocated' /\ prev'[p] > p
          /\ \A q \in allocated' : q > p => prev'[p] # None /\ q >= prev'[p]
      <4>1. CASE p = next[o]
        <5>1. prev'[p] = prev[o] /\ p < o
          BY <2>1, <2>2, <2>3, <4>1
        <5>2. CASE o = header
          <6>1. header' = p /\ prev[o] = None
            BY <2>1, <2>2, <2>3, <4>1, <5>2
          <6>2. \A q \in allocated' : q < o
            BY <1>0, <2>1, <2>4, <5>2
          <6>3. \A q \in allocated' : q <= p
            BY <2>1, <2>3, <4>1, <6>2
          <6>. QED BY <1>0, <2>1, <3>1, <5>1, <6>1, <6>3
        <5>3. CASE o # header
          <6>1. prev[o] \in allocated /\ prev[o] > o /\ prev[o] # None /\ header' = header
            BY <1>0, <2>1, <2>2, <2>3, <5>3
          <6>2. p # header /\ prev[o] > p /\ prev[o] # o
            BY <1>0, <2>1, <2>4, <3>1, <5>1, <6>1
          <6>3. ASSUME NEW q \in allocated', q > p PROVE q >= prev[o]
            <7>1. q \in allocated /\ q # o /\ ~(q < o)
              BY <1>0, <2>1, <2>3, <3>1, <4>1, <6>3
            <7>2. q > o
              BY <1>0, <2>1, <7>1
            <7>. QED BY <2>1, <2>3, <7>1, <7>2
          <6>. QED BY <2>1, <5>1, <6>1, <6>2, <6>3
        <5>. QED BY <5>2, <5>3
      <4>2. CASE p # next[o]
        <5>1. prev'[p] = prev[p]
          BY <2>2, <4>2
        <5>2. prev[p] # o
          <6>1. SUFFICES ASSUME prev[p] = o PROVE FALSE
            OBVIOUS
          <6>2. p # header /\ o > p
            BY <1>0, <2>1, <2>3, <3>1, <6>1
          <6>3. p <= next[o] /\ next[o] > p /\ next[o] \in allocated
            <7>1. p <= next[o] /\ next[o] \in allocated \union {None}
              BY <2>1, <2>3, <3>1, <6>2
            <7>2. next[o] > 0 /\ next[o] # None
              BY <1>0, <2>1, <3>1, <7>1
            <7>. QED BY <1>0, <3>1, <4>2, <7>1, <7>2
          <6>4. next[o] >= prev[p]
            BY <2>3, <3>1, <6>3
          <6>. QED BY <1>0, <2>1, <2>3, <6>1, <6>4
        <5>3. p = header' <=> p = header
          <6>1. CASE o = header
            <7>1. header' = next[o] /\ p # header
              BY <2>1, <2>2, <2>3, <3>1, <6>1
            <7>. QED BY <4>2, <7>1
          <6>2. CASE o # header
            <7>1. prev[o] # None
              BY <1>0, <2>1, <2>3, <6>2
            <7>. QED BY <2>2, <7>1
          <6>. QED BY <6>1, <6>2
        <5>. QED BY <2>1, <2>3, <3>1, <5>1, <5>2, <5>3
      <4>. QED BY <4>1, <4>2
    <3>. QED BY <3>2, <3>3
  <2>. QED BY <2>5, <2>6 DEF ListIsExact
<1>3. CASE ~AllocObject /\ ~(Sweep /\ ~marked[cursor])
  <2>1. UNCHANGED <<allocated, list>>
    BY <1>3 DEF Next, Mutator, Collector, Commit, Disposed, vars, Fetch, Discard,
      AssignVariable, AssignElement, Throw, Catch, LeaveEnvironment, CreateObject,
      EnterEnvironment, ResizeArray, AddMember, Collect, DisposeInterpreter, CheckGC, ResetMark,
      StartMarking, Mark, StartSweeping, Sweep, FinishCollection, ReallocArray, AppendMember
  <2>. QED BY <2>1, SameList, SMTT(30)
<1>. QED BY <1>1, <1>2, <1>3

\* The collector changes neither the roots nor what is in use.
LEMMA CollectorStep ==
  ASSUME IInv, TypeOK', Collector
  PROVE  Reachable' = Reachable /\ UNCHANGED roots
<1>1. CASE Sweep /\ ~marked[cursor]
  <2>1. cursor \in Object \ Reachable /\ Dispose(cursor) /\ UNCHANGED roots
    BY <1>1 DEF Sweep, IInv, SweepInv, TypeOK, Ref, roots
  <2>. QED BY <2>1, DisposeStep DEF IInv
<1>2. CASE ~(Sweep /\ ~marked[cursor])
  <2>1. UNCHANGED <<roots, contents>>
    BY <1>2 DEF Collector, CheckGC, ResetMark, StartMarking, Mark, StartSweeping, Sweep,
      FinishCollection, roots, contents
  <2>. QED BY <2>1, SameReferences
<1>. QED BY <1>1, <1>2

\* Calls of heap functions leave what is in use alone, but for a variable that is released.
LEMMA CallStep ==
  ASSUME CreateObject \/ ResizeArray \/ AddMember \/ Collect
  PROVE  Reachable' = Reachable /\ UNCHANGED <<roots, allocated>>
<1>1. UNCHANGED <<roots, contents, allocated>>
  BY DEF CreateObject, ResizeArray, AddMember, Collect, roots, contents
<1>. QED BY <1>1, SameReferences, SMTT(30)

LEMMA OperationStep ==
  ASSUME IInv, TypeOK', [Next]_vars
  PROVE  OperationInv'
<1>. USE DEF list, contents, roots, collector
<1>0. /\ TypeOK /\ OperationInv /\ op \in Operation
      /\ stack \in Seq(Ref) /\ Roots \subseteq Reachable /\ Range(stack) \ {None} \subseteq Roots
  BY ReachableIsClosed DEF IInv, TypeOK, Roots
<1>1. ASSUME op' = NoOperation, pc' = "run" PROVE OperationInv'
  BY <1>1 DEF OperationInv, NoOperation
<1>2. ASSUME op' = op, pc' = pc, pc = "run" PROVE OperationInv'
  BY <1>0, <1>1, <1>2 DEF OperationInv
<1>3. CASE \/ Fetch \/ Discard \/ AssignVariable \/ AssignElement \/ Throw \/ Catch
           \/ LeaveEnvironment
  BY <1>2, <1>3 DEF Fetch, Discard, AssignVariable, AssignElement, Throw, Catch, LeaveEnvironment
<1>4. CASE CreateObject
  <2>1. PICK t \in {"array", "string", "assoc"}, dest \in {"stack", "native"},
             n \in ArraySizes \union StringLengths \union {0} :
          /\ op' = [NoOperation EXCEPT !.name = "alloc", !.type = t, !.dest = dest, !.n = n,
                                       !.checks = 1]
          /\ dest = "native" => envs # <<>>
    BY <1>4 DEF CreateObject, Call
  <2>2. op' = [name |-> "alloc", type |-> t, dest |-> dest, obj |-> None, value |-> None,
               n |-> n, checks |-> 1]
    BY <2>1 DEF NoOperation
  <2>3. /\ op'.name = "alloc" /\ op'.dest = dest /\ op'.obj = None /\ op'.value = None
        /\ op'.checks = 1 /\ pc' = "check" /\ envs' = envs
    BY <1>4, <2>2 DEF CreateObject, Call
  <2>. QED BY <2>1, <2>3 DEF OperationInv
<1>5. CASE EnterEnvironment
  <2>1. PICK closure \in (IF stack = <<>> THEN {None} ELSE {None, Last(stack)}) :
          op' = [NoOperation EXCEPT !.name = "alloc", !.type = "scope", !.dest = "variable",
                                    !.value = closure, !.checks = 1]
    BY <1>5 DEF EnterEnvironment, Call
  <2>2. op' = [name |-> "alloc", type |-> "scope", dest |-> "variable", obj |-> None,
               value |-> closure, n |-> 0, checks |-> 1]
    BY <2>1 DEF NoOperation
  <2>3. {closure} \ {None} \subseteq Range(stack')
    <3>1. stack' = stack
      BY <1>5 DEF EnterEnvironment
    <3>2. stack # <<>> => Last(stack) \in Range(stack)
      BY <1>0, FrontAndLast
    <3>. QED BY <2>1, <3>1, <3>2
  <2>4. envs \in Seq(Environment) /\ envs' = Append(envs, [variable |-> None, natives |-> {}])
    BY <1>5 DEF EnterEnvironment, IInv, TypeOK
  <2>5. [variable |-> None, natives |-> {}] \in Environment
    BY DEF Environment, Ref
  <2>6. envs' # <<>>
    BY <2>4, <2>5, AppendProperties
  <2>7. /\ op'.name = "alloc" /\ op'.obj = None /\ op'.value = closure /\ op'.checks = 1
        /\ pc' = "check"
    BY <1>5, <2>2 DEF EnterEnvironment, Call
  <2>. QED BY <2>3, <2>6, <2>7 DEF OperationInv
<1>6. CASE ResizeArray
  <2>1. PICK n \in ArraySizes, checks \in {1, 2} :
          op' = [NoOperation EXCEPT !.name = "resize", !.obj = Last(stack), !.n = n,
                                    !.checks = checks]
    <3>1. PICK n \in ArraySizes :
            op' = [NoOperation EXCEPT !.name = "resize", !.obj = Last(stack), !.n = n,
                     !.checks = IF NeedsRealloc(capacity[Last(stack)], n) THEN 2 ELSE 1]
      BY <1>6 DEF ResizeArray, Call
    <3>. QED BY <3>1
  <2>2. op' = [name |-> "resize", type |-> "string", dest |-> "none", obj |-> Last(stack),
               value |-> None, n |-> n, checks |-> checks]
    BY <2>1 DEF NoOperation
  <2>3. Last(stack) # None /\ Last(stack) \in Reachable'
    BY <1>0, <1>6, FrontAndLast, CallStep DEF ResizeArray
  <2>4. /\ op'.name = "resize" /\ op'.dest = "none" /\ op'.obj = Last(stack)
        /\ op'.value = None /\ op'.checks = checks
    BY <2>2
  <2>5. checks # 0 /\ pc' = "check"
    BY <1>6 DEF ResizeArray, Call
  <2>. QED BY <2>3, <2>4, <2>5 DEF OperationInv
<1>7. CASE AddMember
  <2>1. PICK o \in Named :
          op' = [NoOperation EXCEPT !.name = "member", !.obj = o, !.value = Last(stack),
                                    !.checks = 1]
    BY <1>7 DEF AddMember, Call
  <2>2. op' = [name |-> "member", type |-> "string", dest |-> "none", obj |-> o,
               value |-> Last(stack), n |-> 0, checks |-> 1]
    BY <2>1 DEF NoOperation
  <2>3. Last(stack) \in Range(stack')
    BY <1>0, <1>7, FrontAndLast DEF AddMember
  <2>4. o \in Reachable' /\ o # None
    BY <1>0, <1>7, NamedIsReachable, ReachableIsClosed, CallStep DEF Object, None
  <2>5. /\ op'.name = "member" /\ op'.dest = "none" /\ op'.obj = o
        /\ op'.value = Last(stack) /\ op'.checks = 1 /\ pc' = "check"
    BY <1>7, <2>2 DEF AddMember, Call
  <2>. QED BY <2>3, <2>4, <2>5 DEF OperationInv
<1>8. CASE Collect \/ DisposeInterpreter
  <2>1. PICK name \in {"collect", "dispose"} : op' = [NoOperation EXCEPT !.name = name]
    BY <1>8 DEF Collect, DisposeInterpreter
  <2>2. op' = [name |-> name, type |-> "string", dest |-> "none", obj |-> None, value |-> None,
               n |-> 0, checks |-> 0]
    BY <2>1 DEF NoOperation
  <2>. QED BY <1>8, <2>2 DEF Collect, DisposeInterpreter, OperationInv
<1>9. CASE Collector
  <2>1. Reachable' = Reachable /\ stack' = stack /\ envs' = envs
    BY <1>9, CollectorStep
  <2>2. CASE op' = op
    BY <1>0, <1>9, <2>1, <2>2 DEF OperationInv, Collector, CheckGC, ResetMark, StartMarking,
      Mark, StartSweeping, Sweep, FinishCollection
  <2>3. CASE op' # op /\ op.checks # 0 /\ op' = [op EXCEPT !.checks = @ - 1]
    <3>1. /\ op'.checks = op.checks - 1 /\ op'.name = op.name /\ op'.dest = op.dest
          /\ op'.obj = op.obj /\ op'.value = op.value
      BY <1>0, <2>3, CheckedType
    <3>2. pc' = (IF op.checks = 1 THEN "commit" ELSE "check")
      BY <1>9, <2>3 DEF Collector, CheckGC, ResetMark, StartMarking, Mark, StartSweeping, Sweep,
        FinishCollection, NoOperation
    <3>3. op.name \in {"alloc", "resize", "member"}
      BY <1>0, <1>9, <2>3 DEF OperationInv, Collector, CheckGC, ResetMark, StartMarking, Mark,
        StartSweeping, Sweep, FinishCollection, NoOperation
    <3>4. op.checks \in {0, 1, 2}
      BY <1>0 DEF Operation
    <3>. QED BY <1>0, <2>1, <2>3, <3>1, <3>2, <3>3, <3>4 DEF OperationInv
  <2>4. CASE op' = NoOperation /\ pc' = "run"
    BY <1>1, <2>4
  <2>. QED
    BY <1>0, <1>9, <2>2, <2>3, <2>4 DEF OperationInv, Collector, CheckGC, ResetMark,
      StartMarking, Mark, StartSweeping, Sweep, FinishCollection
<1>10. CASE AllocObject
  <2>1. CASE op.dest = "variable"
    <3>1. op' = [op EXCEPT !.type = "assoc", !.dest = "frame", !.checks = 1] /\ pc' = "check"
          /\ op.name = "alloc"
      BY <1>10, <2>1 DEF AllocObject, AfterCreation
    <3>2. /\ op'.name = op.name /\ op'.dest = "frame" /\ op'.obj = op.obj /\ op'.value = op.value
          /\ op'.checks = 1
      BY <1>0, <3>1 DEF Operation
    <3>3. created + 1 \in Object /\ Deliver(created + 1) /\ pc = "commit"
      BY <1>0, <1>10, AllocStep DEF AllocObject
    <3>4. Range(stack) \subseteq Range(stack') /\ Len(envs') = Len(envs) /\ envs # <<>>
          /\ envs \in Seq(Environment) /\ envs' \in Seq(Environment)
      BY <1>0, <2>1, <3>3, DeliverType DEF OperationInv, TypeOK
    <3>5. envs' # <<>>
      BY <3>4, EmptySeq
    <3>. QED BY <1>0, <3>1, <3>2, <3>4, <3>5 DEF OperationInv
  <2>2. CASE op.dest # "variable"
    BY <1>1, <1>10, <2>2 DEF AllocObject, AfterCreation
  <2>. QED BY <2>1, <2>2
<1>11. CASE ReallocArray \/ AppendMember
  BY <1>1, <1>11 DEF ReallocArray, AppendMember
<1>12. CASE UNCHANGED vars
  <2>1. Reachable' = Reachable
    BY <1>12, SameReferences DEF vars
  <2>. QED BY <1>0, <1>12, <2>1 DEF vars, OperationInv
<1>. QED
  BY <1>3, <1>4, <1>5, <1>6, <1>7, <1>8, <1>9, <1>10, <1>11, <1>12
    DEF Next, Mutator, Commit, Disposed

\* No step but allocation and sweeping changes what is allocated, and none finds an
\* object that has been freed.
LEMMA InUseStep ==
  ASSUME IInv, TypeOK', [Next]_vars
  PROVE  InUseInv'
<1>. USE DEF list, contents, roots, collector
<1>0. TypeOK /\ OperationInv /\ Reachable \subseteq allocated
  BY DEF IInv, InUseInv
<1>1. CASE ProgramStep
  BY <1>0, <1>1, ProgramSteps DEF InUseInv
<1>2. CASE CreateObject \/ ResizeArray \/ AddMember \/ Collect
  BY <1>0, <1>2, CallStep DEF InUseInv
<1>3. CASE AllocObject
  BY <1>0, <1>3, AllocStep DEF InUseInv
<1>4. CASE Collector
  <2>1. Reachable' = Reachable
    BY <1>4, CollectorStep
  <2>2. CASE Sweep /\ ~marked[cursor]
    <3>1. cursor \notin Reachable
      BY <2>2 DEF Sweep, IInv, SweepInv
    <3>. QED BY <1>0, <2>1, <2>2, <3>1 DEF Sweep, Dispose, InUseInv
  <2>3. CASE ~(Sweep /\ ~marked[cursor])
    <3>1. allocated' = allocated
      BY <1>4, <2>3 DEF Collector, CheckGC, ResetMark, StartMarking, Mark, StartSweeping, Sweep,
        FinishCollection
    <3>. QED BY <1>0, <2>1, <3>1 DEF InUseInv
  <2>. QED BY <2>2, <2>3
<1>5. CASE UNCHANGED vars
  <2>1. Reachable' = Reachable
    BY <1>5, SameReferences DEF vars
  <2>. QED BY <1>0, <1>5, <2>1 DEF vars, InUseInv
<1>. QED
  BY <1>1, <1>2, <1>3, <1>4, <1>5 DEF Next, Mutator, Commit, Disposed, ProgramStep

\* Outside the collector, its invariants hold trivially.
LEMMA ResetStep ==
  ASSUME IInv, TypeOK', [Next]_vars
  PROVE  ResetInv'
<1>. USE DEF list, contents, roots, collector
<1>1. CASE pc \in {"run", "check"} /\ pc' = "reset"
  <2>1. cursor' = header /\ UNCHANGED allocated
    BY <1>1 DEF Next, Mutator, Collector, Commit, Disposed, vars, Fetch, Discard,
      AssignVariable, AssignElement, Throw, Catch, LeaveEnvironment, CreateObject,
      EnterEnvironment, ResizeArray, AddMember, Collect, DisposeInterpreter, CheckGC, ResetMark,
      StartMarking, Mark, StartSweeping, Sweep, FinishCollection, ReallocArray, AppendMember,
      AllocObject, AfterCreation, Call
  <2>2. \A p \in allocated : p <= header /\ p \in Nat
    BY HeapAssumption DEF IInv, ListIsExact, TypeOK
  <2>3. header \in allocated \union {None} /\ header \in Nat
    BY HeapAssumption DEF IInv, ListIsExact, TypeOK, Ref, Object, None
  <2>. QED BY <2>1, <2>2, <2>3 DEF ResetInv
<1>2. CASE ResetMark
  <2>1. /\ cursor \in allocated /\ cursor' = next[cursor] /\ allocated' = allocated
        /\ marked' = [marked EXCEPT ![cursor] = FALSE] /\ pc = "reset"
    BY <1>2 DEF ResetMark, IInv, ResetInv
  <2>2. /\ next[cursor] \in allocated \union {None}
        /\ \A p \in allocated : p < cursor => p <= next[cursor]
    BY <2>1 DEF IInv, ListIsExact
  <2>3. \A p \in allocated : p \in Nat /\ p \in Object
    BY HeapAssumption, SMTT(30) DEF IInv, TypeOK, Object
  <2>4. next[cursor] \in Nat
    BY <2>2, <2>3 DEF None
  <2>5. ASSUME NEW o \in allocated, o > next[cursor] PROVE ~marked'[o]
    <3>1. o = cursor \/ o > cursor
      BY <2>1, <2>2, <2>3, <2>4, <2>5
    <3>. QED BY <2>1, <2>3, <3>1 DEF IInv, ResetInv, TypeOK
  <2>. QED BY <2>1, <2>2, <2>5 DEF ResetInv
<1>3. CASE pc' # "reset"
  BY <1>3 DEF ResetInv
<1>4. CASE UNCHANGED vars
  BY <1>4 DEF vars, IInv, ResetInv
<1>5. pc' = "reset" => \/ pc = "run" \/ pc = "check" \/ ResetMark \/ UNCHANGED vars
  BY DEF Next, Mutator, Collector, Commit, Disposed, vars, Fetch, Discard,
      AssignVariable, AssignElement, Throw, Catch, LeaveEnvironment, CreateObject,
      EnterEnvironment, ResizeArray, AddMember, Collect, DisposeInterpreter, CheckGC, ResetMark,
      StartMarking, Mark, StartSweeping, Sweep, FinishCollection, ReallocArray, AppendMember,
      AllocObject, AfterCreation, Call
<1>. QED BY <1>1, <1>2, <1>3, <1>4, <1>5

LEMMA AllocatedAreObjects ==
  ASSUME TypeOK
  PROVE  \A p \in allocated : p \in Object /\ p \in Nat /\ p > None
<1>1. allocated \subseteq 1 .. created /\ created \in Nat /\ created <= MaxObjects
      /\ MaxObjects \in Nat
  BY HeapAssumption DEF TypeOK
<1>. QED BY <1>1 DEF Object, None

LEMMA MarkStep ==
  ASSUME IInv, TypeOK', [Next]_vars
  PROVE  MarkInv'
<1>. USE DEF list, contents, roots, collector
<1>0. /\ TypeOK /\ Reachable \subseteq allocated /\ allocated \subseteq Object
      /\ Roots \subseteq Reachable /\ \A o \in Reachable : Children(o) \subseteq Reachable
  BY ReachableIsClosed, AllocatedAreObjects DEF IInv, InUseInv, Closed
<1>1. CASE StartMarking
  <2>1. /\ pc = "reset" /\ cursor = None /\ toMark' = Roots /\ UNCHANGED <<marked, allocated>>
        /\ UNCHANGED <<roots, contents>>
    BY <1>1 DEF StartMarking, InitialMarks
  <2>2. /\ Reachable' = Reachable /\ Roots' = Roots
    BY <2>1, SameReferences
  <2>3. \A o \in allocated : o > None
    BY HeapAssumption DEF IInv, TypeOK, None
  <2>4. \A o \in allocated : ~marked[o]
    BY <2>1, <2>3 DEF IInv, ResetInv
  <2>. QED BY <1>0, <2>1, <2>2, <2>4 DEF MarkInv
<1>2. CASE Mark
  <2>1. PICK o \in toMark : /\ marked' = [marked EXCEPT ![o] = TRUE]
                            /\ toMark' = (toMark \ {o}) \union Visit(o)
    BY <1>2 DEF Mark
  <2>2. UNCHANGED <<roots, contents, allocated>> /\ pc = "mark"
    BY <1>2 DEF Mark
  <2>3. Reachable' = Reachable /\ Roots' = Roots /\ \A p : Children(p)' = Children(p)
    BY <2>2, SameReferences
  <2>4. /\ toMark \subseteq Reachable
        /\ \A p \in allocated : marked[p] => p \in Reachable
        /\ \A p \in Roots : marked[p] \/ p \in toMark
        /\ \A p \in Reachable : marked[p] => \A c \in Children(p) : marked[c] \/ c \in toMark
    BY <2>2 DEF IInv, MarkInv
  <2>5. /\ \A p \in Object : marked'[p] = (p = o \/ marked[p])
        /\ o \in Reachable /\ Visit(o) \subseteq Children(o)
    BY <1>0, <2>1, <2>4 DEF TypeOK, Visit
  <2>6. toMark' \subseteq Reachable
    BY <1>0, <2>1, <2>4, <2>5
  <2>7. \A p \in allocated : marked'[p] => p \in Reachable
    BY <1>0, <2>4, <2>5
  <2>8. \A p \in Roots : marked'[p] \/ p \in toMark'
    BY <1>0, <2>1, <2>4, <2>5
  <2>9. ASSUME NEW p \in Reachable, marked'[p], NEW c \in Children(p)
        PROVE  marked'[c] \/ c \in toMark'
    <3>1. c \in Object /\ p \in Object
      BY <1>0
    <3>2. CASE marked[p]
      BY <2>1, <2>4, <2>5, <3>1, <3>2
    <3>3. CASE ~marked[p]
      <4>1. p = o
        BY <2>5, <2>9, <3>1, <3>3
      <4>. QED BY <2>1, <3>3, <4>1 DEF Visit
    <3>. QED BY <3>2, <3>3
  <2>. QED BY <2>2, <2>3, <2>6, <2>7, <2>8, <2>9 DEF MarkInv
<1>3. CASE pc' # "mark"
  BY <1>3 DEF MarkInv
<1>4. CASE UNCHANGED vars
  <2>1. Reachable' = Reachable /\ Roots' = Roots /\ \A p : Children(p)' = Children(p)
    BY <1>4, SameReferences DEF vars
  <2>. QED BY <1>4, <2>1 DEF vars, IInv, MarkInv
<1>5. pc' = "mark" => StartMarking \/ Mark \/ UNCHANGED vars
  BY DEF Next, Mutator, Collector, Commit, Disposed, vars, Fetch, Discard,
      AssignVariable, AssignElement, Throw, Catch, LeaveEnvironment, CreateObject,
      EnterEnvironment, ResizeArray, AddMember, Collect, DisposeInterpreter, CheckGC, ResetMark,
      StartMarking, Mark, StartSweeping, Sweep, FinishCollection, ReallocArray, AppendMember,
      AllocObject, AfterCreation, Call
<1>. QED BY <1>1, <1>2, <1>3, <1>4, <1>5

LEMMA SweepStep ==
  ASSUME IInv, TypeOK', [Next]_vars
  PROVE  SweepInv'
<1>. USE DEF list, contents, roots, collector
<1>0. /\ TypeOK /\ Reachable \subseteq allocated /\ allocated \subseteq Object
      /\ Roots \subseteq Reachable /\ \A o \in Reachable : Children(o) \subseteq Reachable
      /\ Reachable \subseteq Object
      /\ \A p \in allocated : p \in Nat /\ p > None
  BY ReachableIsClosed, AllocatedAreObjects DEF IInv, InUseInv, Closed
<1>1. CASE StartSweeping
  <2>1. /\ pc = "mark" /\ toMark = {} /\ cursor' = header /\ UNCHANGED <<marked, allocated>>
        /\ UNCHANGED <<roots, contents>>
    BY <1>1 DEF StartSweeping
  <2>2. Reachable' = Reachable
    BY <2>1, SameReferences
  <2> DEFINE S == {o \in Reachable : marked[o]}
  <2>3. S \in SUBSET Object /\ Roots \subseteq S /\ Closed(S)
    BY <1>0, <2>1 DEF IInv, MarkInv, Closed
  <2>. HIDE DEF S
  <2>4. Reachable \subseteq S
    BY <2>3, ReachableIsLeast
  <2>5. \A o \in allocated : marked[o] <=> o \in Reachable
    BY <2>1, <2>4 DEF S, IInv, MarkInv
  <2>6. header \in allocated \union {None} /\ \A p \in allocated : p <= header
    BY DEF IInv, ListIsExact
  <2>7. \A p \in allocated : ~(p > header)
    BY <1>0, <2>6 DEF None
  <2>. QED BY <2>1, <2>2, <2>5, <2>6, <2>7 DEF SweepInv
<1>2. CASE Sweep
  <2>1. /\ pc = "sweep" /\ cursor \in allocated /\ cursor' = next[cursor] /\ marked' = marked
        /\ \A o \in allocated : marked[o] <=> o \in Reachable
        /\ \A o \in allocated : o > cursor => marked[o]
        /\ allocated' \subseteq allocated /\ (cursor \in allocated' => marked[cursor])
        /\ (allocated' = allocated \/ allocated' = allocated \ {cursor})
    BY <1>2 DEF Sweep, IInv, SweepInv, Dispose
  <2>2. Reachable' = Reachable
    BY <1>2, CollectorStep DEF Collector
  <2>3. /\ next[cursor] \in allocated \union {None} /\ next[cursor] < cursor
        /\ \A p \in allocated : p < cursor => p <= next[cursor]
    BY <2>1 DEF IInv, ListIsExact
  <2>4. next[cursor] \in Nat /\ cursor \in Nat /\ next[cursor] # cursor
    BY <1>0, <2>1, <2>3 DEF None
  <2>5. cursor' \in allocated' \union {None}
    BY <2>1, <2>3, <2>4
  <2>6. ASSUME NEW o \in allocated', o > cursor' PROVE marked'[o]
    <3>1. o \in allocated /\ ~(o < cursor)
      BY <1>0, <2>1, <2>3, <2>4, <2>6
    <3>2. o = cursor \/ o > cursor
      BY <1>0, <2>4, <3>1
    <3>. QED BY <2>1, <2>6, <3>1, <3>2
  <2>. QED BY <2>1, <2>2, <2>5, <2>6 DEF SweepInv
<1>3. CASE pc' # "sweep"
  BY <1>3 DEF SweepInv
<1>4. CASE UNCHANGED vars
  <2>1. Reachable' = Reachable
    BY <1>4, SameReferences DEF vars
  <2>. QED BY <1>4, <2>1 DEF vars, IInv, SweepInv
<1>5. pc' = "sweep" => StartSweeping \/ Sweep \/ UNCHANGED vars
  BY DEF Next, Mutator, Collector, Commit, Disposed, vars, Fetch, Discard,
      AssignVariable, AssignElement, Throw, Catch, LeaveEnvironment, CreateObject,
      EnterEnvironment, ResizeArray, AddMember, Collect, DisposeInterpreter, CheckGC, ResetMark,
      StartMarking, Mark, StartSweeping, Sweep, FinishCollection, ReallocArray, AppendMember,
      AllocObject, AfterCreation, Call
<1>. QED BY <1>1, <1>2, <1>3, <1>4, <1>5

-----------------------------------------------------------------------------
(* The theorems.                                                           *)

LEMMA Initially == Init => IInv
<1>. SUFFICES ASSUME Init PROVE IInv
  OBVIOUS
<1>1. /\ NoOperation \in Operation /\ None \in Ref /\ "string" \in Types
      /\ <<>> \in Seq(Ref) /\ <<>> \in Seq(Environment) /\ 0 \in 0 .. MaxObjects
  BY NoOperationType, EmptySeq, HeapAssumption DEF Types, Ref
<1>2. TypeOK
  BY <1>1, HeapAssumption DEF Init, TypeOK
<1>3. Roots = {}
  <2>1. Range(<<>>) = {} /\ DOMAIN <<>> = {}
    BY DEF Range
  <2>. QED BY <2>1 DEF Init, Roots
<1>4. Reachable = {}
  BY <1>3, ReachableIsLeast DEF Closed
<1>5. ListIsExact
  BY DEF Init, ListIsExact
<1>6. OperationInv
  BY <1>4 DEF Init, OperationInv, NoOperation
<1>. QED
  BY <1>2, <1>4, <1>5, <1>6 DEF Init, IInv, InUseInv, ResetInv, MarkInv, SweepInv

\* The inductive invariant: types, the list, the operation that waits for a collection, and
\* the progress of the collector through resetting, marking and sweeping.
THEOREM Invariance == Spec => []IInv
<1>1. IInv /\ [Next]_vars => IInv'
  <2>. SUFFICES ASSUME IInv, [Next]_vars PROVE IInv'
    OBVIOUS
  <2>1. TypeOK'
    BY TypeStep DEF IInv
  <2>2. ListIsExact'
    BY ListStep DEF IInv
  <2>. QED
    BY <2>1, <2>2, OperationStep, InUseStep, ResetStep, MarkStep, SweepStep DEF IInv
<1>. QED BY <1>1, Initially, PTL DEF Spec

\* The state of the heap and of its caller is always of the shape TypeOK gives.
THEOREM TypeCorrectness == Spec => []TypeOK
<1>1. IInv => TypeOK
  BY DEF IInv
<1>. QED BY <1>1, Invariance, PTL

\* The list of heap.header is always exactly the objects not freed, newest first.
THEOREM ListCorrectness == Spec => []ListIsExact
<1>1. IInv => ListIsExact
  BY DEF IInv
<1>. QED BY <1>1, Invariance, PTL

LEMMA InUse == IInv => NothingInUseIsFreed
<1>. SUFFICES ASSUME IInv PROVE NothingInUseIsFreed
  OBVIOUS
<1>1. Roots \subseteq Reachable /\ Range(stack) \ {None} \subseteq Roots
  BY ReachableIsClosed DEF IInv, Roots
<1>. QED BY <1>1 DEF IInv, InUseInv, OperationInv, NothingInUseIsFreed

\* No collection ever frees an object that the program can still get at, or one that the
\* heap function that caused the collection is about to use.
THEOREM NothingFreedInUse == Spec => []NothingInUseIsFreed
BY InUse, Invariance, PTL

\* Every collection frees all the program has lost.
THEOREM CollectionIsComplete == Spec => GarbageIsFreed
<1>1. IInv /\ [Next]_vars => [pc = "sweep" /\ pc' # "sweep" => allocated = Reachable]_vars
  <2>. SUFFICES ASSUME IInv, [Next]_vars, pc = "sweep", pc' # "sweep"
                PROVE  allocated = Reachable
    OBVIOUS
  <2>1. cursor = None
    BY DEF Next, Mutator, Collector, Commit, Disposed, vars, Fetch, Discard,
      AssignVariable, AssignElement, Throw, Catch, LeaveEnvironment, CreateObject,
      EnterEnvironment, ResizeArray, AddMember, Collect, DisposeInterpreter, CheckGC, ResetMark,
      StartMarking, Mark, StartSweeping, Sweep, FinishCollection, ReallocArray, AppendMember,
      AllocObject
  <2>2. \A o \in allocated : o > None
    BY HeapAssumption DEF IInv, TypeOK, None
  <2>. QED BY <2>1, <2>2 DEF IInv, SweepInv, InUseInv
<1>. QED BY <1>1, Invariance, PTL DEF Spec, GarbageIsFreed

\* Every call of gc_mark marks one more object or leaves one less to mark, so that marking
\* ends whatever refers to what.
THEOREM MarkingIsFinite == Spec => MarkingEnds
<1> DEFINE Step ==
      pc = "mark" /\ pc' = "mark" =>
        \/ Unmarked' \subseteq Unmarked /\ Unmarked' # Unmarked
        \/ Unmarked' = Unmarked /\ toMark' \subseteq toMark /\ toMark' # toMark
<1>1. IInv /\ [Next]_vars => [Step]_vars
  <2>. SUFFICES ASSUME IInv, Next, pc = "mark", pc' = "mark" PROVE Step
    OBVIOUS
  <2>1. Mark
    BY DEF Next, Mutator, Collector, Commit, Disposed, Fetch, Discard,
      AssignVariable, AssignElement, Throw, Catch, LeaveEnvironment, CreateObject,
      EnterEnvironment, ResizeArray, AddMember, Collect, DisposeInterpreter, CheckGC, ResetMark,
      StartMarking, Mark, StartSweeping, Sweep, FinishCollection, ReallocArray, AppendMember,
      AllocObject
  <2>2. PICK o \in toMark : /\ marked' = [marked EXCEPT ![o] = TRUE]
                            /\ toMark' = (toMark \ {o}) \union Visit(o)
    BY <2>1 DEF Mark
  <2>3. o \in Object /\ marked \in [Object -> BOOLEAN]
    BY DEF IInv, TypeOK
  <2>4. CASE marked[o]
    <3>1. marked' = marked
      BY <2>2, <2>3, <2>4
    <3>2. toMark' = toMark \ {o}
      BY <2>2, <2>4 DEF Visit
    <3>. QED BY <3>1, <3>2 DEF Unmarked
  <2>5. CASE ~marked[o]
    <3>1. Unmarked' = Unmarked \ {o} /\ o \in Unmarked
      BY <2>2, <2>3, <2>5 DEF Unmarked
    <3>. QED BY <3>1
  <2>. QED BY <2>4, <2>5
<1>. HIDE DEF Step
<1>2. Spec => [][Step]_vars
  BY <1>1, Invariance, PTL DEF Spec
<1>. QED BY <1>2 DEF Step, MarkingEnds

\* The heap implements Memory: what a step does to the objects allocated and in use is to
\* allocate one, to free one not in use, or to lose some.
THEOREM Refinement == Spec => PromiseKept
<1>1. Init => Promise!Start
  BY Initially, RootsAreObjects DEF Init, Promise!Start, IInv, InUseInv
<1>2. IInv /\ IInv' /\ [Next]_vars =>
        [Promise!Lose \/ Promise!Allocate \/ Promise!Free]_<<allocated, Reachable>>
  <2>. SUFFICES ASSUME IInv, IInv', [Next]_vars
                PROVE  \/ Promise!Lose \/ Promise!Allocate \/ Promise!Free
                       \/ UNCHANGED <<allocated, Reachable>>
    OBVIOUS
  <2>0. TypeOK /\ TypeOK' /\ OperationInv
    BY DEF IInv
  <2>1. CASE ProgramStep
    BY <2>0, <2>1, ProgramSteps DEF Promise!Lose
  <2>2. CASE CreateObject \/ ResizeArray \/ AddMember \/ Collect
    BY <2>2, CallStep
  <2>3. CASE AllocObject
    BY <2>0, <2>3, AllocStep DEF Promise!Allocate
  <2>4. CASE Collector
    <3>1. Reachable' = Reachable
      BY <2>0, <2>4, CollectorStep
    <3>2. CASE Sweep /\ ~marked[cursor]
      <4>1. cursor \in allocated \ Reachable /\ allocated' = allocated \ {cursor}
        BY <3>2 DEF Sweep, IInv, SweepInv, Dispose
      <4>. QED BY <3>1, <4>1 DEF Promise!Free
    <3>3. CASE ~(Sweep /\ ~marked[cursor])
      <4>1. allocated' = allocated
        BY <2>4, <3>3 DEF Collector, CheckGC, ResetMark, StartMarking, Mark, StartSweeping,
          Sweep, FinishCollection
      <4>. QED BY <3>1, <4>1
    <3>. QED BY <3>2, <3>3
  <2>5. CASE UNCHANGED vars
    <3>1. UNCHANGED <<roots, contents, allocated>>
      BY <2>5 DEF vars
    <3>. QED BY <3>1, SameReferences
  <2>. QED
    BY <2>1, <2>2, <2>3, <2>4, <2>5 DEF Next, Mutator, Commit, Disposed, ProgramStep
<1>. QED BY <1>1, <1>2, Invariance, PTL DEF Spec, PromiseKept, Promise!Behaviour

-----------------------------------------------------------------------------
(* Sums over sets of objects.                                              *)

Pick(T) == CHOOSE x \in T : TRUE

\* h sums up c over the subsets of S of at most n elements.
Sums(h, c, n, S) ==
  \A T \in SUBSET S :
    Cardinality(T) <= n => h[T] = IF T = {} THEN 0 ELSE c[Pick(T)] + h[T \ {Pick(T)}]

\* The sum of c over S.
Total(c, S) == (CHOOSE h : Sums(h, c, Cardinality(S), S))[S]

\* A subset is smaller by the element that is picked.
LEMMA OneLess ==
  ASSUME NEW S, IsFiniteSet(S), NEW T \in SUBSET S
  PROVE  /\ IsFiniteSet(T) /\ Cardinality(T) \in Nat /\ Cardinality(S) \in Nat
         /\ Cardinality(T) <= Cardinality(S)
         /\ Cardinality(T) = 0 <=> T = {}
         /\ T # {} => Pick(T) \in T
         /\ \A x \in T : Cardinality(T \ {x}) = Cardinality(T) - 1 /\ T \ {x} \in SUBSET S
<1>1. IsFiniteSet(T) /\ Cardinality(T) <= Cardinality(S)
  BY FS_Subset
<1>2. Cardinality(T) \in Nat /\ Cardinality(S) \in Nat /\ (Cardinality(T) = 0 <=> T = {})
  BY <1>1, FS_CardinalityType, FS_EmptySet
<1>3. \A x \in T : Cardinality(T \ {x}) = Cardinality(T) - 1
  BY <1>1, FS_RemoveElement
<1> QED
  BY <1>1, <1>2, <1>3 DEF Pick

LEMMA SumsExist ==
  ASSUME NEW S, IsFiniteSet(S), NEW c, NEW n \in Nat
  PROVE  \E h : Sums(h, c, n, S)
<1> DEFINE B == {k \in Nat : ~\E h : Sums(h, c, k, S)}
<1>1. SUFFICES ASSUME B # {} PROVE FALSE
  BY DEF B
<1>2. PICK k \in B : \A m \in B : k <= m
  <2>1. B \in SUBSET Nat
    OBVIOUS
  <2> HIDE DEF B
  <2> QED
    BY <1>1, <2>1, Least
<1>3. k \in Nat /\ ~\E h : Sums(h, c, k, S)
  OBVIOUS
<1>4. CASE k = 0
  <2>1. Sums([T \in SUBSET S |-> 0], c, 0, S)
    BY OneLess DEF Sums
  <2> QED
    BY <1>3, <1>4, <2>1
<1>5. CASE k # 0
  <2>1. k - 1 \in Nat /\ ~(k <= k - 1)
    BY <1>3, <1>5
  <2>2. PICK h : Sums(h, c, k - 1, S)
    BY <1>2, <2>1
  <2> DEFINE g == [T \in SUBSET S |-> IF T = {} THEN 0 ELSE c[Pick(T)] + h[T \ {Pick(T)}]]
  <2>3. ASSUME NEW T \in SUBSET S, Cardinality(T) <= k
        PROVE  g[T] = IF T = {} THEN 0 ELSE c[Pick(T)] + g[T \ {Pick(T)}]
    <3>1. CASE T # {}
      <4> DEFINE R == T \ {Pick(T)}
      <4>1. R \in SUBSET S /\ Cardinality(R) <= k - 1
        BY <1>3, <2>3, <3>1, OneLess
      <4>2. h[R] = IF R = {} THEN 0 ELSE c[Pick(R)] + h[R \ {Pick(R)}]
        BY <2>2, <4>1 DEF Sums
      <4> HIDE DEF R
      <4>3. g[R] = h[R]
        BY <4>1, <4>2
      <4> QED
        BY <3>1, <4>3 DEF R
    <3> QED
      BY <3>1
  <2> HIDE DEF g
  <2>4. Sums(g, c, k, S)
    BY <2>3 DEF Sums
  <2> QED
    BY <1>3, <2>4
<1> QED
  BY <1>4, <1>5

\* Two sums of the same numbers are the same.
LEMMA SumsAgree ==
  ASSUME NEW S, IsFiniteSet(S), NEW R \in SUBSET S, NEW c, NEW d, NEW h, NEW g,
         Sums(h, c, Cardinality(S), S), Sums(g, d, Cardinality(R), R), \A x \in R : c[x] = d[x],
         NEW T \in SUBSET R
  PROVE  h[T] = g[T]
<1> DEFINE B == {k \in Nat : \E U \in SUBSET R : Cardinality(U) = k /\ h[U] # g[U]}
<1>0. IsFiniteSet(R)
  BY FS_Subset
<1>1. SUFFICES ASSUME h[T] # g[T] PROVE FALSE
  OBVIOUS
<1>2. PICK k \in B : \A m \in B : k <= m
  <2>1. B \in SUBSET Nat
    OBVIOUS
  <2>2. Cardinality(T) \in B
    BY <1>0, <1>1, OneLess
  <2>3. B # {}
    BY <2>2
  <2> HIDE DEF B
  <2> QED
    BY <2>1, <2>3, Least
<1>3. PICK U \in SUBSET R : Cardinality(U) = k /\ h[U] # g[U]
  BY <1>2
<1>4. /\ U \in SUBSET S /\ Cardinality(U) <= Cardinality(S) /\ Cardinality(U) <= Cardinality(R)
      /\ k \in Nat
  BY <1>0, <1>3, OneLess
<1>5. /\ h[U] = IF U = {} THEN 0 ELSE c[Pick(U)] + h[U \ {Pick(U)}]
      /\ g[U] = IF U = {} THEN 0 ELSE d[Pick(U)] + g[U \ {Pick(U)}]
  BY <1>4 DEF Sums
<1>6. U # {}
  BY <1>3, <1>5
<1> DEFINE V == U \ {Pick(U)}
<1>7. Pick(U) \in U /\ V \in SUBSET R /\ Cardinality(V) = k - 1
  BY <1>0, <1>3, <1>6, OneLess
<1>8. ~(k <= k - 1) /\ k - 1 \in Nat
  <2>1. Cardinality(V) \in Nat
    BY <1>0, <1>7, OneLess
  <2> QED
    BY <1>4, <1>7, <2>1
<1> HIDE DEF V
<1>9. h[V] = g[V]
  BY <1>2, <1>7, <1>8
<1> QED
  BY <1>3, <1>5, <1>6, <1>7, <1>9 DEF V

LEMMA TotalSums ==
  ASSUME NEW S, IsFiniteSet(S), NEW c
  PROVE  \E h : Sums(h, c, Cardinality(S), S) /\ \A T \in SUBSET S : Total(c, T) = h[T]
<1> DEFINE It(T) == CHOOSE h : Sums(h, c, Cardinality(T), T)
<1>1. ASSUME NEW T \in SUBSET S
      PROVE  Sums(It(T), c, Cardinality(T), T) /\ Total(c, T) = It(T)[T]
  <2>1. IsFiniteSet(T) /\ Cardinality(T) \in Nat
    BY OneLess
  <2>2. \E h : Sums(h, c, Cardinality(T), T)
    BY <2>1, SumsExist
  <2> QED
    BY <2>2 DEF Total
<1>2. Sums(It(S), c, Cardinality(S), S)
  BY <1>1
<1>3. ASSUME NEW T \in SUBSET S PROVE It(S)[T] = It(T)[T]
  <2>1. Sums(It(T), c, Cardinality(T), T)
    BY <1>1
  <2> DEFINE h == It(S)
             g == It(T)
  <2>2. Sums(h, c, Cardinality(S), S) /\ Sums(g, c, Cardinality(T), T)
    BY <1>2, <2>1
  <2> HIDE DEF h, g
  <2>3. h[T] = g[T]
    BY <2>2, SumsAgree
  <2> QED
    BY <2>3 DEF h, g
<1> QED
  BY <1>1, <1>2, <1>3

LEMMA TotalPicks ==
  ASSUME NEW S, IsFiniteSet(S), NEW c
  PROVE  Total(c, S) = IF S = {} THEN 0 ELSE c[Pick(S)] + Total(c, S \ {Pick(S)})
<1>1. PICK h : Sums(h, c, Cardinality(S), S) /\ \A T \in SUBSET S : Total(c, T) = h[T]
  BY TotalSums
<1>2. h[S] = IF S = {} THEN 0 ELSE c[Pick(S)] + h[S \ {Pick(S)}]
  BY <1>1, OneLess DEF Sums
<1>3. S \in SUBSET S /\ S \ {Pick(S)} \in SUBSET S
  OBVIOUS
<1> QED
  BY <1>1, <1>2, <1>3

\* A sum is the sum without an element and that element, whichever it is.
SumsRight(c, S) ==
  /\ Total(c, S) \in Int
  /\ \A x \in S : Total(c, S) = c[x] + Total(c, S \ {x})

LEMMA TotalWithout ==
  ASSUME NEW S, IsFiniteSet(S), NEW c, \A x \in S : c[x] \in Int
  PROVE  SumsRight(c, S)
<1> DEFINE B == {k \in Nat : \E U \in SUBSET S : Cardinality(U) = k /\ ~SumsRight(c, U)}
<1>1. SUFFICES ASSUME ~SumsRight(c, S) PROVE FALSE
  OBVIOUS
<1>2. PICK k \in B : \A m \in B : k <= m
  <2>1. B \in SUBSET Nat
    OBVIOUS
  <2>2. S \in SUBSET S /\ Cardinality(S) \in Nat
    BY OneLess
  <2>3. B # {}
    BY <1>1, <2>2
  <2> HIDE DEF B
  <2> QED
    BY <2>1, <2>3, Least
<1>3. PICK U \in SUBSET S : Cardinality(U) = k /\ ~SumsRight(c, U)
  BY <1>2
<1>4. IsFiniteSet(U) /\ k \in Nat
  BY <1>3, OneLess
<1>5. ASSUME NEW V \in SUBSET S, Cardinality(V) = k - 1 PROVE SumsRight(c, V)
  <2>1. k - 1 \in Nat
    BY <1>5, OneLess
  <2>2. k - 1 \notin B
    BY <1>2, <1>4, <2>1
  <2> QED
    BY <1>5, <2>1, <2>2
<1>6. Total(c, U) = IF U = {} THEN 0 ELSE c[Pick(U)] + Total(c, U \ {Pick(U)})
  BY <1>4, TotalPicks
<1>7. CASE U = {}
  BY <1>3, <1>6, <1>7 DEF SumsRight
<1>8. CASE U # {}
  <2> DEFINE p == Pick(U)
             P == U \ {p}
  <2>1. p \in U /\ P \in SUBSET S /\ Cardinality(P) = k - 1 /\ c[p] \in Int
    BY <1>3, <1>8, OneLess
  <2>2. SumsRight(c, P) /\ Total(c, U) = c[p] + Total(c, P)
    BY <1>5, <1>6, <1>8, <2>1
  <2> HIDE DEF p
  <2>3. ASSUME NEW x \in U PROVE Total(c, U) = c[x] + Total(c, U \ {x})
    <3> DEFINE X == U \ {x}
    <3>1. X \in SUBSET S /\ Cardinality(X) = k - 1 /\ c[x] \in Int
      BY <1>3, OneLess
    <3>2. SumsRight(c, X)
      BY <1>5, <3>1
    <3>3. CASE x = p
      BY <2>2, <3>3
    <3>4. CASE x # p
      <4>1. x \in P /\ p \in X /\ P \ {x} = X \ {p}
        BY <2>1, <3>4
      <4>2. Total(c, P) = c[x] + Total(c, P \ {x}) /\ Total(c, X) = c[p] + Total(c, X \ {p})
        BY <2>2, <3>2, <4>1 DEF SumsRight
      <4> DEFINE t == Total(c, P \ {x})
      <4>3. Total(c, P) = c[x] + t /\ Total(c, X) = c[p] + t
        BY <4>1, <4>2
      <4>4. t \in Int
        <5> HIDE DEF P, X
        <5>1. P \ {x} \in SUBSET S /\ Cardinality(P \ {x}) = k - 2
          BY <1>4, <2>1, <4>1, OneLess
        <5>2. k - 2 \in Nat /\ ~(k <= k - 2)
          BY <1>4, <5>1, OneLess
        <5>3. k - 2 \notin B
          BY <1>2, <5>2
        <5>4. SumsRight(c, P \ {x})
          BY <5>1, <5>2, <5>3
        <5> QED
          BY <5>4 DEF SumsRight
      <4> HIDE DEF t, P, X
      <4> QED
        BY <2>1, <2>2, <3>1, <4>3, <4>4 DEF X
    <3> QED
      BY <3>3, <3>4
  <2>4. Total(c, U) \in Int
    BY <2>1, <2>2 DEF SumsRight
  <2> QED
    BY <1>3, <2>3, <2>4 DEF SumsRight
<1> QED
  BY <1>7, <1>8

\* Sums of the same numbers are the same.
LEMMA TotalOfSame ==
  ASSUME NEW S, IsFiniteSet(S), NEW c, NEW d, \A x \in S : c[x] = d[x]
  PROVE  Total(c, S) = Total(d, S)
<1>1. PICK h : Sums(h, c, Cardinality(S), S) /\ \A T \in SUBSET S : Total(c, T) = h[T]
  BY TotalSums
<1>2. PICK g : Sums(g, d, Cardinality(S), S) /\ \A T \in SUBSET S : Total(d, T) = g[T]
  BY TotalSums
<1>3. S \in SUBSET S
  OBVIOUS
<1>4. h[S] = g[S]
  BY <1>1, <1>2, <1>3, SumsAgree
<1> QED
  BY <1>1, <1>2, <1>3, <1>4

-----------------------------------------------------------------------------
(* The size of the heap.                                                   *)

\* The operation that waits fits the object it is for, and what it has made so far: a scope chain
\* whose frame is still to come is on the chain of environments.
KindInv ==
  /\ op.name = "alloc" /\ op.type \in {"assoc", "scope"} => op.n = 0
  /\ op.dest = "variable" => op.name = "alloc" /\ op.type = "scope"
  /\ op.dest = "frame" =>
       /\ op.name = "alloc" /\ op.type = "assoc" /\ envs # <<>>
       /\ Last(envs).variable # None /\ type[Last(envs).variable] = "scope"
  /\ op.name = "resize" => type[op.obj] = "array"
  /\ op.name = "member" => type[op.obj] = "assoc"

\* The collection of an interpreter that is disposed of has no roots, and leaves nothing.
DisposeInv ==
  /\ op.name = "dispose" => global = None /\ envs = <<>> /\ stack = <<>> /\ exc = None
  /\ pc = "disposed" => allocated = {}

LEMMA WithoutOperation ==
  ASSUME op' = NoOperation PROVE KindInv'
BY DEF KindInv, NoOperation

\* The operation goes on, and the objects it is for keep their types.
LEMMA SameOperation ==
  ASSUME KindInv, envs' = envs, op'.name = op.name, op'.type = op.type, op'.n = op.n,
         op'.dest = op.dest, op'.obj = op.obj,
         op.name \in {"resize", "member"} => type'[op.obj] = type[op.obj],
         op.dest = "frame" => type'[Last(envs).variable] = type[Last(envs).variable]
  PROVE  KindInv'
BY DEF KindInv

LEMMA SweptKinds ==
  ASSUME IInv, KindInv, Sweep PROVE KindInv'
<1>1. /\ cursor' = next[cursor] /\ op' = op /\ envs' = envs /\ pc = "sweep" /\ cursor # None
      /\ IF marked[cursor] THEN type' = type ELSE type' = [type EXCEPT ![cursor] = "string"]
  BY DEF Sweep, Dispose, roots, contents
<1>2. /\ TypeOK /\ OperationInv /\ cursor \in allocated /\ (marked[cursor] <=> cursor \in Reachable)
      /\ Reachable \subseteq Object /\ Roots \subseteq Reachable
  BY <1>1, ReachableIsClosed DEF IInv, SweepInv
<1>3. ASSUME NEW o \in Reachable PROVE type'[o] = type[o]
  BY <1>1, <1>2 DEF TypeOK
<1>4. op.name \in {"resize", "member"} => op.obj \in Reachable
  BY <1>2 DEF OperationInv
<1>5. op.dest = "frame" => Last(envs).variable \in Reachable
  <2>1. SUFFICES ASSUME op.dest = "frame" PROVE Last(envs).variable \in Roots
    BY <1>2
  <2>2. envs # <<>> /\ Last(envs).variable # None
    BY <2>1 DEF KindInv
  <2> QED
    BY <1>2, <2>2, NewestEnvironment DEF Roots
<1> QED
  BY <1>1, <1>3, <1>4, <1>5, SameOperation

LEMMA AllocatedKinds ==
  ASSUME IInv, KindInv, AllocObject PROVE KindInv'
<1>1. CASE op.dest # "variable"
  BY <1>1, WithoutOperation DEF AllocObject, AfterCreation
<1>2. CASE op.dest = "variable"
  <2> DEFINE o == created + 1
  <2>1. op' = [op EXCEPT !.type = "assoc", !.dest = "frame", !.checks = 1]
    BY <1>2 DEF AllocObject, AfterCreation
  <2>2. op \in Operation /\ TypeOK /\ op.name = "alloc" /\ op.type = "scope" /\ op.n = 0 /\ envs # <<>>
    BY <1>2 DEF IInv, TypeOK, KindInv, OperationInv
  <2>3. op'.name = "alloc" /\ op'.type = "assoc" /\ op'.n = 0 /\ op'.dest = "frame"
    BY <2>1, <2>2 DEF Operation
  <2>4. envs' = [envs EXCEPT ![Len(envs)].variable = o] /\ type' = [type EXCEPT ![o] = "scope"]
    BY <1>2, <2>2 DEF AllocObject, Deliver
  <2>5. o \in Object /\ o # None /\ type'[o] = "scope"
    BY <2>2, <2>4, HeapAssumption, SMTT(30) DEF AllocObject, TypeOK, Object, None
  <2> HIDE DEF o
  <2>6. Last(envs').variable = o /\ envs' # <<>>
    <3>1. envs \in Seq(Environment) /\ Len(envs) \in 1 .. Len(envs) /\ envs[Len(envs)] \in Environment
      BY <2>2, NewestEnvironment DEF TypeOK
    <3>2. Len(envs') = Len(envs) /\ envs'[Len(envs)] = [envs[Len(envs)] EXCEPT !.variable = o]
      BY <2>4, <3>1, SMTT(30)
    <3>3. envs'[Len(envs)].variable = o
      BY <3>1, <3>2 DEF Environment
    <3> QED
      BY <3>1, <3>2, <3>3 DEF Last
  <2> QED
    BY <2>3, <2>5, <2>6 DEF KindInv
<1> QED
  BY <1>1, <1>2

LEMMA CalledKinds ==
  ASSUME TypeOK, CreateObject \/ EnterEnvironment \/ ResizeArray \/ AddMember \/ Collect
                   \/ DisposeInterpreter
  PROVE  KindInv' /\ (op'.name = "dispose" => DisposeInterpreter)
<1>1. CASE CreateObject
  <2>1. PICK t \in {"array", "string", "assoc"}, dest \in {"stack", "native"} :
          \E n \in CASE t = "array" -> ArraySizes [] t = "string" -> StringLengths [] OTHER -> {0} :
            op' = [NoOperation EXCEPT !.name = "alloc", !.type = t, !.dest = dest, !.n = n,
                                      !.checks = 1]
    BY <1>1 DEF CreateObject, Call
  <2>2. PICK n \in CASE t = "array" -> ArraySizes [] t = "string" -> StringLengths [] OTHER -> {0} :
          op' = [NoOperation EXCEPT !.name = "alloc", !.type = t, !.dest = dest, !.n = n, !.checks = 1]
    BY <2>1
  <2>3. op'.name = "alloc" /\ op'.type = t /\ op'.dest = dest /\ op'.n = n
    BY <2>2 DEF NoOperation
  <2>4. t = "assoc" => n = 0
    BY <2>2
  <2> QED
    BY <2>3, <2>4 DEF KindInv
<1>2. CASE EnterEnvironment
  <2>1. op'.name = "alloc" /\ op'.type = "scope" /\ op'.dest = "variable" /\ op'.n = 0
    BY <1>2 DEF EnterEnvironment, Call, NoOperation
  <2> QED
    BY <2>1 DEF KindInv
<1>3. CASE ResizeArray
  <2>1. op'.name = "resize" /\ op'.obj = Last(stack) /\ op'.dest = "none" /\ type[Last(stack)] = "array"
        /\ type' = type
    BY <1>3 DEF ResizeArray, Call, NoOperation, contents
  <2> QED
    BY <2>1 DEF KindInv
<1>4. CASE AddMember
  <2>1. PICK o \in Named :
          /\ type[o] = "assoc"
          /\ op' = [NoOperation EXCEPT !.name = "member", !.obj = o, !.value = Last(stack), !.checks = 1]
    BY <1>4 DEF AddMember, Call
  <2>2. op'.name = "member" /\ op'.obj = o /\ op'.dest = "none" /\ type'[o] = "assoc"
    BY <1>4, <2>1 DEF AddMember, NoOperation, contents
  <2> QED
    BY <2>2 DEF KindInv
<1>5. CASE Collect \/ DisposeInterpreter
  <2>1. op'.dest = "none" /\ op'.name \in {"collect", "dispose"} /\ (op'.name = "dispose" => DisposeInterpreter)
    BY <1>5 DEF Collect, DisposeInterpreter, NoOperation
  <2> QED
    BY <2>1 DEF KindInv
<1> QED
  BY <1>1, <1>2, <1>3, <1>4, <1>5

\* Steps of the program while no heap function runs, and the ends of heap functions.
WithoutOne ==
  \/ Fetch \/ Discard \/ AssignVariable \/ AssignElement \/ Throw \/ Catch \/ LeaveEnvironment
  \/ ReallocArray \/ AppendMember

LEMMA NoneLeft == ASSUME OperationInv, WithoutOne PROVE op' = NoOperation
BY DEF OperationInv, WithoutOne, Fetch, Discard, AssignVariable, AssignElement, Throw, Catch,
   LeaveEnvironment, ReallocArray, AppendMember

\* What the collector does to the operation that waits for it.
LEMMA CollectorKeepsOperation ==
  ASSUME TypeOK, OperationInv, Collector
  PROVE  \/ op' = NoOperation
         \/ /\ op'.name = op.name /\ op'.type = op.type /\ op'.n = op.n /\ op'.dest = op.dest
            /\ op'.obj = op.obj
<1>1. [op EXCEPT !.checks = @ - 1].name = op.name /\ [op EXCEPT !.checks = @ - 1].type = op.type
      /\ [op EXCEPT !.checks = @ - 1].n = op.n /\ [op EXCEPT !.checks = @ - 1].dest = op.dest
      /\ [op EXCEPT !.checks = @ - 1].obj = op.obj
  BY DEF TypeOK, Operation
<1>2. op' = op \/ op' = NoOperation \/ op' = [op EXCEPT !.checks = @ - 1]
  BY DEF Collector, CheckGC, ResetMark, StartMarking, Mark, StartSweeping, Sweep, FinishCollection,
     collector
<1> QED
  BY <1>1, <1>2

LEMMA KindStep ==
  ASSUME IInv, KindInv, [Next]_vars PROVE KindInv'
<1>0. TypeOK /\ OperationInv
  BY DEF IInv
<1>1. CASE WithoutOne
  BY <1>0, <1>1, NoneLeft, WithoutOperation
<1>2. CASE CreateObject \/ EnterEnvironment \/ ResizeArray \/ AddMember \/ Collect \/ DisposeInterpreter
  BY <1>0, <1>2, CalledKinds
<1>3. CASE Collector /\ ~Sweep
  <2>1. envs' = envs /\ type' = type
    BY <1>3 DEF Collector, CheckGC, ResetMark, StartMarking, Mark, StartSweeping, FinishCollection,
       roots, contents
  <2> QED
    BY <1>0, <1>3, <2>1, CollectorKeepsOperation, WithoutOperation, SameOperation
<1>4. CASE Sweep
  BY <1>4, SweptKinds
<1>5. CASE AllocObject
  BY <1>5, AllocatedKinds
<1>6. CASE UNCHANGED vars
  <2>1. envs' = envs /\ type' = type /\ op' = op
    BY <1>6 DEF vars, roots, contents
  <2> QED
    BY <2>1, SameOperation
<1> QED
  BY <1>1, <1>2, <1>3, <1>4, <1>5, <1>6 DEF Next, Mutator, Collector, Commit, Disposed, WithoutOne

LEMMA DisposeStepKept ==
  ASSUME IInv, DisposeInv, [Next]_vars PROVE DisposeInv'
<1>0. TypeOK /\ OperationInv /\ allocated \subseteq Object
  BY AllocatedAreObjects DEF IInv
<1>1. op'.name = "dispose" => global' = None /\ envs' = <<>> /\ stack' = <<>> /\ exc' = None
  <2>1. CASE WithoutOne
    BY <1>0, <2>1, NoneLeft DEF NoOperation
  <2>2. CASE CreateObject \/ EnterEnvironment \/ ResizeArray \/ AddMember \/ Collect
               \/ DisposeInterpreter
    BY <1>0, <2>2, CalledKinds DEF DisposeInterpreter, ReleaseVariables
  <2>3. CASE Collector
    <3>1. UNCHANGED <<global, envs, stack, exc>>
      BY <2>3 DEF Collector, CheckGC, ResetMark, StartMarking, Mark, StartSweeping, Sweep,
         FinishCollection, roots
    <3> QED
      BY <1>0, <2>3, <3>1, CollectorKeepsOperation DEF DisposeInv, NoOperation
  <2>4. CASE AllocObject
    <3>1. op'.name # "dispose"
      <4>1. op \in Operation /\ op.name = "alloc"
        BY <1>0, <2>4 DEF AllocObject, TypeOK
      <4>2. CASE op.dest = "variable"
        <5>1. op' = [op EXCEPT !.type = "assoc", !.dest = "frame", !.checks = 1]
          BY <2>4, <4>2 DEF AllocObject, AfterCreation
        <5> QED
          BY <4>1, <5>1 DEF Operation
      <4>3. CASE op.dest # "variable"
        BY <2>4, <4>3 DEF AllocObject, AfterCreation, NoOperation
      <4> QED
        BY <4>2, <4>3
    <3> QED
      BY <3>1
  <2>5. CASE UNCHANGED vars
    BY <2>5 DEF vars, roots, DisposeInv
  <2> QED
    BY <2>1, <2>2, <2>3, <2>4, <2>5 DEF Next, Mutator, Commit, Disposed, WithoutOne
<1>2. ASSUME pc' = "disposed" PROVE allocated' = {}
  <2>1. (pc = "disposed" /\ UNCHANGED vars) \/ (FinishCollection /\ op.name = "dispose")
    BY <1>2 DEF Next, Mutator, Collector, Commit, Disposed, vars, Fetch, Discard,
      AssignVariable, AssignElement, Throw, Catch, LeaveEnvironment, CreateObject,
      EnterEnvironment, ResizeArray, AddMember, Collect, DisposeInterpreter, CheckGC, ResetMark,
      StartMarking, Mark, StartSweeping, Sweep, FinishCollection, ReallocArray, AppendMember,
      AllocObject, AfterCreation, Call
  <2>2. CASE pc = "disposed" /\ UNCHANGED vars
    BY <2>2 DEF DisposeInv, vars
  <2>3. CASE FinishCollection /\ op.name = "dispose"
    <3>1. global = None /\ envs = <<>> /\ stack = <<>> /\ exc = None
      BY <2>3 DEF DisposeInv
    <3>2. Roots = {}
      <4>1. Range(stack) = {} /\ DOMAIN envs = {}
        BY <3>1 DEF Range
      <4> QED
        BY <3>1, <4>1 DEF Roots
    <3>3. Reachable = {}
      BY <3>2, ReachableIsLeast DEF Closed
    <3>4. cursor = None /\ pc = "sweep" /\ allocated' = allocated
      BY <2>3 DEF FinishCollection
    <3>5. \A o \in allocated : o > cursor
      BY <1>0, <3>4, AllocatedAreObjects
    <3> QED
      BY <3>3, <3>4, <3>5 DEF IInv, SweepInv
  <2> QED
    BY <2>1, <2>2, <2>3
<1> QED
  BY <1>1, <1>2 DEF DisposeInv

Costs == [o \in Object |-> Cost(o)]

SizeInv == size = Total(Costs, allocated)

LEMMA CostsAreNumbers ==
  TypeOK => /\ \A o \in Object : Costs[o] = Cost(o) /\ Cost(o) \in Int
            /\ IsFiniteSet(allocated) /\ allocated \subseteq Object
            /\ \A o \in allocated : Costs[o] \in Int
<1> SUFFICES ASSUME TypeOK
             PROVE  /\ \A o \in Object : Costs[o] = Cost(o) /\ Cost(o) \in Int
                    /\ IsFiniteSet(allocated) /\ allocated \subseteq Object
                    /\ \A o \in allocated : Costs[o] \in Int
  OBVIOUS
<1>1. ASSUME NEW o \in Object PROVE Costs[o] = Cost(o) /\ Cost(o) \in Int
  <2>1. Len(cells[o]) \in Int /\ capacity[o] \in Int
    BY LenProperties DEF TypeOK
  <2> QED
    BY <2>1 DEF Cost, Costs
<1>2. allocated \subseteq Object
  BY AllocatedAreObjects
<1>3. IsFiniteSet(allocated)
  <2>1. IsFiniteSet(1 .. created)
    BY FS_Interval DEF TypeOK
  <2> QED
    BY <2>1, FS_Subset DEF TypeOK
<1> QED
  BY <1>1, <1>2, <1>3

\* The sum that SizeIsExact takes is the sum of the costs.
LEMMA SizeIsTotal == TypeOK => MapThenSumSet(Cost, allocated) = Total(Costs, allocated)
<1> SUFFICES ASSUME TypeOK PROVE MapThenSumSet(Cost, allocated) = Total(Costs, allocated)
  OBVIOUS
<1> DEFINE S == allocated
           Body(f) == [T \in SUBSET S |-> IF T = {} THEN 0
                                         ELSE Cost(CHOOSE x \in T : TRUE) + f[T \ {CHOOSE x \in T : TRUE}]]
           iter == CHOOSE f : f = Body(f)
<1>1. IsFiniteSet(S) /\ \A o \in S : Costs[o] = Cost(o)
  BY CostsAreNumbers
<1>2. MapThenSumSet(Cost, S) = iter[S]
  BY DEF MapThenSumSet, MapThenFoldSet
<1>3. PICK h : Sums(h, Costs, Cardinality(S), S) /\ \A T \in SUBSET S : Total(Costs, T) = h[T]
  BY <1>1, TotalSums
<1>4. \E f : f = Body(f)
  <2> DEFINE g == [T \in SUBSET S |-> h[T]]
  <2>1. ASSUME NEW T \in SUBSET S
        PROVE  g[T] = IF T = {} THEN 0
                      ELSE Cost(CHOOSE x \in T : TRUE) + g[T \ {CHOOSE x \in T : TRUE}]
    <3>1. h[T] = IF T = {} THEN 0 ELSE Costs[Pick(T)] + h[T \ {Pick(T)}]
      BY <1>1, <1>3, OneLess DEF Sums
    <3>2. T # {} => Costs[Pick(T)] = Cost(Pick(T))
      BY <1>1, OneLess
    <3>3. T \ {Pick(T)} \in SUBSET S
      OBVIOUS
    <3> QED
      BY <3>1, <3>2, <3>3 DEF Pick
  <2>2. g = Body(g)
    BY <2>1
  <2> QED
    BY <2>2
<1>5. iter = Body(iter)
  BY <1>4
<1> HIDE DEF iter
<1>6. ASSUME NEW T \in SUBSET S
      PROVE  iter[T] = IF T = {} THEN 0 ELSE Costs[Pick(T)] + iter[T \ {Pick(T)}]
  <2>1. iter[T] = IF T = {} THEN 0 ELSE Cost(Pick(T)) + iter[T \ {Pick(T)}]
    BY <1>5 DEF Pick
  <2>2. T # {} => Costs[Pick(T)] = Cost(Pick(T))
    BY <1>1, OneLess
  <2> QED
    BY <2>1, <2>2
<1>7. Sums(iter, Costs, Cardinality(S), S)
  BY <1>6 DEF Sums
<1>8. iter[S] = h[S]
  BY <1>1, <1>3, <1>7, SumsAgree
<1> QED
  BY <1>2, <1>3, <1>8

\* One object costs something else.
LEMMA TotalOfOneOther ==
  ASSUME NEW S, IsFiniteSet(S), NEW c, NEW d, NEW o \in S,
         \A x \in S : c[x] \in Int /\ d[x] \in Int, \A x \in S \ {o} : c[x] = d[x]
  PROVE  Total(d, S) = Total(c, S) + (d[o] - c[o])
<1>1. IsFiniteSet(S \ {o})
  BY FS_Subset
<1>2. /\ Total(c, S) = c[o] + Total(c, S \ {o}) /\ Total(d, S) = d[o] + Total(d, S \ {o})
      /\ Total(c, S \ {o}) \in Int
  BY <1>1, TotalWithout DEF SumsRight
<1>3. Total(c, S \ {o}) = Total(d, S \ {o})
  BY <1>1, TotalOfSame
<1> DEFINE t == Total(c, S \ {o})
           a == c[o]
           b == d[o]
<1>4. Total(c, S) = a + t /\ Total(d, S) = b + t /\ t \in Int /\ a \in Int /\ b \in Int
  BY <1>2, <1>3
<1> HIDE DEF t, a, b
<1>5. Total(d, S) = Total(c, S) + (b - a)
  BY <1>4
<1> QED
  BY <1>5 DEF a, b

LEMMA CostsAreNumbersNext ==
  (TypeOK => /\ \A o \in Object : Costs[o] = Cost(o) /\ Cost(o) \in Int
             /\ IsFiniteSet(allocated) /\ allocated \subseteq Object
             /\ \A o \in allocated : Costs[o] \in Int)'
BY CostsAreNumbers, PTL

\* Nothing that counts changes.
LEMMA SameSize ==
  ASSUME TypeOK, SizeInv, size' = size, allocated' = allocated,
         \A o \in Object : Cost(o)' = Cost(o)
  PROVE  SizeInv'
<1>1. IsFiniteSet(allocated) /\ \A o \in allocated : Costs[o] = Costs'[o]
  BY CostsAreNumbers DEF Costs
<1>2. Total(Costs, allocated) = Total(Costs', allocated)
  BY <1>1, TotalOfSame
<1> QED
  BY <1>2 DEF SizeInv

\* One object grows or shrinks.
LEMMA OtherSize ==
  ASSUME TypeOK, TypeOK', SizeInv, allocated' = allocated, NEW o \in allocated,
         \A p \in Object \ {o} : Cost(p)' = Cost(p), size' = size + (Cost(o)' - Cost(o))
  PROVE  SizeInv'
<1>1. IsFiniteSet(allocated) /\ \A p \in allocated : Costs[p] = Cost(p) /\ Costs[p] \in Int /\ p \in Object
  BY CostsAreNumbers
<1>2. \A p \in Object : Costs'[p] = Cost(p)' /\ Costs'[p] \in Int
  BY CostsAreNumbersNext
<1>3. \A p \in allocated \ {o} : Costs[p] = Costs'[p]
  BY <1>1, <1>2
<1> DEFINE c == Costs
           d == Costs'
<1>4. /\ IsFiniteSet(allocated) /\ \A p \in allocated : c[p] \in Int /\ d[p] \in Int
      /\ \A p \in allocated \ {o} : c[p] = d[p]
  BY <1>1, <1>2, <1>3
<1> HIDE DEF c, d
<1>5. PICK S : S = allocated
  OBVIOUS
<1>6. IsFiniteSet(S) /\ o \in S
  BY <1>4, <1>5
<1>7. \A p \in S : c[p] \in Int /\ d[p] \in Int
  BY <1>4, <1>5
<1>8. \A p \in S \ {o} : c[p] = d[p]
  BY <1>4, <1>5
<1>9. Total(d, S) = Total(c, S) + (d[o] - c[o])
  BY ONLY <1>6, <1>7, <1>8, TotalOfOneOther
<1> QED
  BY <1>1, <1>2, <1>5, <1>9 DEF SizeInv, c, d

LEMMA SweptSize ==
  ASSUME IInv, SizeInv, Sweep PROVE SizeInv'
<1>1. TypeOK /\ cursor \in allocated
  BY DEF IInv, Sweep, SweepInv
<1>2. CASE marked[cursor]
  <2>1. UNCHANGED <<allocated, size, contents>>
    BY <1>2 DEF Sweep
  <2> QED
    BY <1>1, <2>1, SameSize DEF contents, Cost
<1>3. CASE ~marked[cursor]
  <2>1. Dispose(cursor)
    BY <1>3 DEF Sweep
  <2>2. IsFiniteSet(allocated) /\ cursor \in Object /\ Costs[cursor] = Cost(cursor) /\ Cost(cursor) \in Int
        /\ \A o \in allocated : Costs[o] \in Int /\ o \in Object
    BY <1>1, CostsAreNumbers
  <2>3. \A o \in Object \ {cursor} : Cost(o)' = Cost(o)
    BY <1>1, <2>1 DEF Dispose, Cost, TypeOK
  <2>4. Total(Costs, allocated) = Cost(cursor) + Total(Costs, allocated \ {cursor})
    BY <1>1, <2>2, TotalWithout DEF SumsRight
  <2>5. Total(Costs, allocated \ {cursor}) = Total(Costs', allocated \ {cursor})
        /\ Total(Costs, allocated \ {cursor}) \in Int
    <3>1. IsFiniteSet(allocated \ {cursor})
      BY <2>2, FS_Subset
    <3>2. \A o \in allocated \ {cursor} : Costs[o] = Costs'[o]
      BY <2>2, <2>3 DEF Costs
    <3> QED
      BY <2>2, <3>1, <3>2, TotalOfSame, TotalWithout DEF SumsRight
  <2>6. size' = size - Cost(cursor) /\ allocated' = allocated \ {cursor}
    BY <2>1 DEF Dispose
  <2> QED
    BY <2>2, <2>4, <2>5, <2>6 DEF SizeInv
<1> QED
  BY <1>2, <1>3

\* TotalWithout of the state after a step.
LEMMA NextTotalWithout ==
  ASSUME IsFiniteSet(allocated'), \A p \in allocated' : Costs'[p] \in Int, NEW o \in allocated'
  PROVE  Total(Costs', allocated') = Costs'[o] + Total(Costs', allocated' \ {o})
BY TotalWithout DEF SumsRight

LEMMA AllocatedSize ==
  ASSUME IInv, TypeOK', KindInv, SizeInv, AllocObject PROVE SizeInv'
<1>1. TypeOK /\ OperationInv /\ op \in Operation
  BY DEF IInv, TypeOK
<1>2. PICK o \in Object :
        /\ o = created + 1 /\ o \notin allocated /\ allocated' = allocated \union {o}
  BY <1>1, AllocStep
<1>3. /\ op.name = "alloc" /\ type' = [type EXCEPT ![o] = op.type] /\ cells' = CellsWith(o)
      /\ capacity' = [capacity EXCEPT ![o] = op.n] /\ size' = size + 1 + op.n
  BY <1>2 DEF AllocObject
<1>4. type'[o] = op.type /\ capacity'[o] = op.n /\ cells'[o] = InitialCells /\ op.n \in Nat
      /\ op.type \in Types
  BY <1>1, <1>2, <1>3 DEF TypeOK, CellsWith, Operation
<1>5. Cost(o)' = 1 + op.n
  <2>1. CASE op.type \in {"array", "string"}
    BY <1>4, <2>1 DEF Cost
  <2>2. CASE op.type = "assoc"
    <3>1. op.n = 0 /\ InitialCells = <<>>
      BY <1>3, <2>2 DEF KindInv, InitialCells
    <3>2. Len(<<>>) = 0
      OBVIOUS
    <3> QED
      BY <1>4, <2>2, <3>1, <3>2 DEF Cost
  <2>3. CASE op.type = "scope"
    BY <1>3, <1>4, <2>3 DEF Cost, KindInv
  <2> QED
    BY <1>4, <2>1, <2>2, <2>3 DEF Types
<1>6. ASSUME NEW p \in Object \ {o} PROVE Cost(p)' = Cost(p)
  <2>1. type'[p] = type[p] /\ capacity'[p] = capacity[p]
    BY <1>1, <1>2, <1>3 DEF TypeOK
  <2>2. CASE op.dest = "frame" /\ p = Last(envs).variable
    BY <2>1, <2>2 DEF KindInv, Cost
  <2>3. CASE ~(op.dest = "frame" /\ p = Last(envs).variable)
    <3>1. cells'[p] = cells[p]
      BY <1>3, <2>3 DEF CellsWith
    <3> QED
      BY <2>1, <3>1 DEF Cost
  <2> QED
    BY <2>2, <2>3
<1>7. /\ IsFiniteSet(allocated) /\ \A p \in allocated : Costs[p] = Cost(p) /\ Costs[p] \in Int /\ p \in Object
  BY <1>1, CostsAreNumbers
<1>8. /\ IsFiniteSet(allocated') /\ \A p \in allocated' : Costs'[p] \in Int
      /\ \A p \in Object : Costs'[p] = Cost(p)'
  BY CostsAreNumbersNext
<1>9. Total(Costs', allocated') = Costs'[o] + Total(Costs', allocated' \ {o})
  BY <1>2, <1>8, NextTotalWithout
<1>10. allocated' \ {o} = allocated /\ Costs'[o] = 1 + op.n
  BY <1>2, <1>5, <1>8
<1>11. Total(Costs', allocated) = Total(Costs, allocated)
  <2>1. \A p \in allocated : Costs[p] = Costs'[p]
    BY <1>2, <1>6, <1>7, <1>8
  <2> QED
    BY <1>7, <2>1, TotalOfSame
<1>12. size \in Int /\ Total(Costs, allocated) \in Int
  <2>1. SumsRight(Costs, allocated)
    BY <1>7, TotalWithout
  <2> QED
    BY <1>1, <2>1 DEF TypeOK, SumsRight
<1>13. SizeInv' <=> size' = Total(Costs', allocated')
  BY DEF SizeInv
<1>14. Total(Costs', allocated') = 1 + op.n + Total(Costs, allocated)
  BY <1>9, <1>10, <1>11
<1>15. size = Total(Costs, allocated)
  BY DEF SizeInv
<1>16. size' = Total(Costs', allocated')
  BY <1>3, <1>4, <1>12, <1>14, <1>15
<1> QED
  BY <1>13, <1>16

\* Steps that leave alone what counts.
LEMMA AssignedSize ==
  ASSUME TypeOK, SizeInv, AssignElement PROVE SizeInv'
<1>1. PICK o \in Named : \E i \in DOMAIN cells[o] : cells' = [cells EXCEPT ![o][i] = Last(stack)]
  BY DEF AssignElement
<1>2. PICK i \in DOMAIN cells[o] : cells' = [cells EXCEPT ![o][i] = Last(stack)]
  BY <1>1
<1>3. size' = size /\ allocated' = allocated /\ type' = type /\ capacity' = capacity
  BY DEF AssignElement
<1>4. ASSUME NEW p \in Object PROVE Len(cells'[p]) = Len(cells[p])
  <2>1. cells[p] \in Seq(Ref) /\ DOMAIN cells = Object
    BY DEF TypeOK
  <2>2. CASE p = o
    <3>1. cells'[p] = [cells[p] EXCEPT ![i] = Last(stack)]
      BY <1>2, <2>1, <2>2
    <3> QED
      BY <2>1, <3>1
  <2>3. CASE p # o
    BY <1>2, <2>1, <2>3
  <2> QED
    BY <2>2, <2>3
<1> QED
  BY <1>3, <1>4, SameSize DEF Cost

LEMMA ResizedSize ==
  ASSUME IInv, TypeOK', KindInv, SizeInv, ReallocArray PROVE SizeInv'
<1>1. TypeOK /\ OperationInv /\ Reachable \subseteq allocated /\ allocated \subseteq Object
  BY AllocatedAreObjects DEF IInv, InUseInv
<1>2. PICK o \in allocated : o = op.obj
  BY <1>1 DEF ReallocArray, OperationInv
<1>3. o \in Object /\ type[o] = "array" /\ type' = type /\ allocated' = allocated
  BY <1>1, <1>2 DEF ReallocArray, KindInv
<1>4. PICK alloc : alloc = NewAllocSize(capacity[o], op.n)
  OBVIOUS
<1>5. /\ cells' = [cells EXCEPT ![o] = Resized(@, op.n)]
      /\ capacity' = [capacity EXCEPT ![o] = alloc]
      /\ size' = size + (alloc - capacity[o])
  BY <1>2, <1>4 DEF ReallocArray
<1>6. capacity'[o] = alloc /\ alloc \in Int /\ capacity[o] \in Int
  <2>1. capacity'[o] = alloc /\ capacity' \in [Object -> Int] /\ capacity[o] \in Int
    BY <1>1, <1>3, <1>5 DEF TypeOK
  <2> QED
    BY <1>3, <2>1
<1>7. Cost(o) = 1 + capacity[o] /\ Cost(o)' = 1 + alloc
  BY <1>3, <1>6 DEF Cost
<1>8. ASSUME NEW p \in Object \ {o} PROVE Cost(p)' = Cost(p)
  BY <1>1, <1>3, <1>5 DEF Cost, TypeOK
<1>9. size' = size + (Cost(o)' - Cost(o))
  BY <1>5, <1>6, <1>7
<1> QED
  BY <1>1, <1>3, <1>8, <1>9, OtherSize

LEMMA ExtendedSize ==
  ASSUME IInv, TypeOK', KindInv, SizeInv, AppendMember PROVE SizeInv'
<1>1. TypeOK /\ OperationInv /\ Reachable \subseteq allocated /\ allocated \subseteq Object
  BY AllocatedAreObjects DEF IInv, InUseInv
<1>2. PICK o \in allocated : o = op.obj
  BY <1>1 DEF AppendMember, OperationInv
<1>3. o \in Object /\ type[o] = "assoc" /\ type' = type /\ allocated' = allocated
  BY <1>1, <1>2 DEF AppendMember, KindInv
<1>4. cells' = [cells EXCEPT ![o] = Append(@, op.value)] /\ size' = size + 1 /\ capacity' = capacity
  BY <1>2 DEF AppendMember
<1>5. Len(cells'[o]) = Len(cells[o]) + 1 /\ Len(cells[o]) \in Nat
  <2>1. cells[o] \in Seq(Ref) /\ cells'[o] = Append(cells[o], op.value)
    BY <1>1, <1>3, <1>4 DEF TypeOK
  <2> QED
    BY <2>1
<1>6. Cost(o) = 1 + Len(cells[o]) /\ Cost(o)' = 1 + Len(cells'[o])
  BY <1>3 DEF Cost
<1>7. ASSUME NEW p \in Object \ {o} PROVE Cost(p)' = Cost(p)
  BY <1>1, <1>3, <1>4 DEF Cost, TypeOK
<1>8. size' = size + (Cost(o)' - Cost(o))
  BY <1>4, <1>5, <1>6
<1> QED
  BY <1>1, <1>3, <1>7, <1>8, OtherSize

LEMMA SizeStep ==
  ASSUME IInv, TypeOK', KindInv, SizeInv, [Next]_vars PROVE SizeInv'
<1>1. TypeOK
  BY DEF IInv
<1>2. CASE UNCHANGED <<size, allocated, contents>>
  BY <1>1, <1>2, SameSize DEF contents, Cost
<1>3. CASE AssignElement
  BY <1>1, <1>3, AssignedSize
<1>4. CASE Sweep
  BY <1>4, SweptSize
<1>5. CASE AllocObject
  BY <1>5, AllocatedSize
<1>6. CASE ReallocArray
  BY <1>6, ResizedSize, SMTT(30)
<1>7. CASE AppendMember
  BY <1>7, ExtendedSize
<1>8. ~AssignElement /\ ~Sweep /\ ~Commit => UNCHANGED <<size, allocated, contents>>
  BY DEF Next, Mutator, Collector, Commit, Disposed, vars, Fetch, Discard, AssignVariable, Throw,
    Catch, LeaveEnvironment, CreateObject, EnterEnvironment, ResizeArray, AddMember, Collect,
    DisposeInterpreter, CheckGC, ResetMark, StartMarking, Mark, StartSweeping, FinishCollection
<1> QED
  BY <1>2, <1>3, <1>4, <1>5, <1>6, <1>7, <1>8 DEF Commit

LEMMA SizeInitially == Init => KindInv /\ DisposeInv /\ SizeInv
<1> SUFFICES ASSUME Init PROVE KindInv /\ DisposeInv /\ SizeInv
  OBVIOUS
<1>1. op = NoOperation /\ pc = "run" /\ allocated = {} /\ size = 0
  BY DEF Init
<1>2. Total(Costs, {}) = 0
  BY FS_EmptySet, TotalPicks
<1> QED
  BY <1>1, <1>2 DEF KindInv, DisposeInv, SizeInv, NoOperation

\* current_heap_size is always the size of the objects not freed, and CRB_dispose_interpreter
\* leaves nothing of it: its DBG_assert holds.
THEOREM SizeCorrectness == Spec => []SizeIsExact
<1>1. IInv /\ KindInv /\ DisposeInv /\ SizeInv => SizeIsExact
  <2> SUFFICES ASSUME IInv, DisposeInv, SizeInv PROVE SizeIsExact
    OBVIOUS
  <2>1. size = MapThenSumSet(Cost, allocated)
    BY SizeIsTotal DEF IInv, SizeInv
  <2>2. pc = "disposed" => size = 0
    <3>1. Total(Costs, {}) = 0
      BY FS_EmptySet, TotalPicks
    <3> QED
      BY <3>1 DEF DisposeInv, SizeInv
  <2> QED
    BY <2>1, <2>2 DEF SizeIsExact, NothingLeaks
<1>2. IInv /\ IInv' /\ KindInv /\ DisposeInv /\ SizeInv /\ [Next]_vars
        => KindInv' /\ DisposeInv' /\ SizeInv'
  <2> SUFFICES ASSUME IInv, IInv', KindInv, DisposeInv, SizeInv, [Next]_vars
               PROVE  KindInv' /\ DisposeInv' /\ SizeInv'
    OBVIOUS
  <2>1. TypeOK'
    BY DEF IInv
  <2> QED
    BY <2>1, KindStep, DisposeStepKept, SizeStep
<1> QED
  BY <1>1, <1>2, Invariance, SizeInitially, PTL DEF Spec

=============================================================================
