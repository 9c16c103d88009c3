---------------------------- MODULE EvaluationProofs ----------------------------
(***************************************************************************)
(* Proofs about what MCEvaluation runs side by side: Natives, Operators,   *)
(* Matching, Scanner and Traces. Each part is of one module and rests on   *)
(* an invariant of its own.                                                *)
(***************************************************************************)
EXTENDS MCEvaluation, LeastNumber, SequenceTheorems, FiniteSetTheorems

-----------------------------------------------------------------------------
(* Native functions and files (Natives), for any streams, any expressions  *)
(* and any number of objects.                                              *)

\* The stream fopen holds in its C local is open and not one of the standard ones.
FopenHoldsOpen == opened # NULL => stage = "running" /\ opened \in files \ Standard

\* What has been released by CRB_dispose_interpreter so far
Taken ==
  /\ stage \in {"released", "collected", "disposed"} => held = {}
  /\ stage \in {"collected", "disposed"} => \A o \in Slots : objects[o] = Free

NativesInv == NativesTypeOK /\ PointersAreValid /\ FopenHoldsOpen /\ Taken

\* An object of each kind is of that kind only, and no stream is NULL.
LEMMA Kinds ==
  /\ NULL \notin Streams
  /\ Free.info = "free"
  /\ \A p : /\ File(p).info = "file" /\ File(p).pointer = p
            /\ Regexp(p).info = "regexp" /\ Regexp(p).pointer = p
            /\ File(p) # Free /\ Regexp(p) # Free
  /\ \A object \in NativePointers :
       /\ object.info = "file" =>
            object.pointer \in Streams \union {NULL} /\ object = File(object.pointer)
       /\ object.info = "regexp" =>
            object.pointer \in Patterns /\ object = Regexp(object.pointer)
       /\ object.info \notin {"file", "regexp"} => object = Free
BY NativesAssumption DEF NULL, Free, File, Regexp, NativePointers

LEMMA NativesInitInvariant == NativesInit => NativesInv
<1>. SUFFICES ASSUME NativesInit PROVE NativesInv
  OBVIOUS
<1>1. NativesTypeOK
  BY NativesAssumption DEF NativesInit, NativesTypeOK, NativePointers
<1>2. \A o \in Slots : objects[o] = IF o \in Standard THEN File(o) ELSE Free
  BY DEF NativesInit
<1>3. PointersAreValid
  BY <1>2, Kinds, NativesAssumption
     DEF NativesInit, PointersAreValid, HasOwner, OwnerIsAlone, FopenIsAlone, FilesAreOpen,
         PatternsAreLive, NothingStaysOpen
<1>4. FopenHoldsOpen /\ Taken
  BY DEF NativesInit, FopenHoldsOpen, Taken
<1>. QED BY <1>1, <1>3, <1>4 DEF NativesInv

\* A new object, whose stream no other object has, in a free slot
LEMMA CreateKeeps ==
  ASSUME NativesInv, NEW o \in Slots, NEW object \in NativePointers,
         Create(o, object), object # Free,
         object.info = "file" =>
           /\ object.pointer \in files \ Standard
           /\ \A p \in Slots : objects[p] # object,
         object.info = "regexp" => object.pointer \in compiled
  PROVE  /\ held' \subseteq Slots /\ objects' \in [Slots -> NativePointers]
         /\ \A p \in Slots : objects'[p] = IF p = o THEN object ELSE objects[p]
         /\ \A p, q \in Slots : objects'[p].info = "file" /\ objects'[p].pointer # NULL
                                  /\ objects'[q] = objects'[p] => q = p
         /\ \A p \in Slots : objects'[p].info = "file" =>
                                objects'[p].pointer \in files \union {NULL}
         /\ \A p \in Slots : objects'[p].info = "regexp" => objects'[p].pointer \in compiled
<1>1. \A p \in Slots : objects'[p] = IF p = o THEN object ELSE objects[p]
  BY DEF Create, NativesInv, NativesTypeOK
<1>2. held' \subseteq Slots /\ objects' \in [Slots -> NativePointers]
  BY DEF Create, NativesInv, NativesTypeOK
<1>. QED
  BY <1>1, <1>2 DEF NativesInv, PointersAreValid, OwnerIsAlone, FilesAreOpen, PatternsAreLive

\* What sweeping leaves
LEMMA SweepKeeps ==
  ASSUME NativesInv, Sweep, UNCHANGED <<compiled, opened>>
  PROVE  /\ files' \subseteq files /\ objects' \in [Slots -> NativePointers]
         /\ \A o \in Slots : objects'[o] = IF o \in held THEN objects[o] ELSE Free
         /\ HasOwner' /\ OwnerIsAlone' /\ FopenIsAlone' /\ FilesAreOpen' /\ PatternsAreLive'
         /\ opened # NULL => opened \in files'
<1>. USE DEF NativesInv, NativesTypeOK, PointersAreValid
<1>1. \A o \in Slots : objects'[o] = IF o \in held THEN objects[o] ELSE Free
  BY DEF Sweep
<1>2. files' \subseteq files /\ objects' \in [Slots -> NativePointers]
  BY <1>1 DEF Sweep, NativePointers
<1>3. \A s : s \in files' <=>
              s \in files /\ ~ \E o \in Slots \ held : Closes(o) /\ objects[o].pointer = s
  BY DEF Sweep
<1>4. HasOwner'
  <2>. SUFFICES ASSUME NEW s \in files', s \notin Standard, opened # s
                PROVE  \E o \in Slots : objects'[o] = File(s)
    BY DEF HasOwner
  <2>1. PICK o \in Slots : objects[o] = File(s)
    BY <1>2 DEF HasOwner
  <2>2. o \in held
    <3>1. s \in Streams
      BY <1>2
    <3>. QED BY <1>3, <2>1, <3>1, Kinds DEF Closes
  <2>. QED BY <1>1, <2>1, <2>2
<1>5. OwnerIsAlone' /\ PatternsAreLive'
  BY <1>1, Kinds DEF OwnerIsAlone, PatternsAreLive
<1>6. FopenIsAlone' /\ (opened # NULL => opened \in files')
  <2>1. FopenIsAlone'
    BY <1>1, Kinds DEF FopenIsAlone
  <2>2. ASSUME opened # NULL, NEW o \in Slots, Closes(o), objects[o].pointer = opened
        PROVE  FALSE
    <3>1. objects[o] = File(opened)
      BY <2>2, Kinds DEF Closes
    <3>. QED BY <2>2, <3>1 DEF FopenIsAlone
  <2>. QED BY <1>3, <2>1, <2>2 DEF FopenHoldsOpen
<1>7. FilesAreOpen'
  <2>. SUFFICES ASSUME NEW p \in Slots, objects'[p].info = "file", objects'[p].pointer # NULL
                PROVE  objects'[p].pointer \in files'
    BY DEF FilesAreOpen
  <2>1. p \in held /\ objects'[p] = objects[p]
    BY <1>1, Kinds
  <2>2. ASSUME NEW o \in Slots \ held, Closes(o), objects[o].pointer = objects[p].pointer
        PROVE  FALSE
    <3>1. objects[o] = objects[p]
      BY <2>1, <2>2, Kinds DEF Closes
    <3>. QED BY <2>1, <2>2, <3>1 DEF OwnerIsAlone
  <2>. QED BY <1>3, <2>1, <2>2 DEF FilesAreOpen
<1>. QED BY <1>1, <1>2, <1>4, <1>5, <1>6, <1>7

LEMMA NativesStep == NativesInv /\ [NativesNext]_nativesVars => NativesInv'
<1>. SUFFICES ASSUME NativesInv, [NativesNext]_nativesVars PROVE NativesInv'
  OBVIOUS
<1>. USE DEF NativesInv
<1>a. NativesTypeOK /\ HasOwner /\ OwnerIsAlone /\ FopenIsAlone /\ FilesAreOpen /\ PatternsAreLive
      /\ NothingStaysOpen /\ FopenHoldsOpen /\ Taken
  BY DEF PointersAreValid
<1>1. CASE UNCHANGED nativesVars
  BY <1>1 DEF nativesVars, NativesTypeOK, PointersAreValid, HasOwner, OwnerIsAlone, FopenIsAlone,
              FilesAreOpen, PatternsAreLive, NothingStaysOpen, FopenHoldsOpen, Taken
<1>2. CASE Compile
  BY <1>2 DEF Compile, Running, NativesTypeOK, PointersAreValid, HasOwner, OwnerIsAlone,
              FopenIsAlone, FilesAreOpen, PatternsAreLive, NothingStaysOpen, FopenHoldsOpen, Taken
<1>3. CASE EvalRegexp
  <2>1. PICK l \in compiled, o \in Slots : Create(o, Regexp(l))
    BY <1>3 DEF EvalRegexp
  <2>2. Regexp(l) \in NativePointers /\ Regexp(l) # Free
    BY <1>a, Kinds DEF NativePointers, NativesTypeOK
  <2>. DEFINE New == Regexp(l)
  <2>3. New.info = "regexp" /\ New.pointer = l
    BY Kinds
  <2>4. objects[o] = Free
    BY <2>1 DEF Create
  <2>5. /\ held' \subseteq Slots /\ objects' \in [Slots -> NativePointers]
        /\ \A p \in Slots : objects'[p] = IF p = o THEN New ELSE objects[p]
        /\ OwnerIsAlone' /\ FilesAreOpen' /\ PatternsAreLive'
    BY <1>3, <2>1, <2>2, <2>3, CreateKeeps DEF EvalRegexp, OwnerIsAlone, FilesAreOpen,
      PatternsAreLive
  <2>6. HasOwner'
    BY <1>3, <1>a, <2>4, <2>5, Kinds DEF EvalRegexp, HasOwner
  <2>7. FopenIsAlone' /\ NativesTypeOK' /\ FopenHoldsOpen' /\ Taken' /\ NothingStaysOpen'
    BY <1>3, <1>a, <2>5 DEF EvalRegexp, Running, FopenIsAlone, NativesTypeOK, FopenHoldsOpen, Taken,
                            NothingStaysOpen
  <2>. QED BY <2>5, <2>6, <2>7 DEF PointersAreValid
<1>4. CASE Fopen
  <2>1. CASE UNCHANGED <<files, opened>>
    BY <1>4, <2>1 DEF Fopen, Running, NativesTypeOK, PointersAreValid, HasOwner, OwnerIsAlone,
              FopenIsAlone, FilesAreOpen, PatternsAreLive, NothingStaysOpen, FopenHoldsOpen, Taken
  <2>2. ASSUME NEW s \in (Streams \ Standard) \ files, files' = files \union {s}, opened' = s
        PROVE  NativesInv'
    <3>1. \A o \in Slots : objects[o] # File(s)
      BY <1>a, <2>2, Kinds DEF FilesAreOpen
    <3>2. s # NULL
      BY Kinds
    <3>3. UNCHANGED <<compiled, objects>> /\ opened = NULL
      BY <1>4 DEF Fopen, Running
    <3>4. HasOwner'
      BY <1>a, <2>2, <3>3, Kinds DEF HasOwner, NativesTypeOK
    <3>5. OwnerIsAlone' /\ PatternsAreLive'
      BY <1>a, <3>3 DEF OwnerIsAlone, PatternsAreLive
    <3>6. FilesAreOpen'
      BY <1>a, <2>2, <3>3 DEF FilesAreOpen
    <3>7. FopenIsAlone'
      BY <2>2, <3>1, <3>3 DEF FopenIsAlone
    <3>8. NativesTypeOK' /\ NothingStaysOpen' /\ FopenHoldsOpen' /\ Taken'
      BY <1>4, <1>a, <2>2 DEF Fopen, Running, NativesTypeOK, NothingStaysOpen, FopenHoldsOpen, Taken
    <3>. QED BY <3>4, <3>5, <3>6, <3>7, <3>8 DEF PointersAreValid
  <2>. QED BY <1>4, <2>1, <2>2 DEF Fopen
<1>5. CASE FopenReturns
  <2>1. PICK o \in Slots : Create(o, File(opened))
    BY <1>5 DEF FopenReturns
  <2>2. opened \in Streams /\ opened \in files \ Standard /\ stage = "running"
    BY <1>5, <1>a DEF FopenReturns, FopenHoldsOpen, NativesTypeOK
  <2>3. File(opened) \in NativePointers /\ File(opened) # Free
    BY <2>2, Kinds DEF NativePointers
  <2>. DEFINE New == File(opened)
  <2>4. New.info = "file" /\ New.pointer = opened /\ objects[o] = Free
    BY <2>1, Kinds DEF Create
  <2>5. \A p \in Slots : objects[p] # New
    BY <1>5, <1>a DEF FopenReturns, FopenIsAlone
  <2>6. /\ held' \subseteq Slots /\ objects' \in [Slots -> NativePointers]
        /\ \A p \in Slots : objects'[p] = IF p = o THEN New ELSE objects[p]
        /\ OwnerIsAlone' /\ FilesAreOpen' /\ PatternsAreLive'
    BY <1>5, <2>1, <2>2, <2>3, <2>4, <2>5, CreateKeeps
       DEF FopenReturns, OwnerIsAlone, FilesAreOpen, PatternsAreLive
  <2>7. HasOwner'
    BY <1>5, <1>a, <2>4, <2>6, Kinds DEF FopenReturns, HasOwner
  <2>8. FopenIsAlone' /\ NativesTypeOK' /\ FopenHoldsOpen' /\ Taken' /\ NothingStaysOpen'
    BY <1>5, <1>a, <2>2, <2>6 DEF FopenReturns, FopenIsAlone, NativesTypeOK, FopenHoldsOpen, Taken,
                            NothingStaysOpen
  <2>. QED BY <2>6, <2>7, <2>8 DEF PointersAreValid
<1>6. CASE Fclose
  <2>1. CASE UNCHANGED <<files, objects>>
    BY <1>6, <2>1 DEF Fclose, Running, NativesTypeOK, PointersAreValid, HasOwner, OwnerIsAlone,
              FopenIsAlone, FilesAreOpen, PatternsAreLive, NothingStaysOpen, FopenHoldsOpen, Taken
  <2>2. ASSUME NEW o \in held, Refusal(o) = "none",
               files' = files \ {objects[o].pointer}, objects' = AfterFclose(o)
        PROVE  NativesInv'
    <3>1. o \in Slots /\ objects[o].info = "file" /\ objects[o].pointer # NULL
      BY <1>a, <2>2 DEF Refusal, NativesTypeOK
    <3>2. objects[o] = File(objects[o].pointer) /\ objects[o].pointer \in Streams
      BY <1>a, <3>1, Kinds DEF NativesTypeOK
    <3>. DEFINE s == objects[o].pointer
    <3>3. [objects[o] EXCEPT !.pointer = NULL] = File(NULL)
      BY <3>2 DEF File
    <3>4. \A p \in Slots : objects'[p] = IF p = o THEN File(NULL) ELSE objects[p]
      BY <1>a, <2>2, <3>1, <3>3 DEF AfterFclose, NativesTypeOK
    <3>5. objects' \in [Slots -> NativePointers]
      BY <1>a, <2>2, <3>3, Zenon DEF AfterFclose, NativesTypeOK, NativePointers
    <3>6. \A p \in Slots : p # o => objects[p] # File(s)
      BY <1>a, <3>1, <3>2 DEF OwnerIsAlone
    <3>7. HasOwner'
      <4>. SUFFICES ASSUME NEW t \in files', t \notin Standard, t # opened
                    PROVE  \E p \in Slots : objects'[p] = File(t)
        BY <1>6 DEF Fclose, Running, HasOwner
      <4>1. t \in files /\ t # s
        BY <2>2
      <4>2. PICK p \in Slots : objects[p] = File(t)
        BY <1>a, <4>1 DEF HasOwner
      <4>3. p # o
        BY <3>2, <4>1, <4>2, Kinds
      <4>. QED BY <3>4, <4>2, <4>3
    <3>8. OwnerIsAlone' /\ PatternsAreLive'
      BY <1>6, <1>a, <3>4, Kinds DEF Fclose, OwnerIsAlone, PatternsAreLive
    <3>9. FilesAreOpen'
      BY <1>a, <2>2, <3>4, <3>6, Kinds DEF FilesAreOpen, NativesTypeOK
    <3>10. FopenIsAlone' /\ NothingStaysOpen' /\ FopenHoldsOpen' /\ Taken' /\ NativesTypeOK'
      BY <1>6, <1>a, <2>2, <3>5
         DEF Fclose, Running, FopenIsAlone, NothingStaysOpen, FopenHoldsOpen, Taken, NativesTypeOK
    <3>. QED BY <3>7, <3>8, <3>9, <3>10 DEF PointersAreValid
  <2>. QED BY <1>6, <2>1, <2>2 DEF Fclose
<1>7. CASE UseFile \/ UseRegexp \/ Lose \/ Exit
  <2>1. UNCHANGED <<files, compiled, objects, opened>> /\ held' \subseteq held
    BY <1>7 DEF UseFile, UseRegexp, Lose, Exit
  <2>2. opened = NULL /\ stage = "running" /\ stage' \in {"running", "exited", "crashed"}
    BY <1>7 DEF UseFile, UseRegexp, Lose, Exit, Running
  <2>. QED
    BY <1>a, <2>1, <2>2
       DEF NativesTypeOK, PointersAreValid, HasOwner, OwnerIsAlone, FopenIsAlone, FilesAreOpen,
           PatternsAreLive, NothingStaysOpen, FopenHoldsOpen, Taken
<1>8. CASE Collect
  <2>1. /\ files' \subseteq files /\ objects' \in [Slots -> NativePointers]
        /\ HasOwner' /\ OwnerIsAlone' /\ FopenIsAlone' /\ FilesAreOpen' /\ PatternsAreLive'
        /\ opened # NULL => opened \in files'
    BY <1>8, SweepKeeps DEF Collect
  <2>. QED
    BY <1>8, <1>a, <2>1
       DEF Collect, NativesTypeOK, PointersAreValid, NothingStaysOpen, FopenHoldsOpen, Taken
<1>9. CASE ReleaseGlobals
  BY <1>9, <1>a
     DEF ReleaseGlobals, Running, NativesTypeOK, PointersAreValid, HasOwner, OwnerIsAlone,
         FopenIsAlone, FilesAreOpen, PatternsAreLive, NothingStaysOpen, FopenHoldsOpen, Taken
<1>10. CASE LastCollection
  <2>1. /\ files' \subseteq files /\ objects' \in [Slots -> NativePointers]
        /\ \A o \in Slots : objects'[o] = IF o \in held THEN objects[o] ELSE Free
        /\ HasOwner' /\ OwnerIsAlone' /\ FopenIsAlone' /\ FilesAreOpen' /\ PatternsAreLive'
    BY <1>10, SweepKeeps DEF LastCollection
  <2>2. held = {} /\ opened = NULL
    BY <1>10, <1>a DEF LastCollection, FopenHoldsOpen, Taken
  <2>. QED
    BY <1>10, <1>a, <2>1, <2>2
       DEF LastCollection, NativesTypeOK, PointersAreValid, NothingStaysOpen, FopenHoldsOpen, Taken
<1>11. CASE DisposeLiterals
  <2>1. opened = NULL /\ held = {} /\ \A o \in Slots : objects[o] = Free
    BY <1>11, <1>a DEF DisposeLiterals, FopenHoldsOpen, Taken
  <2>2. files \subseteq Standard
    BY <1>a, <2>1, Kinds DEF HasOwner, NativesTypeOK
  <2>3. PointersAreValid'
    BY <1>11, <1>a, <2>1, <2>2, Kinds
       DEF DisposeLiterals, PointersAreValid, HasOwner, OwnerIsAlone, FopenIsAlone, FilesAreOpen,
           PatternsAreLive, NothingStaysOpen
  <2>. QED
    BY <1>11, <1>a, <2>1, <2>3 DEF DisposeLiterals, NativesTypeOK, FopenHoldsOpen, Taken
<1>12. CASE Over
  BY <1>1, <1>12 DEF Over
<1>. QED
  BY <1>1, <1>2, <1>3, <1>4, <1>5, <1>6, <1>7, <1>8, <1>9, <1>10, <1>11, <1>12 DEF NativesNext

-----------------------------------------------------------------------------
(* The theorems.                                                           *)

\* What is reached from the initial states satisfies the invariant.
THEOREM NativesInvariance == NativesSpec => []NativesInv
<1>1. NativesInit => NativesInv
  BY NativesInitInvariant
<1>2. NativesInv /\ [NativesNext]_nativesVars => NativesInv'
  BY NativesStep
<1>. QED BY <1>1, <1>2, PTL DEF NativesSpec

\* The variables have their types: no object points to what is neither a stream nor an expression.
THEOREM NativesTypes == NativesSpec => []NativesTypeOK
<1>1. NativesInv => NativesTypeOK
  BY DEF NativesInv
<1>. QED BY <1>1, NativesInvariance, PTL

\* Whatever a program opens, closes, shares and forgets, and whenever the collector runs: no
\* function that takes a file uses or closes a stream after it has been closed, none is left open
\* at the end, and no object outlives the expression it shares (native.c:36-222).
THEOREM PointersStayValid == NativesSpec => []PointersAreValid
<1>1. NativesInv => PointersAreValid
  BY DEF NativesInv
<1>. QED BY <1>1, NativesInvariance, PTL

-----------------------------------------------------------------------------
(* Operators.                                                              *)

\* What a node says is what it would say had nothing been folded.
Honest ==
  {node \in [literal : BOOLEAN, gives : Values \union Errors, plain : Values \union Errors] :
     node.gives = node.plain /\ (node.literal => ~IsError(node.gives))}

OperatorsInv ==
  /\ nodes \in Seq(Honest) /\ Len(nodes) <= MaxNodes
  /\ raised \in {None} \union [folded : Errors, plain : Values \union Errors]
  /\ raised # None => IsError(raised.plain)
  /\ variable \in Values

\* A value, though maybe not one that Fits, or one of the errors
Proper(x) == x \in Errors \/ ~IsError(x)

LEMMA IntsAreInts ==
  /\ MinInt \in Int /\ MaxInt \in Int /\ 2 ^ Width \in Nat \ {0}
  /\ MinInt + 2 ^ Width - 1 = MaxInt
  /\ Ints \subseteq Int
BY OperatorsAssumption DEF MinInt, MaxInt, Ints

LEMMA OneFits == 0 \in Ints /\ 1 \in Ints
BY OperatorsAssumption DEF MinInt, MaxInt, Ints

LEMMA WrapFits ==
  ASSUME NEW n \in Int
  PROVE  Wrap(n) \in Ints
<1> DEFINE w == 2 ^ Width
           m == n - MinInt
<1>1. w \in Nat \ {0} /\ m \in Int /\ MinInt \in Int /\ MinInt + w - 1 = MaxInt
  BY IntsAreInts
<1>2. Wrap(n) = (m % w) + MinInt
  BY DEF Wrap
<1> HIDE DEF w, m
<1>3. m % w \in 0 .. w - 1
  BY <1>1
<1> QED
  BY <1>1, <1>2, <1>3 DEF Ints

LEMMA ValuesAreValues ==
  /\ \A x \in Values : ~IsError(x)
  /\ \A x \in Errors : IsError(x)
  /\ \A t, w : ~IsError(Value(t, w))
  /\ \A x \in Values : /\ x.type \in {"int", "double", "boolean", "object", "string", "closure",
                                      "null", "junk"}
                       /\ x.type \in {"int", "double", "boolean"} => x.v \in Ints
                       /\ x.type = "string" => x.v \in 0 .. MaxLength
                       /\ x.type = "junk" <=> x = Junk
                       /\ x.type = "null" <=> x = Null
<1>1. \A x \in Errors : IsError(x)
  BY DEF Errors, IsError
<1>2. \A t, w : ~IsError(Value(t, w))
  BY DEF Value, IsError
<1>3. ASSUME NEW x \in Values
      PROVE  /\ ~IsError(x)
             /\ x.type \in {"int", "double", "boolean", "object", "string", "closure", "null",
                             "junk"}
             /\ x.type \in {"int", "double", "boolean"} => x.v \in Ints
             /\ x.type = "string" => x.v \in 0 .. MaxLength
             /\ x.type = "junk" <=> x = Junk
             /\ x.type = "null" <=> x = Null
  <2>1. CASE x \in [type : {"int", "double", "boolean"}, v : Ints]
    BY <2>1 DEF IsError, Junk, Null, Value
  <2>2. CASE x \in [type : {"object"}, v : Objects]
    BY <2>2 DEF IsError, Junk, Null, Value
  <2>3. CASE x \in [type : {"string"}, v : 0 .. MaxLength]
    BY <2>3 DEF IsError, Junk, Null, Value
  <2>4. CASE x \in {Closure, Null, Junk}
    BY <2>4 DEF IsError, Closure, Junk, Null, Value
  <2> QED
    BY <2>1, <2>2, <2>3, <2>4 DEF Values
<1> QED
  BY <1>1, <1>2, <1>3

LEMMA ErrorsAreErrors ==
  /\ Error("DIVISION_BY_ZERO") \in Errors /\ Error("LOGICAL_OP_INTEGER_OPERAND") \in Errors
  /\ Error("LOGICAL_OP_DOUBLE_OPERAND") \in Errors /\ Error("NOT_BOOLEAN_OPERATOR") \in Errors
  /\ Error("BAD_OPERATOR_FOR_STRING") \in Errors /\ Error("NOT_NULL_OPERATOR") \in Errors
  /\ Error("BAD_OPERAND_TYPE") \in Errors /\ Error("NOT_BOOLEAN_TYPE") \in Errors
  /\ Error("MINUS_OPERAND_TYPE") \in Errors /\ Error("STRING_POS_OUT_OF_BOUNDS") \in Errors
  /\ Error("STRING_SUBSTR_LEN") \in Errors /\ Trap \in Errors
BY DEF Error, Errors, Trap

LEMMA Constructed ==
  \A x : /\ ~IsError(Integer(x)) /\ ~IsError(Double(x)) /\ ~IsError(Boolean(x))
         /\ ~IsError(String(x)) /\ ~IsError(Junk) /\ ~IsError(Fraction)
BY ValuesAreValues DEF Integer, Double, Boolean, String, Junk, Fraction

LEMMA ComparedIsProper ==
  \A op, a, b : ~IsError(Compare(op, a, b))
BY Constructed DEF Compare

LEMMA BinaryIsProper ==
  ASSUME NEW op \in BinaryOperators, NEW l \in Values, NEW r \in Values
  PROVE  Proper(Binary(op, l, r))
<1>1. CASE Junk \in {l, r}
  BY <1>1, Constructed DEF Binary, Proper
<1>2. CASE Junk \notin {l, r} /\ IsNumeric(l) /\ IsNumeric(r)
  <2>1. ASSUME NEW a, NEW b PROVE Proper(BinaryInt(op, a, b))
    <3>1. CASE op \in Logical
      <4>1. BinaryInt(op, a, b) = Error("LOGICAL_OP_INTEGER_OPERAND")
        BY <3>1 DEF BinaryInt, Logical, Comparison
      <4> QED
        BY <4>1, ErrorsAreErrors DEF Proper
    <3>2. CASE op \in {"DIV", "MOD"}
      BY <3>2, ErrorsAreErrors, Constructed DEF BinaryInt, Proper, Logical, Comparison
    <3>3. CASE op \in {"ADD", "SUB", "MUL"}
      BY <3>3, Constructed DEF BinaryInt, Proper, Logical, Comparison
    <3>4. CASE op \in Comparison
      BY <3>4, ComparedIsProper DEF BinaryInt, Proper, Logical, Comparison
    <3> QED
      BY <3>1, <3>2, <3>3, <3>4 DEF BinaryOperators, Math
  <2>2. ASSUME NEW a, NEW b PROVE Proper(BinaryDouble(op, a, b))
    <3>1. CASE op \in Logical
      <4>1. BinaryDouble(op, a, b) = Error("LOGICAL_OP_DOUBLE_OPERAND")
        BY <3>1 DEF BinaryDouble, Logical, Comparison
      <4> QED
        BY <4>1, ErrorsAreErrors DEF Proper
    <3>2. CASE op \in {"DIV", "MOD"}
      BY <3>2, Constructed DEF BinaryDouble, Proper, Logical, Comparison
    <3>3. CASE op \in {"ADD", "SUB", "MUL"}
      BY <3>3, Constructed DEF BinaryDouble, Proper, Logical, Comparison
    <3>4. CASE op \in Comparison
      BY <3>4, ComparedIsProper DEF BinaryDouble, Proper, Logical, Comparison
    <3> QED
      BY <3>1, <3>2, <3>3, <3>4 DEF BinaryOperators, Math
  <2>3. Binary(op, l, r) = BinaryNumeric(op, l, r)
    BY <1>2 DEF Binary
  <2>4. Proper(BinaryNumeric(op, l, r))
    <3>1. CASE l.type = "int" /\ r.type = "int"
      BY <2>1, <3>1 DEF BinaryNumeric
    <3>2. CASE ~(l.type = "int" /\ r.type = "int")
      <4>1. "double" \in {l.type, r.type}
        BY <1>2, <3>2 DEF IsNumeric
      <4> QED
        BY <1>2, <2>2, <3>2, <4>1 DEF BinaryNumeric
    <3> QED
      BY <3>1, <3>2
  <2> QED
    BY <2>3, <2>4
<1>3. CASE Junk \notin {l, r} /\ ~(IsNumeric(l) /\ IsNumeric(r))
  <2>1. \A a, b : Proper(BinaryBoolean(op, a, b)) /\ Proper(CompareString(op, a, b))
    BY ComparedIsProper, ErrorsAreErrors DEF BinaryBoolean, CompareString, Proper
  <2>2. Proper(BinaryNull(op, l, r))
    BY Constructed, ErrorsAreErrors DEF BinaryNull, Proper
  <2>3. Proper(Chain(l, r)) /\ Proper(Boolean(l = r)) /\ Proper(Error("BAD_OPERAND_TYPE"))
    BY Constructed, ErrorsAreErrors DEF Chain, Proper
  <2> HIDE DEF Proper
  <2> QED
    BY <1>3, <2>1, <2>2, <2>3 DEF Binary
<1> QED
  BY <1>1, <1>2, <1>3

LEMMA EvaluateIsProper ==
  ASSUME NEW op \in BinaryOperators, NEW l \in Values \union Errors, NEW r \in Values \union Errors
  PROVE  Proper(Evaluate(op, l, r))
<1>1. CASE op \in Logical
  <2>1. CASE IsError(l)
    BY <1>1, <2>1, ValuesAreValues DEF Evaluate, LogicalAndOr, Proper
  <2>2. CASE ~IsError(l)
    <3>1. l \in Values
      BY <2>2, ValuesAreValues
    <3>2. CASE l = Junk
      <4>1. LogicalAndOr(op, l, r) = Junk
        <5>1. l.type = "junk"
          BY <3>1, <3>2, ValuesAreValues
        <5> QED
          BY <2>2, <3>2, <5>1 DEF LogicalAndOr
      <4> QED
        BY <1>1, <4>1, Constructed DEF Evaluate, Proper
    <3>3. CASE l # Junk /\ l.type # "boolean"
      <4>1. l.type # "junk"
        BY <3>1, <3>3, ValuesAreValues
      <4> QED
        BY <1>1, <2>2, <3>3, <4>1, ErrorsAreErrors DEF Evaluate, LogicalAndOr, Proper
    <3>4. CASE l # Junk /\ l.type = "boolean"
      <4>1. ~IsError(AsBoolean(r))
        BY ValuesAreValues, Constructed DEF AsBoolean
      <4>2. IsError(r) => r \in Errors
        BY ValuesAreValues
      <4> QED
        BY <1>1, <2>2, <3>4, <4>1, <4>2, Constructed DEF Evaluate, LogicalAndOr, Proper
    <3> QED
      BY <3>2, <3>3, <3>4
  <2> QED
    BY <2>1, <2>2
<1>2. CASE op \notin Logical
  <2>1. CASE IsError(l) \/ IsError(r)
    BY <1>2, <2>1, ValuesAreValues DEF Evaluate, Proper
  <2>2. CASE ~IsError(l) /\ ~IsError(r)
    <3>1. l \in Values /\ r \in Values
      BY <2>2, ValuesAreValues
    <3> QED
      BY <1>2, <2>2, <3>1, BinaryIsProper DEF Evaluate
  <2> QED
    BY <2>1, <2>2
<1> QED
  BY <1>1, <1>2

LEMMA UnaryIsProper ==
  ASSUME NEW x \in Values \union Errors
  PROVE  /\ Proper(EvaluateMinus(x)) /\ Proper(EvaluateNot(x))
         /\ EvaluateNot(x) \in Values \union Errors
<1>1. CASE IsError(x)
  BY <1>1, ValuesAreValues DEF EvaluateMinus, EvaluateNot, Proper
<1>2. CASE ~IsError(x)
  <2>1. Boolean(x.v = 0) \in Values
    BY OneFits DEF Boolean, Value, Values
  <2>2. Junk \in Values /\ \A n : Proper(Integer(n)) /\ Proper(Double(n))
    BY Constructed DEF Values, Proper
  <2>3. LogicalNot(x) \in Values \union Errors
    BY <2>1, <2>2, ErrorsAreErrors DEF LogicalNot
  <2>4. Proper(Minus(x))
    BY <2>2, Constructed, ErrorsAreErrors DEF Minus, Proper
  <2> QED
    BY <1>2, <2>3, <2>4, ValuesAreValues DEF EvaluateMinus, EvaluateNot, Proper
<1> QED
  BY <1>1, <1>2

\* Of numbers folding raises what evaluating raises; of conditions both raise.
LEMMA FoldedIsEvaluated ==
  ASSUME NEW op \in BinaryOperators, NEW l \in Values, NEW r \in Values, IsNumeric(l), IsNumeric(r)
  PROVE  /\ op \notin Logical => Evaluate(op, l, r) = Binary(op, l, r)
         /\ op \in Logical => IsError(Evaluate(op, l, r)) /\ IsError(Binary(op, l, r))
<1>1. ~IsError(l) /\ ~IsError(r) /\ l # Junk /\ r # Junk /\ l.type \notin {"boolean", "junk"}
  BY ValuesAreValues DEF IsNumeric
<1>2. CASE op \notin Logical
  BY <1>1, <1>2 DEF Evaluate
<1>3. CASE op \in Logical
  <2>1. Evaluate(op, l, r) = Error("NOT_BOOLEAN_TYPE")
    BY <1>1, <1>3 DEF Evaluate, LogicalAndOr
  <2>2. Binary(op, l, r) = BinaryNumeric(op, l, r)
    BY <1>1 DEF Binary
  <2>3. \A a, b : /\ BinaryInt(op, a, b) = Error("LOGICAL_OP_INTEGER_OPERAND")
                  /\ BinaryDouble(op, a, b) = Error("LOGICAL_OP_DOUBLE_OPERAND")
    BY <1>3 DEF BinaryInt, BinaryDouble, Logical, Comparison
  <2>4. IsError(BinaryNumeric(op, l, r))
    BY <2>3, ErrorsAreErrors, ValuesAreValues DEF BinaryNumeric, IsNumeric
  <2> QED
    BY <1>3, <2>1, <2>2, <2>4, ErrorsAreErrors, ValuesAreValues
<1> QED
  BY <1>2, <1>3

LEMMA HonestNodes ==
  /\ \A node \in Honest : /\ node.literal \in BOOLEAN /\ node.gives \in Values \union Errors
                          /\ node.plain = node.gives
                          /\ node.literal => node.gives \in Values
  /\ \A b \in BOOLEAN, x \in Values \union Errors :
       (b => ~IsError(x)) => [literal |-> b, gives |-> x, plain |-> x] \in Honest
BY ValuesAreValues DEF Honest

LEMMA ProperFits ==
  \A x : Proper(x) /\ Fits(x) => x \in Values \union Errors
BY DEF Proper, Fits

\* Taking operands off and putting their result on
LEMMA Reduced ==
  ASSUME OperatorsInv, NEW k \in Nat, k <= Len(nodes), NEW node \in Honest, Reduce(k, node),
         k = 0 => Len(nodes) < MaxNodes
  PROVE  nodes' \in Seq(Honest) /\ Len(nodes') <= MaxNodes
<1> DEFINE d == Len(nodes) - k
           kept == SubSeq(nodes, 1, d)
<1>1. nodes \in Seq(Honest) /\ Len(nodes) \in Nat /\ Len(nodes) <= MaxNodes
  BY LenProperties DEF OperatorsInv
<1>2. d \in Nat /\ d \in Int /\ \A i \in 1 .. d : nodes[i] \in Honest
  BY <1>1, ElementOfSeq
<1>3. kept \in Seq(Honest) /\ Len(kept) = (IF 1 <= d THEN d - 1 + 1 ELSE 0)
  BY ONLY <1>2, 1 \in Int, SubSeqProperties
<1>4. nodes' = Append(kept, node)
  BY DEF Reduce
<1> HIDE DEF kept
<1>5. nodes' \in Seq(Honest) /\ Len(nodes') = Len(kept) + 1
  BY <1>3, <1>4, AppendProperties
<1>6. Len(nodes') = d + 1
  BY <1>2, <1>3, <1>5
<1> QED
  BY <1>1, <1>5, <1>6, OperatorsAssumption

\* A step that leaves the errors of folding alone
LEMMA Steps ==
  ASSUME OperatorsInv, nodes' \in Seq(Honest), Len(nodes') <= MaxNodes, raised' = raised,
         variable' \in Values
  PROVE  OperatorsInv'
BY DEF OperatorsInv

LEMMA Operands ==
  ASSUME OperatorsInv, NEW k \in 1 .. Len(nodes)
  PROVE  Operand(k) \in Honest
BY ElementOfSeq, LenProperties DEF OperatorsInv, Operand

LEMMA PushingLiteral ==
  ASSUME OperatorsInv, Literal
  PROVE  OperatorsInv'
<1>1. Len(nodes) < MaxNodes /\ Len(nodes) \in Nat /\ raised' = raised /\ variable' = variable
      /\ variable \in Values
  BY LenProperties DEF Literal, OperatorsInv
<1>2. PICK node \in Honest : Reduce(0, node)
  <2>1. CASE \E x \in Literals : Reduce(0, [literal |-> TRUE, gives |-> x, plain |-> x])
    <3>1. PICK x \in Literals : Reduce(0, [literal |-> TRUE, gives |-> x, plain |-> x])
      BY <2>1
    <3>2. x \in Values
      <4>1. 0 .. MaxInt \subseteq Ints /\ 0 \in Ints /\ 1 \in Ints
        BY OneFits, IntsAreInts DEF Ints
      <4>2. \A n \in Ints : Integer(n) \in Values /\ Double(n) \in Values
        BY DEF Values, Integer, Double, Value
      <4>3. \A n \in 0 .. MaxLength : String(n) \in Values
        BY DEF Values, String, Value
      <4>4. Null \in Values /\ Boolean(TRUE) \in Values /\ Boolean(FALSE) \in Values
        <5>1. \A n \in Ints : Value("boolean", n) \in Values
          BY DEF Values, Value
        <5> QED
          BY <4>1, <5>1 DEF Values, Boolean
      <4>5. CASE \E n \in 0 .. MaxInt : x \in {Integer(n), Double(n)}
        BY <4>1, <4>2, <4>5
      <4>6. CASE \E n \in 0 .. MaxLength : x = String(n)
        BY <4>3, <4>6
      <4>7. CASE x \in {Null, Boolean(TRUE), Boolean(FALSE)}
        BY <4>4, <4>7
      <4> QED
        <5> DEFINE A == UNION {{Integer(n), Double(n)} : n \in 0 .. MaxInt}
                   B == {String(n) : n \in 0 .. MaxLength}
                   C == {Null, Boolean(TRUE), Boolean(FALSE)}
        <5>1. Literals = A \union B \union C
          BY DEF Literals
        <5>2. x \in A => \E n \in 0 .. MaxInt : x \in {Integer(n), Double(n)}
          OBVIOUS
        <5>3. x \in B => \E n \in 0 .. MaxLength : x = String(n)
          OBVIOUS
        <5>4. x \in C => x \in {Null, Boolean(TRUE), Boolean(FALSE)}
          OBVIOUS
        <5> HIDE DEF A, B, C
        <5>5. x \in A \/ x \in B \/ x \in C
          BY <5>1
        <5> QED
          BY ONLY <4>5, <4>6, <4>7, <5>2, <5>3, <5>4, <5>5
    <3> QED
      BY <3>1, <3>2, HonestNodes, ValuesAreValues
  <2>2. CASE \E x \in {Object(k) : k \in Objects} \union {Closure} :
               Reduce(0, [literal |-> FALSE, gives |-> x, plain |-> x])
    <3>1. PICK x \in {Object(k) : k \in Objects} \union {Closure} :
                Reduce(0, [literal |-> FALSE, gives |-> x, plain |-> x])
      BY <2>2
    <3>2. x \in Values
      <4>1. CASE x = Closure
        BY <4>1 DEF Values
      <4>2. CASE x # Closure
        <5>1. PICK k \in Objects : x = Object(k)
          BY <4>2
        <5>2. Object(k) \in [type : {"object"}, v : Objects]
          BY DEF Object, Value
        <5> QED
          BY <5>1, <5>2 DEF Values
      <4> QED
        BY <4>1, <4>2
    <3> QED
      BY <3>1, <3>2, HonestNodes
  <2> QED
    BY <2>1, <2>2 DEF Literal
<1>3. nodes' \in Seq(Honest) /\ Len(nodes') <= MaxNodes
  BY <1>1, <1>2, Reduced
<1> QED
  BY <1>1, <1>3, Steps

LEMMA PushingIdentifier ==
  ASSUME OperatorsInv, Identifier
  PROVE  OperatorsInv'
<1>1. Len(nodes) < MaxNodes /\ Len(nodes) \in Nat /\ raised' = raised /\ variable' = variable
      /\ variable \in Values
  BY LenProperties DEF Identifier, OperatorsInv
<1>2. [literal |-> FALSE, gives |-> variable, plain |-> variable] \in Honest
  BY <1>1, HonestNodes
<1>3. nodes' \in Seq(Honest) /\ Len(nodes') <= MaxNodes
  BY <1>1, <1>2, Reduced DEF Identifier
<1> QED
  BY <1>1, <1>3, Steps

LEMMA Combining ==
  ASSUME OperatorsInv, NEW op \in BinaryOperators, BinaryExpression(op)
  PROVE  OperatorsInv'
<1> DEFINE l == Operand(2)
           r == Operand(1)
           plain == Evaluate(op, l.plain, r.plain)
<1>1. Len(nodes) \in Nat /\ 2 <= Len(nodes) /\ variable' = variable /\ variable \in Values
  BY LenProperties DEF BinaryExpression, OperatorsInv
<1>2. l \in Honest /\ r \in Honest
  BY <1>1, Operands
<1>3. /\ l.gives \in Values \union Errors /\ l.plain = l.gives /\ (l.literal => l.gives \in Values)
      /\ r.gives \in Values \union Errors /\ r.plain = r.gives /\ (r.literal => r.gives \in Values)
  BY <1>2, HonestNodes
<1>4. plain = Evaluate(op, l.gives, r.gives)
  BY <1>3
<1>5. CASE Folds(l) /\ Folds(r)
  <2> DEFINE x == Binary(op, l.gives, r.gives)
  <2>1. l.gives \in Values /\ r.gives \in Values /\ IsNumeric(l.gives) /\ IsNumeric(r.gives)
    BY <1>3, <1>5 DEF Folds
  <2>2. Proper(x) /\ Proper(plain)
    BY <1>3, <1>4, <2>1, BinaryIsProper, EvaluateIsProper
  <2>3. op \notin Logical => plain = x
    BY <1>4, <2>1, FoldedIsEvaluated
  <2>4. op \in Logical => IsError(plain) /\ IsError(x)
    BY <1>4, <2>1, FoldedIsEvaluated
  <2>5. \/ IsError(x) /\ raised' = [folded |-> x, plain |-> plain] /\ nodes' = <<>>
        \/ /\ ~IsError(x) /\ Fits(x) /\ Reduce(2, [literal |-> TRUE, gives |-> x, plain |-> plain])
           /\ raised' = raised
    BY <1>5 DEF BinaryExpression
  <2> HIDE DEF x, plain
  <2>6. CASE IsError(x)
    <3>1. IsError(plain) /\ plain \in Errors /\ x \in Errors
      BY <2>2, <2>3, <2>4, <2>6 DEF Proper
    <3>2. raised' = [folded |-> x, plain |-> plain] /\ nodes' = <<>>
      BY <2>5, <2>6
    <3>3. nodes' \in Seq(Honest) /\ Len(nodes') <= MaxNodes
      BY <3>2, OperatorsAssumption
    <3> QED
      BY <1>1, <3>1, <3>2, <3>3 DEF OperatorsInv
  <2>7. CASE ~IsError(x)
    <3>1. plain = x /\ x \in Values \union Errors
      BY <2>2, <2>3, <2>4, <2>5, <2>7, ProperFits
    <3>2. [literal |-> TRUE, gives |-> x, plain |-> plain] \in Honest
      BY <2>7, <3>1, HonestNodes
    <3>3. nodes' \in Seq(Honest) /\ Len(nodes') <= MaxNodes
      BY <1>1, <2>5, <2>7, <3>2, Reduced
    <3> QED
      BY <1>1, <2>5, <2>7, <3>3, Steps
  <2> QED
    BY <2>6, <2>7
<1>6. CASE ~(Folds(l) /\ Folds(r))
  <2>1. /\ Fits(plain) /\ Reduce(2, [literal |-> FALSE, gives |-> plain, plain |-> plain])
        /\ raised' = raised
    BY <1>3, <1>6 DEF BinaryExpression
  <2>2. Proper(plain)
    BY <1>3, <1>4, EvaluateIsProper
  <2> HIDE DEF plain
  <2>3. [literal |-> FALSE, gives |-> plain, plain |-> plain] \in Honest
    BY <2>1, <2>2, ProperFits, HonestNodes
  <2>4. nodes' \in Seq(Honest) /\ Len(nodes') <= MaxNodes
    BY <1>1, <2>1, <2>3, Reduced
  <2> QED
    BY <1>1, <2>1, <2>4, Steps
<1> QED
  BY <1>5, <1>6

LEMMA Negating ==
  ASSUME OperatorsInv, MinusExpression \/ LogicalNotExpression
  PROVE  OperatorsInv'
<1> DEFINE x == Operand(1)
<1>1. Len(nodes) \in Nat /\ 1 <= Len(nodes) /\ variable' = variable /\ variable \in Values
      /\ raised' = raised
  BY LenProperties, EmptySeq DEF MinusExpression, LogicalNotExpression, OperatorsInv
<1>2. x \in Honest
  BY <1>1, Operands
<1>3. x.literal \in BOOLEAN /\ x.gives \in Values \union Errors /\ x.plain = x.gives
      /\ (x.literal => x.gives \in Values)
  BY <1>2, HonestNodes
<1>4. Proper(EvaluateMinus(x.gives)) /\ EvaluateNot(x.gives) \in Values \union Errors
  BY <1>3, UnaryIsProper
<1>5. CASE MinusExpression
  <2> DEFINE y == EvaluateMinus(x.gives)
  <2>1. Fits(y) /\ Reduce(1, [literal |-> Folds(x), gives |-> y, plain |-> y])
    BY <1>3, <1>5 DEF MinusExpression
  <2>2. Folds(x) \in BOOLEAN /\ (Folds(x) => ~IsError(y))
    <3>1. Folds(x) => x.gives \in Values /\ IsNumeric(x.gives)
      BY <1>3 DEF Folds
    <3>2. Folds(x) => ~IsError(x.gives) /\ y = Minus(x.gives)
      BY <3>1, ValuesAreValues DEF EvaluateMinus
    <3>3. IsNumeric(x.gives) => ~IsError(Minus(x.gives))
      BY Constructed DEF Minus, IsNumeric
    <3> QED
      BY <1>3, <3>1, <3>2, <3>3 DEF Folds, IsNumeric
  <2> HIDE DEF y
  <2>3. [literal |-> Folds(x), gives |-> y, plain |-> y] \in Honest
    <3>1. y \in Values \union Errors
      BY <1>4, <2>1, ProperFits DEF y
    <3> QED
      BY <2>2, <3>1, HonestNodes
  <2>4. nodes' \in Seq(Honest) /\ Len(nodes') <= MaxNodes
    BY <1>1, <2>1, <2>3, Reduced
  <2> QED
    BY <1>1, <2>4, Steps
<1>6. CASE LogicalNotExpression
  <2> DEFINE y == EvaluateNot(x.gives)
  <2>1. Reduce(1, [literal |-> FALSE, gives |-> y, plain |-> y])
    BY <1>3, <1>6 DEF LogicalNotExpression
  <2>2. [literal |-> FALSE, gives |-> y, plain |-> y] \in Honest
    BY <1>4, HonestNodes
  <2> HIDE DEF y
  <2>3. nodes' \in Seq(Honest) /\ Len(nodes') <= MaxNodes
    BY <1>1, <2>1, <2>2, Reduced
  <2> QED
    BY <1>1, <2>3, Steps
<1> QED
  BY <1>5, <1>6

LEMMA SubstrGives ==
  ASSUME NEW n \in 0 .. MaxLength, NEW from \in Ints, NEW len \in Ints
  PROVE  Substr(n, from, len) \in Values \union Errors
<1>1. n \in Nat /\ from \in Int /\ len \in Int
  BY IntsAreInts, OperatorsAssumption
<1>4. \A m \in Int : Wrap(m) \in Int
  BY WrapFits, IntsAreInts
<1>2. CASE from < 0 \/ from >= n
  BY <1>2, ErrorsAreErrors DEF Substr
<1>3. CASE ~(from < 0 \/ from >= n)
  <2>1. from \in 0 .. n - 1
    BY <1>1, <1>3
  <2>2. CASE len < 0 \/ Wrap(from + len) > n
    <3>1. ~(len >= 0 /\ Wrap(from + len) <= n)
      <4>1. Wrap(from + len) \in Int
        BY <1>1, <1>4
      <4> QED
        BY <1>1, <2>2, <4>1
    <3>2. Substr(n, from, len) = Error("STRING_SUBSTR_LEN")
      BY <1>3, <2>1, <2>2, <3>1 DEF Substr
    <3> QED
      BY <3>2, ErrorsAreErrors
  <2>3. CASE ~(len < 0 \/ Wrap(from + len) > n)
    <3>1. len >= 0 /\ Wrap(from + len) <= n
      <4>1. Wrap(from + len) \in Int
        BY <1>1, <1>4
      <4> QED
        BY <1>1, <2>3, <4>1
    <3>2. Substr(n, from, len) = IF from + len <= n THEN String(len) ELSE Junk
      BY <1>3, <2>1, <2>3, <3>1 DEF Substr
    <3>3. Junk \in Values
      BY DEF Values
    <3>4. from + len <= n => len \in 0 .. MaxLength
      BY <1>1, <2>1, <3>1, OperatorsAssumption
    <3>5. len \in 0 .. MaxLength => String(len) \in Values
      BY DEF Values, String, Value
    <3> QED
      BY <3>2, <3>3, <3>4, <3>5
  <2> QED
    BY <2>2, <2>3
<1> QED
  BY <1>2, <1>3

LEMMA CallingSubstr ==
  ASSUME OperatorsInv, SubstrCall
  PROVE  OperatorsInv'
<1>1. Len(nodes) \in Nat /\ 1 <= Len(nodes) /\ variable' = variable /\ variable \in Values
      /\ raised' = raised
  BY LenProperties, EmptySeq DEF SubstrCall, OperatorsInv
<1> DEFINE x == Operand(1)
<1>2. x \in Honest
  BY <1>1, Operands
<1>3. x.gives \in Values /\ x.gives.type = "string"
  BY <1>2, HonestNodes, ValuesAreValues DEF SubstrCall
<1>4. x.gives.v \in 0 .. MaxLength
  BY <1>3, ValuesAreValues
<1>5. PICK from \in Ints, len \in Ints :
        Reduce(1, [literal |-> FALSE, gives |-> Substr(x.gives.v, from, len),
                   plain |-> Substr(x.gives.v, from, len)])
  BY DEF SubstrCall
<1> DEFINE y == Substr(x.gives.v, from, len)
<1>6. y \in Values \union Errors
  BY <1>4, SubstrGives
<1>7. Reduce(1, [literal |-> FALSE, gives |-> y, plain |-> y])
  BY <1>5
<1> HIDE DEF y
<1>8. [literal |-> FALSE, gives |-> y, plain |-> y] \in Honest
  BY <1>6, HonestNodes
<1>9. nodes' \in Seq(Honest) /\ Len(nodes') <= MaxNodes
  BY <1>1, <1>7, <1>8, Reduced
<1> QED
  BY <1>1, <1>9, Steps

\* The one operand of a statement
LEMMA OnlyNode ==
  ASSUME OperatorsInv, Len(nodes) = 1
  PROVE  nodes[1] \in Honest /\ nodes[1].plain = nodes[1].gives
           /\ nodes[1].gives \in Values \union Errors
<1>1. nodes[1] \in Honest
  BY ElementOfSeq DEF OperatorsInv
<1> QED
  BY <1>1, HonestNodes

LEMMA AfterErrorValue ==
  ASSUME OperatorsInv, NEW x
  PROVE  AfterError(x) \in Values
BY DEF AfterError, OperatorsInv, Values

LEMMA EmptyIsFine == <<>> \in Seq(Honest) /\ Len(<<>>) <= MaxNodes
BY OperatorsAssumption

LEMMA Assigning ==
  ASSUME OperatorsInv, NEW op, Assignment(op)
  PROVE  OperatorsInv'
<1> DEFINE src == nodes[1].gives
           x == DoAssign(op, variable, src)
<1>1. nodes' = <<>> /\ raised' = raised
  BY DEF Assignment
<1>2. CASE IsError(src)
  <2>1. variable' = AfterError(src)
    BY <1>2 DEF Assignment
  <2> QED
    BY <1>1, <2>1, AfterErrorValue, EmptyIsFine, Steps
<1>3. CASE ~IsError(src)
  <2>1. Fits(x) /\ variable' = IF IsError(x) THEN AfterError(x) ELSE x
    BY <1>3 DEF Assignment
  <2>2. variable' \in Values
    BY <2>1, AfterErrorValue DEF Fits
  <2> QED
    BY <1>1, <2>2, EmptyIsFine, Steps
<1> QED
  BY <1>2, <1>3

LEMMA Counting ==
  ASSUME OperatorsInv, IncDec
  PROVE  OperatorsInv'
<1>1. nodes = <<>> /\ raised' = raised /\ variable \in Values /\ nodes \in Seq(Honest)
      /\ Len(nodes) <= MaxNodes
  BY DEF IncDec, OperatorsInv
<1>2. CASE variable.type = "int"
  <2>1. PICK d \in {1, -1} : variable' = Integer(Wrap(variable.v + d))
    BY <1>2 DEF IncDec
  <2>2. variable.v \in Int
    BY <1>1, <1>2, ValuesAreValues, IntsAreInts
  <2>3. Wrap(variable.v + d) \in Ints
    BY <2>2, WrapFits
  <2>4. variable' \in Values
    BY <2>1, <2>3 DEF Integer, Value, Values
  <2>5. Reduce(0, [literal |-> FALSE, gives |-> variable, plain |-> variable])
    BY <1>2 DEF IncDec
  <2>7. [literal |-> FALSE, gives |-> variable, plain |-> variable] \in Honest
    BY <1>1, HonestNodes
  <2>8. 0 \in Nat /\ 0 <= Len(nodes) /\ Len(nodes) < MaxNodes
    BY <1>1, OperatorsAssumption
  <2>9. nodes' \in Seq(Honest) /\ Len(nodes') <= MaxNodes
    BY <2>5, <2>7, <2>8, Reduced
  <2> QED
    BY <1>1, <2>4, <2>9, Steps
<1>3. CASE variable.type # "int"
  <2>1. nodes' = nodes /\ variable' = variable
    BY <1>3 DEF IncDec
  <2> QED
    BY <1>1, <2>1, Steps
<1> QED
  BY <1>2, <1>3

LEMMA Dropping ==
  ASSUME OperatorsInv, ExpressionStatement
  PROVE  OperatorsInv'
<1>1. nodes' = <<>> /\ raised' = raised /\ variable' = AfterError(nodes[1].gives)
  BY DEF ExpressionStatement
<1> QED
  BY <1>1, AfterErrorValue, EmptyIsFine, Steps

LEMMA Recompiling ==
  ASSUME NextProgram
  PROVE  OperatorsInv'
BY EmptyIsFine DEF NextProgram, OperatorsInv, Values

LEMMA OperatorsStep == OperatorsInv /\ [OperatorsNext]_operatorVars => OperatorsInv'
<1> SUFFICES ASSUME OperatorsInv, [OperatorsNext]_operatorVars PROVE OperatorsInv'
  OBVIOUS
<1>1. CASE NextProgram
  BY <1>1, Recompiling
<1>2. CASE Literal
  BY <1>2, PushingLiteral
<1>3. CASE Identifier
  BY <1>3, PushingIdentifier
<1>4. CASE MinusExpression \/ LogicalNotExpression
  BY <1>4, Negating
<1>5. CASE SubstrCall
  BY <1>5, CallingSubstr
<1>6. CASE IncDec
  BY <1>6, Counting
<1>7. CASE ExpressionStatement
  BY <1>7, Dropping
<1>8. CASE \E op \in BinaryOperators : BinaryExpression(op)
  BY <1>8, Combining
<1>9. CASE \E op \in Math \union {"NORMAL"} : Assignment(op)
  BY <1>9, Assigning
<1>10. CASE UNCHANGED operatorVars
  BY <1>10 DEF operatorVars, OperatorsInv
<1> QED
  BY <1>1, <1>2, <1>3, <1>4, <1>5, <1>6, <1>7, <1>8, <1>9, <1>10 DEF OperatorsNext

\* Of every expression that is built, folded or not, it is known what it gives, and that it
\* would have given the same had nothing been folded (create.c:207-330, eval.c).
THEOREM OperatorsInvariance == OperatorsSpec => []OperatorsInv
<1>1. OperatorsInit => OperatorsInv
  BY EmptyIsFine DEF OperatorsInit, OperatorsInv, Values
<1> QED
  BY <1>1, OperatorsStep, PTL DEF OperatorsSpec

\* An operator, evaluated or folded, gives a value of a type or one of the errors, whatever its
\* operands: what arithmetic leaves undefined is junk, and never a value that passes for one.
THEOREM OperatorsTypes == OperatorsSpec => []OperatorsTypeOK
<1>1. OperatorsInv => OperatorsTypeOK
  <2> SUFFICES ASSUME OperatorsInv PROVE OperatorsTypeOK
    OBVIOUS
  <2> DEFINE Node == [literal : BOOLEAN, gives : Values \union Errors, plain : Values \union Errors]
  <2>1. Honest \subseteq Node
    BY DEF Honest
  <2>2. nodes \in Seq(Honest) /\ \A i \in 1 .. Len(nodes) : nodes[i] \in Honest
    BY ElementOfSeq DEF OperatorsInv
  <2>3. nodes \in Seq(Node)
    BY <2>1, <2>2, SeqMonotonic
  <2>4. DOMAIN nodes = 1 .. Len(nodes)
    BY <2>2, LenProperties
  <2>5. \A i \in DOMAIN nodes : nodes[i].literal => ~IsError(nodes[i].gives)
    BY <2>2, <2>4 DEF Honest
  <2> QED
    BY <2>3, <2>5 DEF OperatorsInv, OperatorsTypeOK
<1> QED
  BY <1>1, OperatorsInvariance, PTL

\* Folding literals changes what no expression gives, however it is nested.
THEOREM FoldedExpressions == OperatorsSpec => []FoldingIsEvaluation
<1>1. OperatorsInv => FoldingIsEvaluation
  <2> SUFFICES ASSUME OperatorsInv PROVE FoldingIsEvaluation
    OBVIOUS
  <2>1. \A i \in DOMAIN nodes : nodes[i] \in Honest
    BY ElementOfSeq, LenProperties DEF OperatorsInv
  <2> QED
    BY <2>1 DEF Honest, OperatorsInv, FoldingIsEvaluation
<1> QED
  BY <1>1, OperatorsInvariance, PTL

\* The statement x op= e, for any values of the types it is meant for, assigns what x op e gives
\* or, where that raises, nothing; x++ adds one, and x-- takes one off.
THEOREM CompoundAssignments == OperatorsSpec => CompoundIsBinary
<1>1. ASSUME OperatorsInv PROVE AssignsAsBinary
  <2> SUFFICES ASSUME NEW op \in Math, Assignment(op), ~IsError(nodes[1].plain),
                      nodes[1].plain # Junk,
                      \/ IsNumeric(variable) /\ IsNumeric(nodes[1].plain)
                      \/ variable.type = "string" /\ op = "ADD"
               PROVE  variable' = IF IsError(Binary(op, variable, nodes[1].plain))
                                  THEN AfterError(Binary(op, variable, nodes[1].plain))
                                  ELSE Binary(op, variable, nodes[1].plain)
    BY DEF AssignsAsBinary
  <2> DEFINE x == nodes[1].plain
             y == DoAssign(op, variable, x)
  <2>1. nodes[1].gives = x /\ x \in Values /\ variable \in Values
    BY <1>1, OnlyNode, ValuesAreValues DEF Assignment, OperatorsInv
  <2>2. variable' = IF IsError(y) THEN AfterError(y) ELSE y
    BY <2>1 DEF Assignment
  <2>3. y = Binary(op, variable, x)
    <3>1. op # "NORMAL" /\ (IsNumeric(x) => x.type # "string")
      BY DEF Math, IsNumeric
    <3>2. CASE variable.type = "string" /\ op = "ADD"
      <4>1. y = Chain(variable, x)
        BY <3>1, <3>2 DEF DoAssign
      <4>2. variable # Junk /\ ~IsNumeric(variable) /\ variable.type # "boolean"
        BY <2>1, <3>2, ValuesAreValues DEF IsNumeric
      <4>3. Binary(op, variable, x) = Chain(variable, x)
        BY <3>2, <4>2 DEF Binary
      <4> QED
        BY <4>1, <4>3
    <3>3. CASE IsNumeric(variable) /\ IsNumeric(x)
      <4>1. variable.type # "string"
        BY <3>3 DEF IsNumeric
      <4>2. y = BinaryNumeric(op, variable, x)
        BY <3>1, <4>1 DEF DoAssign
      <4>3. variable # Junk /\ x # Junk
        BY <2>1, <3>3, ValuesAreValues DEF IsNumeric
      <4>4. Binary(op, variable, x) = BinaryNumeric(op, variable, x)
        BY <3>3, <4>3 DEF Binary
      <4> QED
        BY <4>2, <4>4
    <3> QED
      BY <3>2, <3>3
  <2> QED
    BY <2>2, <2>3
<1>2. ASSUME OperatorsInv PROVE CountsAsBinary
  <2> SUFFICES ASSUME IncDec, variable.type = "int"
               PROVE  variable' \in {Binary(op, variable, Integer(1)) : op \in {"ADD", "SUB"}}
    BY DEF CountsAsBinary
  <2>1. variable \in Values /\ variable.v \in Int
    BY <1>2, ValuesAreValues, IntsAreInts DEF OperatorsInv
  <2> DEFINE n == variable.v
  <2>2. Integer(1) \in Values /\ Integer(1).type = "int" /\ Integer(1).v = 1
    BY OneFits DEF Integer, Value, Values
  <2>3. \A op : Binary(op, variable, Integer(1)) = BinaryInt(op, n, 1)
    <3>1. variable # Junk /\ Integer(1) # Junk /\ IsNumeric(variable) /\ IsNumeric(Integer(1))
      BY <2>1, <2>2, ValuesAreValues DEF IsNumeric
    <3> QED
      BY <2>2, <3>1 DEF Binary, BinaryNumeric
  <2>4. BinaryInt("ADD", n, 1) = Integer(Wrap(n + 1))
    BY DEF BinaryInt, Arithmetic, Logical, Comparison
  <2>5. BinaryInt("SUB", n, 1) = Integer(Wrap(n - 1))
    BY DEF BinaryInt, Arithmetic, Logical, Comparison
  <2>6. PICK d \in {1, -1} : variable' = Integer(Wrap(n + d))
    BY DEF IncDec
  <2>7. n + -1 = n - 1
    BY <2>1
  <2>8. variable' = Integer(Wrap(n + 1)) \/ variable' = Integer(Wrap(n - 1))
    BY <2>6, <2>7
  <2> HIDE DEF n
  <2>9. \/ variable' = Binary("ADD", variable, Integer(1))
        \/ variable' = Binary("SUB", variable, Integer(1))
    BY <2>3, <2>4, <2>5, <2>8
  <2> QED
    BY <2>9
<1>3. OperatorsInv => [AssignsAsBinary /\ CountsAsBinary]_operatorVars
  BY <1>1, <1>2
<1> QED
  BY <1>3, OperatorsInvariance, PTL DEF OperatorsSpec, CompoundIsBinary

-----------------------------------------------------------------------------
(* The loops around the search (Matching).                                 *)

\* The buffers a call has while it is under way, and when it has ended
BuffersInv ==
  /\ phase \in {"idle", "match", "replace", "split", "done", "crashed"}
  /\ phase = "idle" => live = {} /\ at = 0 /\ count = 0
  /\ phase \in {"match", "replace", "split"} => phase = call.kind
  /\ phase = "match" => live = {"subject"} \union (IF call.region THEN {"region"} ELSE {})
  /\ phase = "replace" => {"subject", "region"} \subseteq live
       /\ live \subseteq {"subject", "region", "vs"}
  /\ phase = "replace" /\ count = 0 => "vs" \notin live
  /\ phase = "split" => live = {"subject", "region"}
  /\ BuffersReleased

\* Where the search is, within the subject
SearchInv ==
  /\ phase \notin {"idle", "done"} => call \in Calls
  /\ phase \notin {"idle", "done"} => at \in 0 .. call.n
  /\ count \in Nat
  /\ Advances

LEMMA KindsOfCalls ==
  ASSUME NEW c \in Calls
  PROVE  /\ c.kind \in {"match", "replace", "split"} /\ c.n \in 0 .. MaxSubject
         /\ c.kind = "match" => c.region \in BOOLEAN
         /\ c.regexp \in Regexps(c.n)
<1>1. PICK n \in 0 .. MaxSubject :
        c \in [kind : {"match"}, n : {n}, regexp : Regexps(n), region : BOOLEAN]
                \union [kind : {"replace"}, n : {n}, regexp : Regexps(n),
                        tokens : Replacements, limit : {1, MatchLimit}]
                \union [kind : {"split"}, n : {n}, regexp : Regexps(n)]
  BY DEF Calls
<1>2. CASE c \in [kind : {"match"}, n : {n}, regexp : Regexps(n), region : BOOLEAN]
  BY <1>2
<1>3. CASE c \in [kind : {"replace"}, n : {n}, regexp : Regexps(n),
                  tokens : Replacements, limit : {1, MatchLimit}]
  BY <1>3
<1>4. CASE c \in [kind : {"split"}, n : {n}, regexp : Regexps(n)]
  BY <1>4
<1> QED
  BY <1>1, <1>2, <1>3, <1>4

LEMMA BuffersStep == BuffersInv /\ count \in Nat /\ [MatchingNext]_matchingVars => BuffersInv'
<1> SUFFICES ASSUME BuffersInv, count \in Nat, [MatchingNext]_matchingVars PROVE BuffersInv'
  OBVIOUS
<1> USE DEF BuffersReleased
<1>1. CASE Begin
  <2>1. call'.kind \in {"match", "replace", "split"}
          /\ (call'.kind = "match" => call'.region \in BOOLEAN)
    BY <1>1, KindsOfCalls DEF Begin
  <2> QED
    BY <1>1, <2>1 DEF Begin, BuffersInv
<1>2. CASE SearchFails
  BY <1>2 DEF SearchFails, Frees, Ends, BuffersInv
<1>3. CASE Match
  <2>1. CASE call.region /\ \E group \in Groups : ~BeginsInside(group)
    BY <1>3, <2>1 DEF Match, Frees, Ends, BuffersInv
  <2>2. CASE ~(call.region /\ \E group \in Groups : ~BeginsInside(group))
    <3>1. phase = "match" /\ Frees({"subject", "region"}) /\ phase' = "done"
      BY <1>3, <2>2 DEF Match, Ends
    <3>2. live' = {}
      BY <3>1 DEF Frees, BuffersInv
    <3> QED
      BY <3>1, <3>2 DEF BuffersInv
  <2> QED
    BY <2>1, <2>2
<1>4. CASE ReplaceOne
  <2> DEFINE text == ReplaceMatchedPlace(Place(at))
  <2>1. phase = "replace" /\ call' = call
    BY <1>4 DEF ReplaceOne
  <2>2. CASE ~Broken(text)
    <3>1. /\ count' = count + 1 /\ phase' = phase /\ outcome' = outcome
          /\ live' = live \union (IF out' = <<>> THEN {} ELSE {"vs"})
      BY <1>4, <2>2 DEF ReplaceOne
    <3> QED
      BY <2>1, <3>1 DEF BuffersInv
  <2>3. CASE Broken(text)
    <3>1. \/ phase' = "crashed"
          \/ live' = live \ {"subject", "vs", "region"} /\ phase' = "done"
      BY <1>4, <2>3 DEF ReplaceOne, Crash, Frees, Ends
    <3>2. phase' = "done" => live' = {}
      BY <2>1, <3>1 DEF BuffersInv
    <3> QED
      BY <3>1, <3>2 DEF BuffersInv
  <2> QED
    BY <2>2, <2>3
<1>5. CASE ReplaceEnds
  <2>1. phase = "replace"
    BY <1>5 DEF ReplaceEnds
  <2>2. CASE count = 0
    <3>1. live' = live \ {"subject", "region"} /\ phase' = "done"
      BY <1>5, <2>2 DEF ReplaceEnds, Frees, Ends
    <3>2. live' = {}
      BY <2>1, <2>2, <3>1 DEF BuffersInv
    <3> QED
      BY <3>1, <3>2 DEF BuffersInv
  <2>3. CASE count # 0
    <3>1. phase' = "crashed" \/ (live' = live \ {"subject", "region", "vs"} /\ phase' = "done")
      BY <1>5, <2>3 DEF ReplaceEnds, Frees, Ends, Crash
    <3>2. phase' = "done" => live' = {}
      BY <2>1, <3>1 DEF BuffersInv
    <3> QED
      BY <3>1, <3>2 DEF BuffersInv
  <2> QED
    BY <2>2, <2>3
<1>6. CASE SplitOne
  <2>1. phase' = "crashed" \/ (phase' = phase /\ live' = live /\ outcome' = outcome)
    BY <1>6 DEF SplitOne, Crash
  <2> QED
    BY <1>6, <2>1 DEF SplitOne, BuffersInv
<1>7. CASE SplitEnds
  <2>1. /\ phase = "split"
        /\ phase' = "crashed" \/ (phase' = "done" /\ live' = live \ {"subject", "region"})
    BY <1>7 DEF SplitEnds, Crash, Frees, Ends
  <2>2. phase' = "done" => live' = {}
    BY <2>1 DEF BuffersInv
  <2> QED
    BY <2>1, <2>2 DEF BuffersInv
<1>8. CASE Return
  BY <1>8 DEF Return, BuffersInv
<1>9. CASE Crashed \/ UNCHANGED matchingVars
  BY <1>9 DEF Crashed, matchingVars, BuffersInv
<1> QED
  BY <1>1, <1>2, <1>3, <1>4, <1>5, <1>6, <1>7, <1>8, <1>9 DEF MatchingNext

\* What the search finds lies where it looks, and ends within the subject.
LEMMA Found ==
  ASSUME call \in Calls, at \in 0 .. call.n, Matches(at) # {}
  PROVE  /\ Place(at) \in at .. call.n /\ at \in Nat /\ call.n \in Nat
         /\ Length(Place(at)) \in Nat
         /\ End(Place(at)) = Place(at) + Length(Place(at)) /\ End(Place(at)) \in Place(at) .. call.n
<1>1. call.n \in Nat /\ at \in Nat /\ call.regexp \in Regexps(call.n)
  BY KindsOfCalls, MatchingAssumption
<1>2. Matches(at) \in SUBSET Nat
  BY <1>1 DEF Matches
<1>3. \E q \in Matches(at) : \A r \in Matches(at) : q <= r
  BY <1>2, Least
<1>4. Place(at) \in Matches(at)
  BY <1>3 DEF Place
<1> DEFINE q == Place(at)
<1> HIDE DEF q
<1>5. q \in at .. call.n /\ call.regexp.length[q] >= 0
  BY <1>4 DEF Matches, q
<1>6. call.regexp.length \in [0 .. call.n -> -1 .. call.n]
      /\ \A p \in 0 .. call.n : call.regexp.length[p] <= call.n - p
  BY <1>1 DEF Regexps
<1>7. Length(q) \in Nat /\ Length(q) <= call.n - q
  <2>1. q \in 0 .. call.n
    BY <1>1, <1>5
  <2>2. call.regexp.length[q] \in -1 .. call.n /\ call.regexp.length[q] <= call.n - q
    BY <1>6, <2>1
  <2> QED
    BY <1>1, <1>5, <2>2 DEF Length
<1>8. End(q) = q + Length(q)
  BY DEF End, Length
<1> QED
  BY <1>1, <1>5, <1>7, <1>8 DEF q

\* One more match: either it has letters, or it is the one without that Advances speaks of.
LEMMA OneMore ==
  ASSUME SearchInv, phase \in {"replace", "split"}, Matches(at) # {}, call' = call,
         phase' = phase, count' = count + 1, at' = End(Place(at))
  PROVE  SearchInv'
<1> DEFINE q == Place(at)
<1>1. call \in Calls /\ at \in 0 .. call.n /\ count \in Nat /\ Advances
  BY DEF SearchInv
<1>2. /\ q \in at .. call.n /\ at \in Nat /\ call.n \in Nat /\ Length(q) \in Nat
      /\ at' = q + Length(q) /\ at' \in q .. call.n
  BY <1>1, Found
<1> HIDE DEF q
<1>3. at' \in 0 .. call.n /\ count' \in Nat /\ at <= at' /\ q \in 0 .. at' /\ q \in 0 .. call.n
      /\ at' \in Nat
  BY <1>1, <1>2
<1>4. Length(q) # 0 => at + 1 <= at'
  BY <1>2
<1>5. \A p : Length(p)' = Length(p)
  BY DEF Length
<1>6. Regular' = Regular
  BY DEF Regular, Length
<1>7. Advances'
  <2>1. Regular => Length(q) # 0
    BY <1>3 DEF Regular
  <2>2. Regular => count' <= at'
    BY <1>1, <1>3, <1>4, <2>1 DEF Advances
  <2>3. ASSUME phase = "replace", count' > at' PROVE \E p \in 0 .. at' : Length(p) = 0
    <3>1. CASE Length(q) = 0
      BY <1>3, <3>1
    <3>2. CASE Length(q) # 0
      <4>1. count > at
        BY <1>1, <1>2, <1>3, <1>4, <2>3, <3>2
      <4>2. PICK p \in 0 .. at : Length(p) = 0
        BY <1>1, <2>3, <4>1 DEF Advances
      <4>3. p \in 0 .. at'
        BY <1>2, <1>3
      <4> QED
        BY <4>2, <4>3
    <3> QED
      BY <3>1, <3>2
  <2> QED
    BY <1>5, <1>6, <2>2, <2>3 DEF Advances
<1>8. call' \in Calls /\ at' \in 0 .. (call.n)'
  BY <1>1, <1>3
<1> QED
  BY <1>3, <1>7, <1>8 DEF SearchInv

LEMMA SearchStep == SearchInv /\ BuffersInv /\ [MatchingNext]_matchingVars => SearchInv'
<1> SUFFICES ASSUME SearchInv, BuffersInv, [MatchingNext]_matchingVars PROVE SearchInv'
  OBVIOUS
<1>1. CASE Begin
  <2>1. call' \in Calls /\ at' = 0 /\ count' = 0
    BY <1>1 DEF Begin, BuffersInv
  <2>2. call'.n \in Nat
    BY <2>1, KindsOfCalls, MatchingAssumption
  <2> QED
    BY <2>1, <2>2 DEF SearchInv, Advances
<1>2. CASE SearchFails \/ Match \/ ReplaceEnds
  <2>1. phase' \in {"done", "crashed"} /\ call' = call /\ at' = at /\ count' = count
        /\ phase \notin {"idle", "done"}
    BY <1>2 DEF SearchFails, Match, ReplaceEnds, Ends, Crash
  <2> QED
    BY <2>1 DEF SearchInv, Advances
<1>3. CASE ReplaceOne
  <2>1. CASE Broken(ReplaceMatchedPlace(Place(at)))
    <3>1. phase' \in {"done", "crashed"} /\ call' = call /\ at' = at /\ count' = count
          /\ phase \notin {"idle", "done"}
      BY <1>3, <2>1 DEF ReplaceOne, Ends, Crash
    <3> QED
      BY <3>1 DEF SearchInv, Advances
  <2>2. CASE ~Broken(ReplaceMatchedPlace(Place(at)))
    <3>1. phase = "replace" /\ Matches(at) # {} /\ call' = call /\ phase' = phase
          /\ count' = count + 1 /\ at' = End(Place(at))
      BY <1>3, <2>2 DEF ReplaceOne
    <3> QED
      BY <3>1, OneMore
  <2> QED
    BY <2>1, <2>2
<1>4. CASE SplitOne
  <2>1. CASE Place(at) = at
    <3>1. phase' = "crashed" /\ call' = call /\ at' = at /\ count' = count
            /\ phase \notin {"idle", "done"}
      BY <1>4, <2>1 DEF SplitOne, Crash
    <3> QED
      BY <3>1 DEF SearchInv, Advances
  <2>2. CASE Place(at) # at
    <3>1. phase = "split" /\ Matches(at) # {} /\ call' = call /\ phase' = phase
          /\ count' = count + 1 /\ at' = End(Place(at))
      BY <1>4, <2>2 DEF SplitOne
    <3> QED
      BY <3>1, OneMore
  <2> QED
    BY <2>1, <2>2
<1>5. CASE SplitEnds
  <2>1. phase' \in {"done", "crashed"} /\ call' = call /\ at' = at /\ count' = count
        /\ phase \notin {"idle", "done"}
    BY <1>5 DEF SplitEnds, Ends, Crash
  <2> QED
    BY <2>1 DEF SearchInv, Advances
<1>6. CASE Return
  BY <1>6 DEF Return, SearchInv, Advances
<1>7. CASE Crashed \/ UNCHANGED matchingVars
  <2>1. UNCHANGED matchingVars
    BY <1>7 DEF Crashed
  <2> QED
    BY <2>1 DEF matchingVars, SearchInv, Advances, Regular, Length
<1> QED
  BY <1>1, <1>2, <1>3, <1>4, <1>5, <1>6, <1>7 DEF MatchingNext

LEMMA MatchingInvariance == MatchingSpec => [](BuffersInv /\ SearchInv)
<1>1. MatchingInit => BuffersInv /\ SearchInv
  BY DEF MatchingInit, BuffersInv, BuffersReleased, SearchInv, Advances
<1>2. BuffersInv /\ SearchInv /\ [MatchingNext]_matchingVars => (BuffersInv /\ SearchInv)'
  BY BuffersStep, SearchStep DEF SearchInv
<1> QED
  BY <1>1, <1>2, PTL DEF MatchingSpec

\* Whatever the expression, the subject, the replacement and the number of matches: a call that
\* ends has freed its buffers, except in the two ways BuffersReleased names.
THEOREM CallsFreeTheirBuffers == MatchingSpec => []BuffersReleased
<1>1. BuffersInv => BuffersReleased
  BY DEF BuffersInv
<1> QED
  BY <1>1, MatchingInvariance, PTL

\* The loops get on with each match that has letters: they turn more often than the subject has
\* letters only if there is a match without.
THEOREM LoopsAdvance == MatchingSpec => []Advances
<1>1. SearchInv => Advances
  BY DEF SearchInv
<1> QED
  BY <1>1, MatchingInvariance, PTL

-----------------------------------------------------------------------------
(* What the calls give (Matching): the recursive definitions of the        *)
(* replacement and of the reference, unfolded by the least position where  *)
(* they would fail, and the loops compared with the reference.             *)

\* P lists what the first entries of s are, one after the other.
Sums(P, s, S) ==
  /\ P \in [0 .. Len(s) -> Seq(S)]
  /\ P[0] = <<>>
  /\ \A k \in 1 .. Len(s) : P[k] = P[k - 1] \o s[k]

LEMMA Flattened ==
  ASSUME NEW S, NEW s \in Seq(Seq(S))
  PROVE  \E P : Sums(P, s, S) /\ FlattenSeq(s) = P[Len(s)]
<1>0. PICK m : m = Len(s)
  OBVIOUS
<1> DEFINE Term(f, i) == IF i = 1 THEN s[i] ELSE f[i - 1] \o s[i]
           Upto(f, j) == f \in [1 .. j -> Seq(S)] /\ \A i \in 1 .. j : f[i] = Term(f, i)
           Missing == {j \in 0 .. m : ~\E f : Upto(f, j)}
<1>1. m \in Nat /\ \A i \in 1 .. m : s[i] \in Seq(S)
  BY <1>0
<1>2. Missing = {}
  <2>1. SUFFICES ASSUME Missing # {} PROVE FALSE
    OBVIOUS
  <2>2. Missing \in SUBSET Nat
    BY <1>1
  <2>3. PICK j \in Missing : \A i \in Missing : j <= i
    BY <2>1, <2>2, Least
  <2>4. CASE j = 0
    <3>1. Upto([i \in 1 .. 0 |-> <<>>], 0)
      OBVIOUS
    <3> QED
      BY <2>3, <2>4, <3>1
  <2>5. CASE j # 0
    <3>1. j - 1 \in 0 .. m /\ j \in 1 .. m /\ ~(j - 1 \in Missing)
      <4>1. j - 1 \in 0 .. m /\ j \in 1 .. m /\ ~(j <= j - 1)
        BY <1>1, <2>3, <2>5
      <4> QED
        BY <2>3, <4>1
    <3>2. PICK f : Upto(f, j - 1)
      BY <3>1
    <3>3. Term(f, j) \in Seq(S)
      <4>1. CASE j = 1
        BY <1>1, <3>1, <4>1
      <4>2. CASE j # 1
        <5>1. f[j - 1] \in Seq(S) /\ s[j] \in Seq(S)
          BY <1>1, <3>1, <3>2, <4>2
        <5> QED
          BY <4>2, <5>1, ConcatProperties
      <4> QED
        BY <4>1, <4>2
    <3>4. PICK g : g = [i \in 1 .. j |-> IF i = j THEN Term(f, j) ELSE f[i]]
      OBVIOUS
    <3>5. g \in [1 .. j -> Seq(S)]
      <4>1. \A i \in 1 .. j : i # j => f[i] \in Seq(S)
        BY <3>1, <3>2
      <4> QED
        BY <3>3, <3>4, <4>1
    <3>6. ASSUME NEW i \in 1 .. j PROVE g[i] = Term(g, i)
      <4>1. i # 1 => i - 1 \in 1 .. j /\ i - 1 # j /\ g[i - 1] = f[i - 1]
        BY <3>1, <3>4, <3>6
      <4>2. CASE i = j
        BY <3>4, <4>1, <4>2
      <4>3. CASE i # j
        <5>1. i \in 1 .. j - 1
          BY <3>1, <4>3
        <5>2. f[i] = Term(f, i) /\ g[i] = f[i]
          BY <3>2, <3>4, <4>3, <5>1
        <5> QED
          BY <4>1, <5>2
      <4> QED
        BY <4>2, <4>3
    <3> QED
      BY <2>3, <3>5, <3>6
  <2> QED
    BY <2>4, <2>5
<1>3. PICK f : Upto(f, m)
  <2>1. m \in 0 .. m
    BY <1>1
  <2>2. ~(m \in Missing)
    BY <1>2
  <2> QED
    BY <2>1, <2>2
<1>4. CASE m = 0
  <2>1. s = <<>>
    BY <1>0, <1>4, EmptySeq
  <2>2. FlattenSeq(s) = <<>>
    BY <1>0, <1>4, <2>1 DEF FlattenSeq
  <2>3. PICK P : P = [k \in 0 .. 0 |-> <<>>]
    OBVIOUS
  <2>4. Sums(P, s, S) /\ P[Len(s)] = <<>>
    BY <1>0, <1>4, <2>3 DEF Sums
  <2> QED
    BY <2>2, <2>4
<1>5. CASE m # 0
  <2> DEFINE F == CHOOSE f1 : f1 = [i \in 1 .. Len(s) |-> IF i = 1 THEN s[i] ELSE f1[i - 1] \o s[i]]
  <2>1. FlattenSeq(s) = F[m]
    BY <1>0, <1>5 DEF FlattenSeq
  <2>2. f = [i \in 1 .. Len(s) |-> IF i = 1 THEN s[i] ELSE f[i - 1] \o s[i]]
    BY <1>0, <1>3
  <2>3. F = [i \in 1 .. Len(s) |-> IF i = 1 THEN s[i] ELSE F[i - 1] \o s[i]]
    BY <2>2
  <2> HIDE DEF F
  <2>4. PICK h : h = F
    OBVIOUS
  <2>5. \A i \in 1 .. m : h[i] = IF i = 1 THEN s[i] ELSE h[i - 1] \o s[i]
    BY <1>0, <2>3, <2>4
  <2>6. \A i \in 1 .. m : h[i] \in Seq(S)
    <3> DEFINE Untyped == {i \in 1 .. m : h[i] \notin Seq(S)}
    <3>1. SUFFICES ASSUME Untyped # {} PROVE FALSE
      OBVIOUS
    <3>2. Untyped \in SUBSET Nat
      BY <1>1
    <3>3. PICK j \in Untyped : \A i \in Untyped : j <= i
      BY <3>1, <3>2, Least
    <3>4. j = 1 => h[j] \in Seq(S)
      BY <1>1, <2>5, <3>3
    <3>5. ASSUME j # 1 PROVE FALSE
      <4>1. j - 1 \in 1 .. m /\ ~(j - 1 \in Untyped) /\ j \in 1 .. m
        BY <1>1, <3>3, <3>5
      <4>2. h[j - 1] \in Seq(S) /\ s[j] \in Seq(S) /\ h[j] = h[j - 1] \o s[j]
        BY <1>1, <2>5, <3>5, <4>1
      <4>3. h[j] \in Seq(S)
        BY <4>2, ConcatProperties
      <4> QED
        BY <3>3, <4>3
    <3> QED
      BY <3>3, <3>4, <3>5
  <2>7. PICK P : P = [k \in 0 .. m |-> IF k = 0 THEN <<>> ELSE h[k]]
    OBVIOUS
  <2>8. P \in [0 .. m -> Seq(S)] /\ P[0] = <<>> /\ P[m] = h[m]
    <3>1. <<>> \in Seq(S) /\ \A k \in 0 .. m : k # 0 => h[k] \in Seq(S)
      BY <1>1, <2>6
    <3> QED
      BY <1>1, <1>5, <2>7, <3>1
  <2>9. ASSUME NEW k \in 1 .. m PROVE P[k] = P[k - 1] \o s[k]
    <3>1. P[k] = h[k] /\ k - 1 \in 0 .. m
      BY <1>1, <2>7
    <3>2. CASE k = 1
      <4>1. P[k - 1] = <<>> /\ P[k] = s[k] /\ s[k] \in Seq(S)
        BY <1>1, <2>5, <2>8, <3>1, <3>2
      <4> QED
        BY <4>1, ConcatEmptySeq
    <3>3. CASE k # 1
      <4>1. k - 1 \in 0 .. m /\ k - 1 # 0
        BY <1>1, <3>3
      <4>2. P[k - 1] = h[k - 1]
        BY <2>7, <4>1
      <4>3. h[k] = h[k - 1] \o s[k]
        BY <2>5, <3>3
      <4> QED
        BY <3>1, <4>2, <4>3
    <3> QED
      BY <3>2, <3>3
  <2> QED
    BY <1>0, <1>1, <2>1, <2>4, <2>8, <2>9 DEF Sums
<1> QED
  BY <1>4, <1>5

\* The entries follow each other in the sum.
LEMMA SumsExtend ==
  ASSUME NEW S, NEW s \in Seq(Seq(S)), NEW P, Sums(P, s, S),
         NEW k \in 0 .. Len(s), NEW j \in k .. Len(s)
  PROVE  Len(P[k]) <= Len(P[j]) /\ \A i \in 1 .. Len(P[k]) : P[j][i] = P[k][i]
<1>0. PICK m : m = Len(s)
  OBVIOUS
<1>1. m \in Nat /\ (\A i \in 1 .. m : s[i] \in Seq(S)) /\ P \in [0 .. m -> Seq(S)]
      /\ \A i \in 1 .. m : P[i] = P[i - 1] \o s[i]
  <2>1. m \in Nat /\ \A i \in 1 .. m : s[i] \in Seq(S)
    BY <1>0
  <2>2. P \in [0 .. m -> Seq(S)] /\ \A i \in 1 .. m : P[i] = P[i - 1] \o s[i]
    BY <1>0, Zenon DEF Sums
  <2> QED
    BY <2>1, <2>2
<1> DEFINE Holds(l) == Len(P[k]) <= Len(P[l]) /\ \A i \in 1 .. Len(P[k]) : P[l][i] = P[k][i]
           Fails == {l \in k .. m : ~Holds(l)}
<1>2. SUFFICES ASSUME Fails # {} PROVE FALSE
  BY <1>0
<1>3. Fails \in SUBSET Nat
  BY <1>0, <1>1
<1>4. PICK l \in Fails : \A i \in Fails : l <= i
  BY <1>2, <1>3, Least
<1>5. l \in k .. m /\ ~Holds(l) /\ k \in 0 .. m /\ l \in Nat /\ k \in Nat
  BY <1>0, <1>1, <1>4
<1>6. l # k
  <2>1. Len(P[k]) \in Nat
    BY <1>1, <1>5, LenProperties
  <2>2. Holds(k)
    BY <2>1
  <2> QED
    BY <1>5, <2>2
<1>7. l - 1 \in k .. m /\ l \in 1 .. m /\ l - 1 \in 0 .. m /\ ~(l <= l - 1)
  BY <1>1, <1>5, <1>6
<1>8. Holds(l - 1)
  BY <1>4, <1>7
<1> HIDE DEF Fails
<1>9. PICK a, b \in Seq(S) : a = P[l - 1] /\ b = s[l] /\ P[l] = a \o b
  <2>1. P[l - 1] \in Seq(S) /\ s[l] \in Seq(S) /\ P[l] = P[l - 1] \o s[l]
    BY <1>1, <1>7
  <2> QED
    BY <2>1
<1>10. PICK c \in Seq(S) : c = P[k]
  BY <1>1, <1>5
<1>11. Len(a \o b) = Len(a) + Len(b) /\ Len(a) \in Nat /\ Len(b) \in Nat /\ Len(c) \in Nat
       /\ \A i \in 1 .. Len(a) + Len(b) : (a \o b)[i] = IF i <= Len(a) THEN a[i] ELSE b[i - Len(a)]
  BY ConcatProperties
<1>12. Len(c) <= Len(a) /\ \A i \in 1 .. Len(c) : a[i] = c[i]
  BY <1>8, <1>9, <1>10
<1>13. \A i \in 1 .. Len(c) : i \in 1 .. Len(a) + Len(b) /\ i <= Len(a)
  BY <1>11, <1>12
<1>14. \A i \in 1 .. Len(c) : (a \o b)[i] = c[i]
  BY <1>11, <1>12, <1>13
<1>15. Holds(l)
  <2>1. Len(c) <= Len(a \o b)
    BY <1>11, <1>12
  <2> QED
    BY <1>9, <1>10, <1>14, <2>1
<1> QED
  BY <1>5, <1>15

LEMMA SumsGrow ==
  ASSUME NEW S, NEW s \in Seq(Seq(S)), NEW P, Sums(P, s, S), NEW k \in 1 .. Len(s)
  PROVE  /\ P[k - 1] \in Seq(S) /\ s[k] \in Seq(S) /\ P[Len(s)] \in Seq(S)
         /\ P[k] = P[k - 1] \o s[k] /\ k \in 0 .. Len(s) /\ Len(s) \in k .. Len(s)
         /\ Len(P[k - 1]) \in Nat /\ Len(P[k]) = Len(P[k - 1]) + Len(s[k])
         /\ Len(P[k]) <= Len(P[Len(s)]) /\ Len(P[Len(s)]) \in Nat
<1>1. k - 1 \in 0 .. Len(s) /\ k \in 0 .. Len(s) /\ Len(s) \in k .. Len(s) /\ Len(s) \in 0 .. Len(s)
  OBVIOUS
<1>2. P[k - 1] \in Seq(S) /\ s[k] \in Seq(S) /\ P[Len(s)] \in Seq(S)
        /\ P[k] = P[k - 1] \o s[k]
  <2>1. P \in [0 .. Len(s) -> Seq(S)] /\ P[k] = P[k - 1] \o s[k]
    BY Zenon DEF Sums
  <2>2. s[k] \in Seq(S)
    OBVIOUS
  <2> QED
    BY <1>1, <2>1, <2>2
<1>3. Len(P[k - 1] \o s[k]) = Len(P[k - 1]) + Len(s[k])
  BY <1>2, ConcatProperties
<1>4. Len(P[k]) <= Len(P[Len(s)])
  BY <1>1, SumsExtend
<1> QED
  BY <1>1, <1>2, <1>3, <1>4, LenProperties

LEMMA SumsLengths ==
  ASSUME NEW s \in Seq(Seq(Int)), NEW P, Sums(P, s, Int), NEW k \in 1 .. Len(s)
  PROVE  /\ Len(P[k - 1]) \in Nat /\ Len(P[k]) = Len(P[k - 1]) + Len(s[k])
         /\ Len(P[k]) <= Len(P[Len(s)]) /\ Len(P[Len(s)]) \in Nat
<1>1. Len(P[k - 1]) \in Nat
  BY SumsGrow
<1>2. P \in [0 .. Len(s) -> Seq(Int)] /\ P[k] = P[k - 1] \o s[k]
  BY Zenon DEF Sums
<1>3. PICK a, b, c \in Seq(Int) : a = P[k - 1] /\ b = s[k] /\ c = P[Len(s)]
  <2>1. k - 1 \in 0 .. Len(s) /\ Len(s) \in 0 .. Len(s) /\ s[k] \in Seq(Int)
    OBVIOUS
  <2>2. P[k - 1] \in Seq(Int) /\ P[Len(s)] \in Seq(Int)
    BY <1>2, <2>1
  <2> QED
    BY <2>1, <2>2, Zenon
<1>4. Len(a \o b) = Len(a) + Len(b) /\ Len(c) \in Nat
  BY ConcatProperties
<1>5. Len(P[k]) <= Len(P[Len(s)])
  BY SumsGrow
<1>6. Len(P[k]) = Len(P[k - 1]) + Len(s[k]) /\ Len(P[Len(s)]) \in Nat
  BY <1>2, <1>3, <1>4, Zenon
<1> QED
  BY <1>1, <1>5, <1>6

LEMMA SumsRead ==
  ASSUME NEW S, NEW s \in Seq(Seq(S)), NEW P, Sums(P, s, S),
         NEW k \in 1 .. Len(s), NEW i \in 1 .. Len(s[k])
  PROVE  P[Len(s)][Len(P[k - 1]) + i] = s[k][i]
<1>1. /\ P[k - 1] \in Seq(S) /\ s[k] \in Seq(S) /\ P[Len(s)] \in Seq(S)
      /\ P[k] = P[k - 1] \o s[k] /\ k \in 0 .. Len(s) /\ Len(s) \in k .. Len(s)
  BY SumsGrow
<1>2. PICK a, b, c \in Seq(S) :
        a = P[k - 1] /\ b = s[k] /\ c = P[Len(s)] /\ P[k] = a \o b
  BY <1>1
<1>3. Len(a \o b) = Len(a) + Len(b) /\ Len(a) \in Nat /\ Len(b) \in Nat /\ Len(c) \in Nat
       /\ \A j \in 1 .. Len(a) + Len(b) : (a \o b)[j] = IF j <= Len(a) THEN a[j] ELSE b[j - Len(a)]
  BY ConcatProperties
<1>4. \A j \in 1 .. Len(a \o b) : c[j] = (a \o b)[j]
  <2>1. ASSUME NEW m \in k .. Len(s) PROVE \A j \in 1 .. Len(P[k]) : P[m][j] = P[k][j]
    <3>1. k \in 0 .. Len(s)
      BY <1>1
    <3> QED
      BY ONLY <2>1, <3>1, s \in Seq(Seq(S)), Sums(P, s, S), SumsExtend, SMTT(30)
  <2>2. \A j \in 1 .. Len(P[k]) : P[Len(s)][j] = P[k][j]
    BY <1>1, <2>1
  <2> QED
    BY <1>2, <2>2
<1>5. i \in 1 .. Len(b)
  BY <1>2
<1>6. Len(a) + i \in 1 .. Len(a) + Len(b) /\ ~(Len(a) + i <= Len(a)) /\ Len(a) + i - Len(a) = i
  BY <1>3, <1>5
<1>7. (a \o b)[Len(a) + i] = b[i]
  BY <1>3, <1>6
<1>8. c[Len(a) + i] = b[i]
  BY <1>3, <1>4, <1>6, <1>7
<1> QED
  BY <1>2, <1>8

LEMMA SumsLetter ==
  ASSUME NEW s \in Seq(Seq(Int)), NEW P, Sums(P, s, Int),
         NEW k \in 1 .. Len(s), NEW i \in 1 .. Len(s[k])
  PROVE  P[Len(s)][Len(P[k - 1]) + i] = s[k][i]
BY SumsRead

LEMMA SumsWithin ==
  ASSUME NEW S, NEW T \in SUBSET S, NEW s \in Seq(Seq(T)), NEW P, Sums(P, s, S),
         NEW k \in 0 .. Len(s)
  PROVE  P[k] \in Seq(T)
<1>0. PICK m : m = Len(s)
  OBVIOUS
<1>1. m \in Nat /\ (\A i \in 1 .. m : s[i] \in Seq(T)) /\ P[0] = <<>>
      /\ \A i \in 1 .. m : P[i] = P[i - 1] \o s[i]
  <2>1. m \in Nat /\ \A i \in 1 .. m : s[i] \in Seq(T)
    BY <1>0
  <2>2. P[0] = <<>> /\ \A i \in 1 .. m : P[i] = P[i - 1] \o s[i]
    BY <1>0, Zenon DEF Sums
  <2> QED
    BY <2>1, <2>2
<1> DEFINE Fails == {l \in 0 .. m : P[l] \notin Seq(T)}
<1>2. SUFFICES ASSUME Fails # {} PROVE FALSE
  BY <1>0
<1>3. Fails \in SUBSET Nat
  BY <1>1
<1>4. PICK l \in Fails : \A i \in Fails : l <= i
  BY <1>2, <1>3, Least
<1>5. l # 0
  <2>1. <<>> \in Seq(T)
    OBVIOUS
  <2>2. l = 0 => P[l] \in Seq(T)
    BY <1>1, <2>1
  <2> QED
    BY <1>4, <2>2
<1>6. l - 1 \in 0 .. m /\ l \in 1 .. m /\ ~(l <= l - 1)
  BY <1>1, <1>4, <1>5
<1>7. P[l - 1] \in Seq(T)
  BY <1>4, <1>6
<1>8. P[l - 1] \o s[l] \in Seq(T)
  BY <1>1, <1>6, <1>7, ConcatProperties
<1> QED
  BY <1>1, <1>4, <1>6, <1>8

\* One letter, backslash or group number of the replacement, and what W has for the rest
Turn(W, i, text, q) ==
  IF i > Len(text) THEN <<Overrun>>
  ELSE IF i = Len(text) THEN <<>>
  ELSE IF text[i + 1] # Backslash THEN <<text[i + 1]>> \o W[i + 1]
  ELSE IF i + 1 < Len(text) /\ text[i + 2] = Backslash THEN <<Backslash>> \o W[i + 2]
  ELSE LET k == Digits(text, i + 1)
           g == Number(text, i + 1, k)
       IN IF k = 0 THEN <<Backslash>> \o W[i + 1]
          ELSE IF g <= 0 \/ g >= NumRegs THEN <<NoSuchGroup>>
          ELSE Letters(Group(q, g).beg, Group(q, g).end) \o W[AfterDigits(i + 1, k)]

\* What ReplaceMatchedPlace defines, from each position of the text on
Writes(W, text, q) ==
  /\ W \in [0 .. Len(text) + 1 -> Seq(Int)]
  /\ \A i \in 0 .. Len(text) + 1 : W[i] = Turn(W, i, text, q)

LEMMA DigitsRead ==
  ASSUME NEW text \in Seq(Int), NEW i \in Nat
  PROVE  /\ Digits(text, i) \in 0 .. MaxColumn
         /\ \A j \in i .. i + Digits(text, i) - 1 : j < Len(text) /\ IsDigit(text[j + 1])
         /\ \/ Digits(text, i) = MaxColumn \/ i + Digits(text, i) >= Len(text)
            \/ ~IsDigit(text[i + Digits(text, i) + 1])
<1> DEFINE Stops(k) == k = MaxColumn \/ i + k >= Len(text) \/ ~IsDigit(text[i + k + 1])
           Candidates == {k \in 0 .. MaxColumn : Stops(k)}
<1>1. MaxColumn \in Nat /\ Len(text) \in Nat
  BY MatchingAssumption
<1>2. MaxColumn \in Candidates /\ Candidates \in SUBSET Nat
  BY <1>1
<1>3. PICK k \in Candidates : \A r \in Candidates : k <= r
  BY <1>2, Least
<1>4. ASSUME NEW j \in i .. i + k - 1 PROVE j < Len(text) /\ IsDigit(text[j + 1])
  <2>1. PICK r : r = j - i
    OBVIOUS
  <2>2. r \in 0 .. MaxColumn /\ ~(k <= r) /\ j = i + r
    BY <1>1, <1>3, <2>1
  <2>3. ~Stops(r)
    BY <1>3, <2>2
  <2> QED
    BY <1>1, <2>2, <2>3
<1>5. k \in 0 .. MaxColumn /\ Stops(k)
  BY <1>3
<1> QED
  BY <1>4, <1>5 DEF Digits

LEMMA AfterDigitsWithin ==
  ASSUME NEW text \in Seq(Int), NEW i \in Nat, i < Len(text), Digits(text, i + 1) # 0
  PROVE  AfterDigits(i + 1, Digits(text, i + 1)) \in i + 2 .. Len(text) + 1
<1>1. PICK k : k = Digits(text, i + 1)
  OBVIOUS
<1>2. k \in 0 .. MaxColumn /\ \A j \in i + 1 .. i + 1 + k - 1 : j < Len(text)
  BY <1>1, DigitsRead
<1>3. k \in Nat /\ k # 0 /\ MaxColumn \in Nat /\ Len(text) \in Nat
  BY <1>1, <1>2, MatchingAssumption
<1>4. i + k < Len(text)
  <2>1. i + k \in i + 1 .. i + 1 + k - 1
    BY <1>3
  <2> QED
    BY <1>2, <2>1
<1>5. AfterDigits(i + 1, k) = i + 1 + k + (IF k = MaxColumn THEN 1 ELSE 0)
  BY ONLY DEF AfterDigits
<1>6. i + 1 + k + (IF k = MaxColumn THEN 1 ELSE 0) \in i + 2 .. Len(text) + 1
  BY ONLY <1>3, <1>4, i \in Nat
<1> QED
  BY ONLY <1>1, <1>5, <1>6

LEMMA TurnDepends ==
  ASSUME NEW text \in Seq(Int), NEW i \in 0 .. Len(text) + 1, NEW q, NEW f, NEW g,
         \A j \in i + 1 .. Len(text) + 1 : f[j] = g[j]
  PROVE  Turn(f, i, text, q) = Turn(g, i, text, q)
<1>1. i \in Nat /\ Len(text) \in Nat
  OBVIOUS
<1>2. i < Len(text) => f[i + 1] = g[i + 1] /\ f[i + 2] = g[i + 2]
  BY <1>1
<1>3. i < Len(text) /\ Digits(text, i + 1) # 0 =>
        f[AfterDigits(i + 1, Digits(text, i + 1))] = g[AfterDigits(i + 1, Digits(text, i + 1))]
  <2>1. SUFFICES ASSUME i < Len(text), Digits(text, i + 1) # 0
                 PROVE  AfterDigits(i + 1, Digits(text, i + 1)) \in i + 1 .. Len(text) + 1
    OBVIOUS
  <2>2. AfterDigits(i + 1, Digits(text, i + 1)) \in i + 2 .. Len(text) + 1
    BY <1>1, <2>1, AfterDigitsWithin
  <2> QED
    BY <1>1, <2>2
<1>4. CASE i < Len(text)
  <2>1. ~(i > Len(text)) /\ i # Len(text)
    BY <1>1, <1>4
  <2> QED
    BY <1>2, <1>3, <1>4, <2>1, Zenon DEF Turn
<1>5. CASE ~(i < Len(text))
  <2>1. i > Len(text) \/ i = Len(text)
    BY <1>1, <1>5
  <2> QED
    BY <2>1, Zenon DEF Turn
<1> QED
  BY <1>4, <1>5

LEMMA LettersAreNumbers ==
  ASSUME NEW from \in Int, NEW end \in Int
  PROVE  /\ Letters(from, end) \in Seq(Int)
         /\ Len(Letters(from, end)) = IF end > from THEN end - from ELSE 0
         /\ \A i \in 1 .. end - from : Letters(from, end)[i] = from + i - 1
<1>0. PICK n : n = IF end > from THEN end - from ELSE 0
  OBVIOUS
<1>1. n \in Nat /\ n = IF end > from THEN end - from ELSE 0
  BY <1>0
<1>2. 1 .. end - from = 1 .. n
  BY <1>1
<1>3. PICK s : s = [i \in 1 .. n |-> from + i - 1]
  OBVIOUS
<1>4. s \in Seq(Int) /\ Len(s) = n
  <2>1. s \in [1 .. n -> Int]
    BY <1>1, <1>3
  <2> QED
    BY <1>1, <2>1
<1>5. Letters(from, end) = s
  BY <1>2, <1>3 DEF Letters
<1> QED
  BY <1>1, <1>2, <1>3, <1>4, <1>5

LEMMA TurnTyped ==
  ASSUME NEW text \in Seq(Int), NEW i \in 0 .. Len(text) + 1, NEW q \in Int, NEW f,
         call.regexp.length[q] \in Int,
         \A j \in i + 1 .. Len(text) + 1 : f[j] \in Seq(Int)
  PROVE  Turn(f, i, text, q) \in Seq(Int)
<1>1. i \in Nat /\ Len(text) \in Nat
  OBVIOUS
<1>2. i < Len(text) => f[i + 1] \in Seq(Int) /\ f[i + 2] \in Seq(Int) /\ text[i + 1] \in Int
  BY <1>1
<1>3. i < Len(text) /\ Digits(text, i + 1) # 0 =>
        f[AfterDigits(i + 1, Digits(text, i + 1))] \in Seq(Int)
  <2>1. SUFFICES ASSUME i < Len(text), Digits(text, i + 1) # 0
                 PROVE  AfterDigits(i + 1, Digits(text, i + 1)) \in i + 1 .. Len(text) + 1
    OBVIOUS
  <2>2. AfterDigits(i + 1, Digits(text, i + 1)) \in i + 2 .. Len(text) + 1
    BY <1>1, <2>1, AfterDigitsWithin
  <2> QED
    BY <1>1, <2>2
<1>4. \A x \in Int : <<x>> \in Seq(Int)
  OBVIOUS
<1>5. \A s, t \in Seq(Int) : s \o t \in Seq(Int)
  BY ConcatProperties
<1>6. Overrun \in Int /\ Backslash \in Int /\ NoSuchGroup \in Int
  BY DEF Overrun, Backslash, NoSuchGroup
<1>7. \A g : Letters(Group(q, g).beg, Group(q, g).end) \in Seq(Int)
  <2>1. \A g : Group(q, g).beg \in Int /\ Group(q, g).end \in Int
    BY DEF Group, Unset
  <2> QED
    BY <2>1, LettersAreNumbers
<1>8. <<>> \in Seq(Int)
  OBVIOUS
<1>9. CASE i < Len(text)
  <2>1. ~(i > Len(text)) /\ i # Len(text)
    BY <1>1, <1>9
  <2>2. <<text[i + 1]>> \o f[i + 1] \in Seq(Int) /\ <<Backslash>> \o f[i + 2] \in Seq(Int)
        /\ <<Backslash>> \o f[i + 1] \in Seq(Int)
    BY <1>2, <1>4, <1>5, <1>6, <1>9
  <2>3. <<NoSuchGroup>> \in Seq(Int)
    BY <1>4, <1>6
  <2>4. Digits(text, i + 1) # 0 =>
          \A g : Letters(Group(q, g).beg, Group(q, g).end)
                   \o f[AfterDigits(i + 1, Digits(text, i + 1))] \in Seq(Int)
    BY <1>3, <1>5, <1>7, <1>9
  <2> QED
    BY <2>1, <2>2, <2>3, <2>4, Zenon DEF Turn
<1>10. CASE ~(i < Len(text))
  <2>1. i > Len(text) \/ i = Len(text)
    BY <1>1, <1>10
  <2>2. <<Overrun>> \in Seq(Int)
    BY <1>4, <1>6
  <2> QED
    BY <1>8, <2>1, <2>2, Zenon DEF Turn
<1> QED
  BY <1>9, <1>10

LEMMA WritesExist ==
  ASSUME NEW text \in Seq(Int), NEW q \in Int, call.regexp.length[q] \in Int
  PROVE  \E W : Writes(W, text, q)
<1>0. PICK n : n = Len(text)
  OBVIOUS
<1>1. n \in Nat
  BY <1>0
<1> DEFINE From(f, j) == /\ f \in [j .. n + 1 -> Seq(Int)]
                         /\ \A i \in j .. n + 1 : f[i] = Turn(f, i, text, q)
           Missing == {d \in 0 .. n + 1 : ~\E f : From(f, n + 1 - d)}
<1>2. Missing = {}
  <2>1. SUFFICES ASSUME Missing # {} PROVE FALSE
    OBVIOUS
  <2>2. Missing \in SUBSET Nat
    BY <1>1
  <2>3. PICK d \in Missing : \A i \in Missing : d <= i
    BY <2>1, <2>2, Least
  <2>4. PICK j : j = n + 1 - d
    OBVIOUS
  <2>5. j \in 0 .. n + 1 /\ d \in 0 .. n + 1
    BY <1>1, <2>3, <2>4
  <2>6. \E f : /\ f \in [j + 1 .. n + 1 -> Seq(Int)]
               /\ \A i \in j + 1 .. n + 1 : f[i] = Turn(f, i, text, q)
    <3>1. CASE d = 0
      <4>1. j + 1 .. n + 1 = {}
        BY <1>1, <2>4, <3>1
      <4>2. PICK f : f = [i \in {} |-> <<>>]
        OBVIOUS
      <4>3. f \in [{} -> Seq(Int)]
        BY <4>2
      <4> QED
        BY <4>1, <4>3
    <3>2. CASE d # 0
      <4>1. d - 1 \in 0 .. n + 1 /\ ~(d <= d - 1) /\ n + 1 - (d - 1) = j + 1
        BY <1>1, <2>4, <2>5, <3>2
      <4>2. ~(d - 1 \in Missing)
        BY <2>3, <4>1
      <4>3. \E f : From(f, n + 1 - (d - 1))
        BY <4>1, <4>2
      <4> QED
        BY <4>1, <4>3
    <3> QED
      BY <3>1, <3>2
  <2>7. PICK f : /\ f \in [j + 1 .. n + 1 -> Seq(Int)]
                 /\ \A i \in j + 1 .. n + 1 : f[i] = Turn(f, i, text, q)
    BY <2>6
  <2>8. Turn(f, j, text, q) \in Seq(Int)
    BY <1>0, <2>5, <2>7, TurnTyped
  <2>9. PICK h : h = [i \in j .. n + 1 |-> IF i = j THEN Turn(f, j, text, q) ELSE f[i]]
    OBVIOUS
  <2>10. \A i \in j .. n + 1 : i # j => i \in j + 1 .. n + 1
    BY <1>1, <2>5
  <2>11. \A i \in j + 1 .. n + 1 : h[i] = f[i]
    <3>1. \A i \in j + 1 .. n + 1 : i # j /\ i \in j .. n + 1
      BY <1>1, <2>5
    <3> QED
      BY <2>9, <3>1
  <2>12. h \in [j .. n + 1 -> Seq(Int)]
    BY <2>7, <2>8, <2>9, <2>10
  <2>13. ASSUME NEW i \in j .. n + 1 PROVE h[i] = Turn(h, i, text, q)
    <3>1. \A r \in i + 1 .. n + 1 : h[r] = f[r]
      <4>1. \A r \in i + 1 .. n + 1 : r \in j + 1 .. n + 1
        BY <1>1, <2>5
      <4> QED
        BY <2>11, <4>1
    <3>2. i \in 0 .. n + 1
      BY <1>1, <2>5
    <3>3. Turn(h, i, text, q) = Turn(f, i, text, q)
      BY <1>0, <3>1, <3>2, TurnDepends
    <3>4. CASE i = j
      BY <2>9, <3>3, <3>4
    <3>5. CASE i # j
      BY <2>7, <2>10, <2>11, <3>3, <3>5
    <3> QED
      BY <3>4, <3>5
  <2>14. From(h, n + 1 - d)
    BY <2>4, <2>12, <2>13
  <2> QED
    BY <2>3, <2>14
<1>3. \E f : From(f, n + 1 - (n + 1))
  <2>1. n + 1 \in 0 .. n + 1
    BY <1>1
  <2>2. ~(n + 1 \in Missing)
    BY <1>2
  <2> QED
    BY <2>1, <2>2
<1>4. n + 1 - (n + 1) = 0
  BY <1>1
<1>5. \E f : From(f, 0)
  BY <1>3, <1>4
<1> QED
  BY <1>0, <1>5 DEF Writes

\* What ReplaceMatchedPlace gives is what such a W gives at the beginning.
LEMMA PlaceWrites ==
  ASSUME NEW q \in Int, Text(call.tokens) \in Seq(Int), call.regexp.length[q] \in Int
  PROVE  \E W : Writes(W, Text(call.tokens), q) /\ ReplaceMatchedPlace(q) = W[0]
<1>0. PICK text : text = Text(call.tokens)
  OBVIOUS
<1>1. text \in Seq(Int) /\ Len(text) \in Nat
  BY <1>0
<1>2. PICK W : Writes(W, text, q)
  BY <1>0, <1>1, WritesExist
<1> DEFINE V == CHOOSE U : U = [i \in 0 .. Len(text) + 1 |-> Turn(U, i, text, q)]
<1>3. ReplaceMatchedPlace(q) = V[0]
  BY <1>0 DEF ReplaceMatchedPlace, Turn
<1>4. V = [i \in 0 .. Len(text) + 1 |-> Turn(V, i, text, q)]
  <2>1. W = [i \in 0 .. Len(text) + 1 |-> Turn(W, i, text, q)]
    BY <1>2 DEF Writes
  <2> QED
    BY <2>1
<1> HIDE DEF V
<1>5. V = W
  <2>1. PICK n \in Nat : n = Len(text)
    BY <1>1
  <2> DEFINE Differ == {d \in 0 .. n + 1 : V[n + 1 - d] # W[n + 1 - d]}
  <2>2. Differ = {}
    <3>1. SUFFICES ASSUME Differ # {} PROVE FALSE
      OBVIOUS
    <3>2. Differ \in SUBSET Nat
      OBVIOUS
    <3>3. PICK d \in Differ : \A i \in Differ : d <= i
      BY <3>1, <3>2, Least
    <3>4. PICK j : j = n + 1 - d
      OBVIOUS
    <3>5. j \in 0 .. n + 1 /\ V[j] # W[j]
      BY <3>3, <3>4
    <3>6. ASSUME NEW r \in j + 1 .. n + 1 PROVE V[r] = W[r]
      <4>1. n + 1 - r \in 0 .. n + 1 /\ ~(d <= n + 1 - r) /\ n + 1 - (n + 1 - r) = r
        BY <3>3, <3>4
      <4>2. ~(n + 1 - r \in Differ)
        BY <3>3, <4>1
      <4> QED
        BY <4>1, <4>2
    <3>7. Turn(V, j, text, q) = Turn(W, j, text, q)
      BY <1>1, <2>1, <3>5, <3>6, TurnDepends
    <3>8. V[j] = Turn(V, j, text, q) /\ W[j] = Turn(W, j, text, q)
      BY <1>2, <1>4, <2>1, <3>5 DEF Writes
    <3> QED
      BY <3>5, <3>7, <3>8
  <2>3. ASSUME NEW i \in 0 .. n + 1 PROVE V[i] = W[i]
    <3>1. n + 1 - i \in 0 .. n + 1 /\ n + 1 - (n + 1 - i) = i
      OBVIOUS
    <3>2. ~(n + 1 - i \in Differ)
      BY <2>2
    <3> QED
      BY <3>1, <3>2
  <2>4. V = [i \in 0 .. n + 1 |-> V[i]]
    BY <1>4, <2>1
  <2>5. W = [i \in 0 .. n + 1 |-> W[i]]
    BY <1>2, <2>1 DEF Writes
  <2> QED
    BY <2>3, <2>4, <2>5
<1> QED
  BY <1>0, <1>2, <1>3, <1>5

-----------------------------------------------------------------------------
LEMMA CharactersTyped ==
  ASSUME NEW t \in Tokens
  PROVE  Characters(t) \in Seq(Int)
<1> USE DEF Letter, Backslash, Digit
<1>1. CASE t = "wide"
  <2>1. MaxColumn \in Nat
    BY MatchingAssumption
  <2>2. PICK s : s = [i \in 1 .. MaxColumn |-> Digit(IF i = MaxColumn THEN 1 ELSE 0)]
    OBVIOUS
  <2>3. s \in [1 .. MaxColumn -> Int]
    BY <2>2
  <2>4. s \in Seq(Int)
    BY <2>1, <2>3
  <2>5. <<Backslash>> \in Seq(Int)
    OBVIOUS
  <2>6. <<Backslash>> \o s \in Seq(Int)
    BY <2>4, <2>5, ConcatProperties
  <2>7. Characters(t) = <<Backslash>> \o s
    BY <1>1, <2>2 DEF Characters
  <2> QED
    BY <2>6, <2>7
<1>2. CASE t # "wide"
  BY <1>2 DEF Characters, Tokens
<1> QED
  BY <1>1, <1>2

LEMMA Regrouped == \A a, b, c \in Seq(Int) : (a \o b) \o c = a \o (b \o c)
<1>1. TAKE a, b, c \in Seq(Int)
<1> QED
  BY ConcatAssociative, SMTT(30)

LEMMA TwoLetters == \A a, b \in Int : <<a>> \o <<b>> = <<a, b>>
<1>1. TAKE a, b \in Int
<1>2. PICK s, t, u \in Seq(Int) : s = <<a>> /\ t = <<b>> /\ u = <<a, b>>
  <2>1. <<a>> \in Seq(Int) /\ <<b>> \in Seq(Int) /\ <<a, b>> \in Seq(Int)
    OBVIOUS
  <2> QED
    BY <2>1
<1>3. Len(s) = 1 /\ Len(t) = 1 /\ Len(u) = 2 /\ s[1] = a /\ t[1] = b /\ u[1] = a /\ u[2] = b
  BY <1>2
<1>4. s \o t \in Seq(Int) /\ Len(s \o t) = 2
      /\ \A i \in 1 .. 2 : (s \o t)[i] = IF i <= 1 THEN s[i] ELSE t[i - 1]
  <2>1. s \o t \in Seq(Int) /\ Len(s \o t) = Len(s) + Len(t)
        /\ \A i \in 1 .. Len(s) + Len(t) :
             (s \o t)[i] = IF i <= Len(s) THEN s[i] ELSE t[i - Len(s)]
    BY ConcatProperties
  <2> QED
    BY <1>3, <2>1
<1>5. \A i \in 1 .. 2 : (s \o t)[i] = u[i]
  <2>1. (s \o t)[1] = u[1] /\ (s \o t)[2] = u[2]
    BY <1>3, <1>4
  <2>2. \A i \in 1 .. 2 : i = 1 \/ i = 2
    OBVIOUS
  <2> QED
    BY <2>1, <2>2
<1>6. s \o t = u
  BY <1>3, <1>4, <1>5, SeqEqual
<1> QED
  BY <1>2, <1>6

\* One token: what it means, or that it names no group
LEMMA TokenWritten ==
  ASSUME NEW text \in Seq(Int), NEW W, NEW q \in Int, Writes(W, text, q), Length(q) \in Nat,
         call.regexp.group \in {"none", "unset", "whole"},
         NEW o \in Nat, NEW t \in Tokens, t # "wide", o + Len(Characters(t)) <= Len(text),
         \A i \in 1 .. Len(Characters(t)) : text[o + i] = Characters(t)[i],
         t \in {"group", "zero"} => o + 2 = Len(text) \/ ~IsDigit(text[o + 3])
  PROVE  /\ NamesNoGroup(t) => W[o] = <<NoSuchGroup>>
         /\ ~NamesNoGroup(t) => W[o] = Meaning(t, q) \o W[o + Len(Characters(t))]
<1>0. PICK n \in Nat : n = Len(text)
  OBVIOUS
<1>1. W \in [0 .. n + 1 -> Seq(Int)] /\ \A i \in 0 .. n + 1 : W[i] = Turn(W, i, text, q)
  BY <1>0 DEF Writes
<1>2. /\ t = "letter" => Characters(t) = <<-1>>
      /\ t = "escaped" => Characters(t) = <<-2, -2>>
      /\ t = "lone" => Characters(t) = <<-2, -1>>
      /\ t = "group" => Characters(t) = <<-2, 11>>
      /\ t = "zero" => Characters(t) = <<-2, 10>>
  <2>1. Letter = -1 /\ Backslash = -2 /\ Digit(1) = 11 /\ Digit(0) = 10
    BY DEF Letter, Backslash, Digit
  <2>2. t = "letter" => Characters(t) = <<Letter>>
    BY DEF Characters
  <2>3. t = "escaped" => Characters(t) = <<Backslash, Backslash>>
    BY DEF Characters
  <2>4. t = "lone" => Characters(t) = <<Backslash, Letter>>
    BY DEF Characters
  <2>5. t = "group" => Characters(t) = <<Backslash, Digit(1)>>
    BY DEF Characters
  <2>6. t = "zero" => Characters(t) = <<Backslash, Digit(0)>>
    BY DEF Characters
  <2> QED
    BY <2>1, <2>2, <2>3, <2>4, <2>5, <2>6
<1>3. ASSUME NEW i \in Nat, i < n, text[i + 1] # -2
      PROVE  W[i] = <<text[i + 1]>> \o W[i + 1]
  <2>1. i \in 0 .. n + 1 /\ ~(i > n) /\ i # n
    BY <1>3, SMTT(30)
  <2> QED
    BY <1>0, <1>1, <1>3, <2>1 DEF Turn, Backslash
<1>4. CASE t = "letter"
  <2>1. Len(Characters(t)) = 1 /\ Characters(t)[1] = -1 /\ 1 \in 1 .. 1
    BY <1>2, <1>4
  <2>2. text[o + 1] = -1 /\ o < n
    BY <1>0, <2>1
  <2>3. W[o] = <<-1>> \o W[o + 1]
    <3>1. o \in Nat /\ o < n /\ text[o + 1] # -2
      BY ONLY <2>2, o \in Nat
    <3>2. W[o] = <<text[o + 1]>> \o W[o + 1]
      BY ONLY <1>3, <3>1
    <3> QED
      BY ONLY <2>2, <3>2
  <2>4. ~NamesNoGroup(t) /\ Meaning(t, q) = <<-1>>
    BY <1>4 DEF NamesNoGroup, Meaning, Letter
  <2> QED
    BY <2>1, <2>3, <2>4
<1>5. ASSUME t # "letter"
      PROVE  /\ Len(Characters(t)) = 2 /\ o + 2 <= n /\ text[o + 1] = -2
             /\ text[o + 2] = Characters(t)[2] /\ ~(o > n) /\ o # n /\ o \in 0 .. n + 1
             /\ o + 1 < n /\ o + 1 \in Nat
  <2>1. Len(Characters(t)) = 2 /\ Characters(t)[1] = -2
    BY <1>2, <1>5 DEF Tokens
  <2>2. 1 \in 1 .. 2 /\ 2 \in 1 .. 2
    OBVIOUS
  <2>3. \A i \in 1 .. 2 : text[o + i] = Characters(t)[i]
    BY <2>1
  <2>4. text[o + 1] = -2 /\ text[o + 2] = Characters(t)[2]
    BY ONLY <2>1, <2>2, <2>3
  <2>5. o \in Nat /\ n \in Nat /\ o + 2 <= n
    BY <1>0, <2>1
  <2> QED
    BY ONLY <2>1, <2>4, <2>5
<1>6. CASE t = "escaped"
  <2>1. text[o + 2] = -2 /\ W[o] = Turn(W, o, text, q)
    BY <1>1, <1>2, <1>5, <1>6, SMTT(30)
  <2>2. W[o] = <<-2>> \o W[o + 2]
    BY <1>0, <1>5, <1>6, <2>1 DEF Turn, Backslash
  <2>3. ~NamesNoGroup(t) /\ Meaning(t, q) = <<-2>>
    BY <1>6 DEF NamesNoGroup, Meaning, Backslash
  <2> QED
    BY <1>5, <1>6, <2>2, <2>3
<1>7. PICK k : k = Digits(text, o + 1)
  OBVIOUS
<1>8. ASSUME t # "letter"
      PROVE  /\ k \in 0 .. MaxColumn
             /\ \A j \in o + 1 .. o + 1 + k - 1 : j < n /\ IsDigit(text[j + 1])
             /\ k = MaxColumn \/ o + 1 + k >= n \/ ~IsDigit(text[o + 1 + k + 1])
  BY <1>0, <1>5, <1>7, <1>8, DigitsRead
<1>9. MaxColumn \in Nat /\ MaxColumn >= 2
  BY MatchingAssumption
<1>10. CASE t = "lone"
  <2>1. text[o + 2] = -1 /\ ~IsDigit(text[o + 2]) /\ text[o + 2] # -2
    BY <1>2, <1>5, <1>10, SMTT(30) DEF IsDigit, Digit
  <2>2. k = 0
    <3>1. ASSUME k # 0 PROVE FALSE
      <4>1. o + 1 \in o + 1 .. o + 1 + k - 1 /\ o + 1 + 1 = o + 2
        BY <1>8, <1>9, <1>10, <3>1
      <4>2. IsDigit(text[o + 1 + 1])
        BY <1>8, <1>10, <4>1
      <4> QED
        BY <2>1, <4>1, <4>2
    <3> QED
      BY <3>1
  <2>3. W[o] = <<-2>> \o W[o + 1]
    <3>1. W[o] = Turn(W, o, text, q)
      BY <1>1, <1>5, <1>10
    <3> QED
      BY <1>0, <1>5, <1>7, <1>10, <2>1, <2>2, <3>1 DEF Turn, Backslash
  <2>4. W[o + 1] = <<-1>> \o W[o + 2]
    <3>1. text[o + 1 + 1] = -1 /\ o + 1 + 1 = o + 2
      BY <2>1
    <3>2. o + 1 \in Nat /\ o + 1 < n /\ text[o + 1 + 1] # -2
      BY <1>5, <1>10, <3>1
    <3>3. W[o + 1] = <<text[o + 1 + 1]>> \o W[o + 1 + 1]
      BY <1>3, <3>2
    <3> QED
      BY <3>1, <3>3
  <2>5. W[o + 2] \in Seq(Int)
    BY <1>1, <1>5, <1>10
  <2>6. W[o] = <<-2, -1>> \o W[o + 2]
    <3>1. \A s \in Seq(Int) : <<-2>> \o (<<-1>> \o s) = <<-2, -1>> \o s
      <4>1. TAKE s \in Seq(Int)
      <4>2. <<-2>> \in Seq(Int) /\ <<-1>> \in Seq(Int)
        OBVIOUS
      <4>3. (<<-2>> \o <<-1>>) \o s = <<-2>> \o (<<-1>> \o s)
        BY ONLY <4>2, s \in Seq(Int), ConcatAssociative
      <4>4. <<-2>> \o <<-1>> = <<-2, -1>>
        BY TwoLetters
      <4> QED
        BY <4>3, <4>4
    <3> QED
      BY <2>3, <2>4, <2>5, <3>1
  <2>7. ~NamesNoGroup(t) /\ Meaning(t, q) = <<-2, -1>>
    BY <1>10 DEF NamesNoGroup, Meaning, Backslash, Letter
  <2> QED
    BY <1>5, <1>10, <2>6, <2>7
<1>11. CASE t \in {"group", "zero"}
  <2>1. text[o + 2] = (IF t = "group" THEN 11 ELSE 10)
    BY <1>2, <1>5, <1>11
  <2>2. IsDigit(text[o + 2]) /\ text[o + 2] # -2
    BY <2>1 DEF IsDigit, Digit
  <2>3. k = 1
    <3>1. ASSUME k = 0 PROVE FALSE
      BY <1>5, <1>8, <1>9, <1>11, <2>2, <3>1
    <3>2. ASSUME k # 0, k # 1 PROVE FALSE
      <4>1. o + 2 \in o + 1 .. o + 1 + k - 1
        <5>1. k \in Nat
          BY <1>8, <1>9, <1>11
        <5> QED
          BY <3>2, <5>1
      <4>2. o + 2 < n /\ IsDigit(text[o + 2 + 1])
        BY <1>8, <1>11, <4>1
      <4>3. o + 2 + 1 = o + 3 /\ o + 2 # Len(text)
        BY <1>0, <4>2
      <4> QED
        BY <1>11, <4>2, <4>3
    <3> QED
      BY <3>1, <3>2
  <2>4. PICK g : g = Number(text, o + 1, k)
    OBVIOUS
  <2>5. g = IF t = "group" THEN 1 ELSE 0
    <3> DEFINE V == CHOOSE U : U = [j \in 0 .. 1 |->
          IF j = 0 THEN 0 ELSE 10 * U[j - 1] + text[o + 1 + j] - 10]
               Z == [j \in 0 .. 1 |-> IF j = 0 THEN 0 ELSE 10 * 0 + text[o + 1 + j] - 10]
    <3>1. g = V[1]
      BY <2>3, <2>4 DEF Number, Digit
    <3>2. Z = [j \in 0 .. 1 |-> IF j = 0 THEN 0 ELSE 10 * Z[j - 1] + text[o + 1 + j] - 10]
      <4>1. Z[0] = 0
        OBVIOUS
      <4>2. \A j \in 0 .. 1 : j # 0 => j - 1 = 0
        OBVIOUS
      <4> QED
        BY <4>1, <4>2
    <3>3. V = [j \in 0 .. 1 |-> IF j = 0 THEN 0 ELSE 10 * V[j - 1] + text[o + 1 + j] - 10]
      BY <3>2
    <3> HIDE DEF V, Z
    <3>4. V[0] = 0
      BY <3>3
    <3>5. V[1] = 10 * V[0] + text[o + 1 + 1] - 10
      BY <3>3
    <3>6. o + 1 + 1 = o + 2
      OBVIOUS
    <3> QED
      BY <2>1, <3>1, <3>4, <3>5, <3>6
  <2>6. W[o] = Turn(W, o, text, q)
    BY <1>1, <1>5, <1>11
  <2>7. AfterDigits(o + 1, k) = o + 2
    BY <1>9, <2>3 DEF AfterDigits
  <2>8. W[o] = IF g <= 0 \/ g >= NumRegs THEN <<NoSuchGroup>>
               ELSE Letters(Group(q, g).beg, Group(q, g).end) \o W[o + 2]
    BY <1>0, <1>5, <1>7, <1>11, <2>2, <2>3, <2>4, <2>6, <2>7 DEF Turn, Backslash
  <2>9. CASE NamesNoGroup(t)
    <3>1. g <= 0 \/ g >= NumRegs
      BY <2>5, <2>9 DEF NamesNoGroup, NumRegs
    <3> QED
      BY <2>8, <2>9, <3>1
  <2>10. CASE ~NamesNoGroup(t)
    <3>1. t = "group" /\ g = 1 /\ NumRegs = 2
      BY <1>11, <2>5, <2>10 DEF NamesNoGroup, NumRegs
    <3>2. Letters(Group(q, g).beg, Group(q, g).end) = Meaning(t, q)
      <4>1. CASE call.regexp.group = "unset"
        <5>1. Group(q, g).beg = -1 /\ Group(q, g).end = -1
          BY <3>1, <4>1 DEF Group, Unset
        <5>2. Letters(-1, -1) = <<>>
          <6>1. -1 \in Int /\ ~(-1 > -1)
            OBVIOUS
          <6>2. Letters(-1, -1) \in Seq(Int) /\ Len(Letters(-1, -1)) = 0
            BY <6>1, LettersAreNumbers
          <6> QED
            BY <6>2, EmptySeq
        <5>3. Meaning(t, q) = <<>>
          BY <3>1, <4>1 DEF Meaning
        <5> QED
          BY <5>1, <5>2, <5>3
      <4>2. CASE call.regexp.group = "whole"
        <5>1. Group(q, g).beg = q /\ Group(q, g).end = q + Length(q)
          BY <3>1, <4>2 DEF Group, Length
        <5>2. Meaning(t, q) = Letters(q, q + Length(q))
          BY <3>1, <4>2 DEF Meaning
        <5> QED
          BY <5>1, <5>2
      <4>3. call.regexp.group # "none"
        BY <2>10, <3>1 DEF NamesNoGroup
      <4> QED
        BY <4>1, <4>2, <4>3
    <3>3. W[o] = Letters(Group(q, g).beg, Group(q, g).end) \o W[o + 2]
      BY <2>8, <3>1
    <3> QED
      BY <1>5, <2>10, <3>1, <3>2, <3>3
  <2> QED
    BY <2>9, <2>10
<1> QED
  BY <1>4, <1>6, <1>10, <1>11 DEF Tokens

\* What a replacement can put into the text: letters of the subject, a letter, a backslash
Plain == Nat \union {Letter, Backslash}

\* What a token means, and nothing for one that names no group
Gloss(t, p) == IF NamesNoGroup(t) THEN <<>> ELSE Meaning(t, p)

LEMMA CallOfReplace ==
  ASSUME call \in Calls, call.kind = "replace"
  PROVE  /\ call.n \in 0 .. MaxSubject /\ call.regexp \in Regexps(call.n)
         /\ call.tokens \in Seq(Tokens) /\ call.limit \in {1, MatchLimit}
         /\ call.regexp.group \in {"none", "unset", "whole"}
<1>1. PICK n \in 0 .. MaxSubject :
        call \in [kind : {"match"}, n : {n}, regexp : Regexps(n), region : BOOLEAN]
                   \union [kind : {"replace"}, n : {n}, regexp : Regexps(n),
                           tokens : Replacements, limit : {1, MatchLimit}]
                   \union [kind : {"split"}, n : {n}, regexp : Regexps(n)]
  BY DEF Calls
<1>2. call \in [kind : {"replace"}, n : {n}, regexp : Regexps(n),
                tokens : Replacements, limit : {1, MatchLimit}]
  BY <1>1
<1>3. call.n = n /\ call.regexp \in Regexps(n) /\ call.tokens \in Replacements
      /\ call.limit \in {1, MatchLimit}
  BY <1>2
<1>4. PICK k \in 0 .. MaxTokens : call.tokens \in [1 .. k -> Tokens]
  BY <1>3 DEF Replacements
<1>5. k \in Nat
  BY MatchingAssumption
<1>6. call.tokens \in Seq(Tokens)
  BY <1>4, <1>5
<1>7. call.regexp.group \in {"none", "unset", "whole"}
  BY <1>3 DEF Regexps
<1> QED
  BY <1>3, <1>6, <1>7

LEMMA GlossTyped ==
  ASSUME NEW t \in Tokens, t # "wide", NEW p \in Nat, Length(p) \in Nat,
         call.regexp.group \in {"none", "unset", "whole"}
  PROVE  Gloss(t, p) \in Seq(Plain)
<1>1. Letter \in Plain /\ Backslash \in Plain
  BY DEF Plain
<1>2. <<>> \in Seq(Plain) /\ <<Letter>> \in Seq(Plain) /\ <<Backslash>> \in Seq(Plain)
      /\ <<Backslash, Letter>> \in Seq(Plain)
  BY <1>1
<1>3. Letters(p, p + Length(p)) \in Seq(Plain)
  <2>1. PICK s : s = Letters(p, p + Length(p))
    OBVIOUS
  <2>2. s \in Seq(Int) /\ Len(s) = Length(p) /\ \A i \in 1 .. Length(p) : s[i] = p + i - 1
    <3>1. PICK e \in Int : e = p + Length(p)
      OBVIOUS
    <3>2. /\ Letters(p, e) \in Seq(Int)
          /\ Len(Letters(p, e)) = IF e > p THEN e - p ELSE 0
          /\ \A i \in 1 .. e - p : Letters(p, e)[i] = p + i - 1
      <4>1. p \in Int /\ e \in Int
        BY <3>1
      <4> QED
        BY ONLY <4>1, LettersAreNumbers
    <3>3. e - p = Length(p) /\ (IF e > p THEN e - p ELSE 0) = Length(p)
      BY <3>1
    <3> QED
      BY <2>1, <3>1, <3>2, <3>3
  <2>3. \A i \in 1 .. Len(s) : s[i] \in Plain
    BY <2>2 DEF Plain
  <2>4. s \in [1 .. Len(s) -> Plain] /\ Len(s) \in Nat
    BY <2>2, <2>3
  <2> QED
    BY <2>1, <2>4
<1>4. /\ t = "letter" => ~NamesNoGroup(t) /\ Meaning(t, p) = <<Letter>>
      /\ t = "escaped" => ~NamesNoGroup(t) /\ Meaning(t, p) = <<Backslash>>
      /\ t = "lone" => ~NamesNoGroup(t) /\ Meaning(t, p) = <<Backslash, Letter>>
      /\ t = "group" => Meaning(t, p) = IF call.regexp.group = "whole"
                                        THEN Letters(p, p + Length(p)) ELSE <<>>
      /\ t = "zero" => NamesNoGroup(t)
  BY DEF NamesNoGroup, Meaning
<1> QED
  BY <1>2, <1>3, <1>4 DEF Gloss, Tokens

\* The characters of tokens, none of which is longer than a group number may be
Spells(s, marks) ==
  /\ marks \in Seq(Tokens) /\ \A i \in 1 .. Len(marks) : marks[i] # "wide"
  /\ s \in Seq(Seq(Int)) /\ Len(s) = Len(marks)
  /\ \A i \in 1 .. Len(marks) : s[i] = Characters(marks[i])

\* A token is read as what it means, or as a number that no group has.
TokenFollows(t, q, here, after) ==
  /\ NamesNoGroup(t) => here = <<NoSuchGroup>>
  /\ ~NamesNoGroup(t) => here = Meaning(t, q) \o after

\* The token that begins at an offset of the text is read as itself, whatever follows it.
LEMMA TokenRead ==
  ASSUME NEW marks, NEW s, Spells(s, marks), NEW P, Sums(P, s, Int),
         NEW text, text = P[Len(s)], NEW W, NEW q \in Int, Writes(W, text, q), Length(q) \in Nat,
         call.regexp.group \in {"none", "unset", "whole"}, NEW k \in 1 .. Len(marks)
  PROVE  /\ TokenFollows(marks[k], q, W[Len(P[k - 1])], W[Len(P[k])])
         /\ Len(P[k - 1]) \in 0 .. Len(text) /\ Len(P[k]) \in 0 .. Len(text)
<1>0. PICK m : m = Len(marks)
  OBVIOUS
<1>1. m \in Nat /\ k \in 1 .. m /\ \A i \in 1 .. m : marks[i] \in Tokens /\ marks[i] # "wide"
  BY <1>0 DEF Spells
<1>2. s \in Seq(Seq(Int)) /\ Len(s) = m /\ \A i \in 1 .. m : s[i] = Characters(marks[i])
  BY <1>0 DEF Spells
<1>3. text \in Seq(Int)
  BY <1>1, <1>2 DEF Sums
<1>4. ASSUME NEW i \in 1 .. m
      PROVE  /\ Len(P[i - 1]) \in Nat /\ Len(P[i]) = Len(P[i - 1]) + Len(s[i])
             /\ Len(P[i]) <= Len(text) /\ Len(text) \in Nat
             /\ \A j \in 1 .. Len(s[i]) : text[Len(P[i - 1]) + j] = s[i][j]
  <2>0. s \in Seq(Seq(Int)) /\ Sums(P, s, Int)
    BY <1>2
  <2>1. i \in 1 .. Len(s)
    BY <1>2
  <2>2. /\ Len(P[i - 1]) \in Nat /\ Len(P[i]) = Len(P[i - 1]) + Len(s[i])
        /\ Len(P[i]) <= Len(text) /\ Len(text) \in Nat
    <3>1. /\ Len(P[i - 1]) \in Nat /\ Len(P[i]) = Len(P[i - 1]) + Len(s[i])
          /\ Len(P[i]) <= Len(P[Len(s)]) /\ Len(P[Len(s)]) \in Nat
      BY <2>0, <2>1, SumsLengths
    <3> QED
      BY <3>1
  <2>3. ASSUME NEW j \in 1 .. Len(s[i]) PROVE text[Len(P[i - 1]) + j] = s[i][j]
    <3>1. P[Len(s)][Len(P[i - 1]) + j] = s[i][j]
      BY <2>0, <2>1, SumsLetter
    <3> QED
      BY <3>1
  <2> QED
    BY <2>2, <2>3
<1>5. ASSUME NEW i \in 1 .. m
      PROVE  /\ Len(s[i]) \in {1, 2} /\ s[i][1] \in {-1, -2}
             /\ marks[i] \in {"group", "zero"} => Len(s[i]) = 2
  BY <1>1, <1>2, SMTT(30) DEF Tokens, Characters, Letter, Backslash
<1>6. PICK o, t : o = Len(P[k - 1]) /\ t = marks[k]
  OBVIOUS
<1>7. /\ o \in Nat /\ t \in Tokens /\ t # "wide" /\ s[k] = Characters(t)
      /\ Len(P[k]) = o + Len(s[k]) /\ o + Len(s[k]) <= Len(text) /\ Len(text) \in Nat
      /\ \A j \in 1 .. Len(s[k]) : text[o + j] = s[k][j]
  BY <1>1, <1>2, <1>4, <1>6
<1>8. t \in {"group", "zero"} => o + 2 = Len(text) \/ ~IsDigit(text[o + 3])
  <2>1. SUFFICES ASSUME t \in {"group", "zero"} PROVE o + 2 = Len(text) \/ ~IsDigit(text[o + 3])
    OBVIOUS
  <2>2. Len(P[k]) = o + 2
    BY <1>1, <1>5, <1>6, <1>7, <2>1
  <2>3. CASE k = m
    BY <1>2, <2>2, <2>3
  <2>4. CASE k # m
    <3>1. k + 1 \in 1 .. m /\ k + 1 - 1 = k /\ k \in Nat
      BY <1>1, <2>4
    <3>2. 1 \in 1 .. Len(s[k + 1]) /\ s[k + 1][1] \in {-1, -2}
      <4>1. Len(s[k + 1]) \in {1, 2} /\ s[k + 1][1] \in {-1, -2}
        BY <1>5, <3>1
      <4> QED
        BY <4>1
    <3>3. text[Len(P[k]) + 1] = s[k + 1][1]
      <4>1. PICK r : r = k + 1
        OBVIOUS
      <4>2. r \in 1 .. m /\ r - 1 = k /\ 1 \in 1 .. Len(s[r])
        BY <3>1, <3>2, <4>1
      <4>3. text[Len(P[r - 1]) + 1] = s[r][1]
        BY <1>4, <4>2
      <4> QED
        BY <4>1, <4>2, <4>3
    <3>4. text[o + 3] \in {-1, -2}
      <4>1. Len(P[k]) + 1 = o + 3
        BY <1>7, <2>2
      <4> QED
        BY <3>2, <3>3, <4>1
    <3> QED
      BY <3>4, SMTT(30) DEF IsDigit, Digit
  <2> QED
    BY <2>3, <2>4
<1>9. /\ NamesNoGroup(t) => W[o] = <<NoSuchGroup>>
      /\ ~NamesNoGroup(t) => W[o] = Meaning(t, q) \o W[o + Len(s[k])]
  <2>1. o + Len(Characters(t)) <= Len(text)
        /\ \A i \in 1 .. Len(Characters(t)) : text[o + i] = Characters(t)[i]
    BY <1>7
  <2>2. /\ NamesNoGroup(t) => W[o] = <<NoSuchGroup>>
        /\ ~NamesNoGroup(t) => W[o] = Meaning(t, q) \o W[o + Len(Characters(t))]
    <3>1. /\ Writes(W, text, q) /\ q \in Int /\ Length(q) \in Nat
          /\ call.regexp.group \in {"none", "unset", "whole"}
      OBVIOUS
    <3>2. o \in Nat /\ t \in Tokens /\ t # "wide"
      BY <1>7
    <3> QED
      BY ONLY <1>3, <1>8, <2>1, <3>1, <3>2, TokenWritten
  <2> QED
    BY <1>7, <2>2
<1>10. Len(s[k]) \in Nat
  BY <1>1, <1>5
<1>11. o \in 0 .. Len(text) /\ o + Len(s[k]) \in 0 .. Len(text)
  BY <1>7, <1>10
<1> QED
  BY <1>6, <1>7, <1>9, <1>11 DEF TokenFollows

\* A match is replaced by what the tokens mean, up to the first that names no group.
LEMMA PlaceReplaced ==
  ASSUME call \in Calls, call.kind = "replace",
         \A i \in DOMAIN call.tokens : call.tokens[i] # "wide",
         NEW q \in Nat, Length(q) \in Nat
  PROVE  /\ ReplaceMatchedPlace(q) \in Seq(Int)
         /\ (\E i \in DOMAIN call.tokens : NamesNoGroup(call.tokens[i])) =>
              ReplaceMatchedPlace(q) # <<>> /\ Last(ReplaceMatchedPlace(q)) = NoSuchGroup
         /\ (\A i \in DOMAIN call.tokens : ~NamesNoGroup(call.tokens[i])) =>
              /\ ReplaceMatchedPlace(q)
                   = FlattenSeq([i \in DOMAIN call.tokens |-> Meaning(call.tokens[i], q)])
              /\ ReplaceMatchedPlace(q) \in Seq(Plain)
<1>00. PICK marks : marks = call.tokens
  OBVIOUS
<1>0. PICK m : m = Len(marks)
  OBVIOUS
<1>1. marks \in Seq(Tokens) /\ call.regexp.group \in {"none", "unset", "whole"}
      /\ \A i \in DOMAIN marks : marks[i] # "wide"
  BY <1>00, CallOfReplace
<1>2. m \in Nat /\ DOMAIN marks = 1 .. m /\ \A i \in 1 .. m : marks[i] \in Tokens
  BY <1>0, <1>1
<1>3. PICK s : s = [i \in DOMAIN marks |-> Characters(marks[i])]
  OBVIOUS
<1>4. s \in Seq(Seq(Int)) /\ Len(s) = m
  <2>1. \A i \in 1 .. m : Characters(marks[i]) \in Seq(Int)
    BY <1>2, CharactersTyped
  <2>2. s \in [1 .. m -> Seq(Int)]
    BY <1>2, <1>3, <2>1
  <2> QED
    BY <1>2, <2>2
<1>5. PICK P : Sums(P, s, Int) /\ FlattenSeq(s) = P[m]
  BY <1>4, Flattened
<1>6. PICK text : text = Text(marks)
  OBVIOUS
<1>7. text = P[m] /\ text \in Seq(Int)
  <2>1. text = P[m]
    BY <1>3, <1>5, <1>6 DEF Text
  <2> QED
    BY <1>2, <1>4, <1>5, <2>1 DEF Sums
<1>8. PICK W : Writes(W, text, q) /\ ReplaceMatchedPlace(q) = W[0]
  BY <1>00, <1>6, <1>7, PlaceWrites DEF Length
<1>9. PICK n \in Nat : n = Len(text)
  BY <1>7
<1>10. W \in [0 .. n + 1 -> Seq(Int)] /\ W[n] = <<>>
  <2>1. W \in [0 .. n + 1 -> Seq(Int)] /\ W[n] = Turn(W, n, text, q)
    BY <1>8, <1>9 DEF Writes
  <2>2. Turn(W, n, text, q) = <<>>
    BY <1>9 DEF Turn
  <2> QED
    BY <2>1, <2>2
<1>11. PICK g : g = [i \in 1 .. m |-> Gloss(marks[i], q)]
  OBVIOUS
<1>12. g \in Seq(Seq(Plain)) /\ g \in Seq(Seq(Int)) /\ Len(g) = m /\ Plain \in SUBSET Int
  <2>1. \A i \in 1 .. m : Gloss(marks[i], q) \in Seq(Plain)
    BY <1>1, <1>2, GlossTyped
  <2>2. g \in [1 .. m -> Seq(Plain)]
    BY <1>11, <2>1
  <2>3. g \in Seq(Seq(Plain)) /\ Len(g) = m
    BY <1>2, <2>2
  <2>4. Plain \in SUBSET Int
    BY DEF Plain, Letter, Backslash
  <2>5. Seq(Plain) \subseteq Seq(Int)
    BY <2>4, SeqMonotonic
  <2>6. g \in Seq(Seq(Int))
    BY <2>3, <2>5, SeqMonotonic
  <2> QED
    BY <2>3, <2>4, <2>6
<1>13. PICK M : Sums(M, g, Int) /\ FlattenSeq(g) = M[m]
  BY <1>12, Flattened
<1>14. M[0] = <<>> /\ \A i \in 1 .. m : M[i] = M[i - 1] \o g[i]
  BY <1>12, <1>13 DEF Sums
<1>15. \A i \in 0 .. m : M[i] \in Seq(Plain) /\ M[i] \in Seq(Int)
  <2>1. \A i \in 0 .. m : M[i] \in Seq(Plain)
    BY <1>12, <1>13, SumsWithin
  <2> QED
    BY <1>12, <2>1, SeqMonotonic
<1>16. ASSUME NEW k \in 1 .. m
       PROVE  /\ NamesNoGroup(marks[k]) => W[Len(P[k - 1])] = <<NoSuchGroup>>
              /\ ~NamesNoGroup(marks[k]) => W[Len(P[k - 1])] = g[k] \o W[Len(P[k])]
              /\ Len(P[k - 1]) \in 0 .. n /\ Len(P[k]) \in 0 .. n
  <2>1. /\ NamesNoGroup(marks[k]) => W[Len(P[k - 1])] = <<NoSuchGroup>>
        /\ ~NamesNoGroup(marks[k]) =>
             W[Len(P[k - 1])] = Meaning(marks[k], q) \o W[Len(P[k])]
        /\ Len(P[k - 1]) \in 0 .. n /\ Len(P[k]) \in 0 .. n
    <3>1. text = P[Len(s)] /\ k \in 1 .. Len(marks) /\ Sums(P, s, Int) /\ Writes(W, text, q)
      BY <1>0, <1>4, <1>5, <1>7, <1>8
    <3>2. /\ TokenFollows(marks[k], q, W[Len(P[k - 1])], W[Len(P[k])])
          /\ Len(P[k - 1]) \in 0 .. Len(text) /\ Len(P[k]) \in 0 .. Len(text)
      <4>1. q \in Int /\ Length(q) \in Nat
        OBVIOUS
      <4>2. Spells(s, marks)
        BY <1>0, <1>1, <1>2, <1>3, <1>4 DEF Spells
      <4> QED
        BY ONLY <1>1, <3>1, <4>1, <4>2, TokenRead
    <3> QED
      BY <1>9, <3>2 DEF TokenFollows
  <2>2. ~NamesNoGroup(marks[k]) => g[k] = Meaning(marks[k], q)
    BY <1>11 DEF Gloss
  <2> QED
    BY <2>1, <2>2
<1> DEFINE Sound(k) == \A i \in 1 .. k : ~NamesNoGroup(marks[i])
           Holds(k) == Sound(k) => W[0] = M[k] \o W[Len(P[k])]
           Fails == {k \in 0 .. m : ~Holds(k)}
<1>17. Fails = {}
  <2>1. SUFFICES ASSUME Fails # {} PROVE FALSE
    OBVIOUS
  <2>2. Fails \in SUBSET Nat
    <3>1. Fails \subseteq 0 .. m
      OBVIOUS
    <3> HIDE DEF Fails
    <3>2. 0 .. m \subseteq Nat
      BY <1>2
    <3> QED
      BY <3>1, <3>2
  <2>3. PICK k \in Fails : \A i \in Fails : k <= i
    BY <2>1, <2>2, Least
  <2>4. k \in 0 .. m /\ ~Holds(k)
    BY <2>3
  <2>5. k # 0
    <3>1. P[0] = <<>> /\ Len(P[0]) = 0
      BY <1>5 DEF Sums
    <3>2. W[0] \in Seq(Int)
      BY <1>10
    <3>3. Holds(0)
      BY <1>14, <3>1, <3>2, ConcatEmptySeq
    <3> QED
      BY <2>4, <3>3
  <2>6. k - 1 \in 0 .. m /\ k \in 1 .. m /\ ~(k <= k - 1) /\ k \in Nat
    BY <1>2, <2>4, <2>5
  <2>7. Holds(k - 1)
    BY <2>3, <2>6
  <2>8. ASSUME Sound(k) PROVE W[0] = M[k] \o W[Len(P[k])]
    <3>1. Sound(k - 1) /\ ~NamesNoGroup(marks[k])
      BY <2>6, <2>8
    <3>2. W[0] = M[k - 1] \o W[Len(P[k - 1])]
      BY <2>7, <3>1
    <3>3. W[Len(P[k - 1])] = g[k] \o W[Len(P[k])]
      BY <1>16, <2>6, <3>1
    <3>4. M[k - 1] \in Seq(Int) /\ g[k] \in Seq(Int) /\ W[Len(P[k])] \in Seq(Int)
      <4>1. g[k] \in Seq(Int)
        BY <1>12, <2>6, ElementOfSeq
      <4>2. Len(P[k]) \in 0 .. n + 1
        <5>1. Len(P[k]) \in 0 .. n
          BY <1>16, <2>6
        <5> QED
          BY <5>1
      <4> QED
        BY <1>10, <1>15, <2>6, <4>1, <4>2
    <3>5. (M[k - 1] \o g[k]) \o W[Len(P[k])] = M[k - 1] \o (g[k] \o W[Len(P[k])])
      BY <3>4, Regrouped
    <3>6. M[k] = M[k - 1] \o g[k]
      BY <1>14, <2>6
    <3> QED
      BY <3>2, <3>3, <3>5, <3>6
  <2> QED
    BY <2>4, <2>8
<1>18. ASSUME NEW k \in 0 .. m, Sound(k) PROVE W[0] = M[k] \o W[Len(P[k])]
  <2>1. ~(k \in Fails)
    BY <1>17
  <2> QED
    BY <1>18, <2>1
<1> HIDE DEF Fails
<1>19. ASSUME NEW i \in 1 .. m, NamesNoGroup(marks[i])
       PROVE  W[0] # <<>> /\ Last(W[0]) = NoSuchGroup
  <2> DEFINE Broke == {j \in 1 .. m : NamesNoGroup(marks[j])}
  <2>1. Broke \in SUBSET Nat /\ Broke # {}
    BY <1>19
  <2>2. PICK k \in Broke : \A j \in Broke : k <= j
    BY <2>1, Least
  <2>3. k \in 1 .. m /\ NamesNoGroup(marks[k]) /\ k - 1 \in 0 .. m
    BY <1>2, <2>2
  <2>4. Sound(k - 1)
    <3>1. TAKE j \in 1 .. k - 1
    <3>2. j \in 1 .. m /\ ~(k <= j)
      BY <1>2, <2>3
    <3> QED
      BY <2>2, <3>2
  <2>5. W[0] = M[k - 1] \o <<NoSuchGroup>>
    BY <1>16, <1>18, <2>3, <2>4
  <2>6. PICK a \in Seq(Int) : a = M[k - 1]
    BY <1>15, <2>3
  <2>7. a \o <<NoSuchGroup>> # <<>> /\ Last(a \o <<NoSuchGroup>>) = NoSuchGroup
    BY DEF Last, NoSuchGroup
  <2> QED
    BY <2>5, <2>6, <2>7
<1>20. ASSUME Sound(m)
       PROVE  W[0] = FlattenSeq([i \in DOMAIN marks |-> Meaning(marks[i], q)])
                /\ W[0] \in Seq(Plain)
  <2>1. m \in 0 .. m
    BY <1>2
  <2>2. W[0] = M[m] \o W[Len(P[m])]
    BY <1>18, <1>20, <2>1
  <2>3. W[Len(P[m])] = <<>> /\ M[m] \in Seq(Plain)
    BY <1>7, <1>9, <1>10, <1>15, <2>1
  <2>4. W[0] = M[m]
    BY <2>2, <2>3, ConcatEmptySeq
  <2>5. g = [i \in DOMAIN marks |-> Meaning(marks[i], q)]
    <3>1. \A i \in 1 .. m : Gloss(marks[i], q) = Meaning(marks[i], q)
      BY <1>20 DEF Gloss
    <3> QED
      BY <1>2, <1>11, <3>1
  <2> QED
    BY <1>13, <2>3, <2>4, <2>5
<1>21. W[0] \in Seq(Int)
  BY <1>10
<1> QED
  BY <1>00, <1>2, <1>8, <1>19, <1>20, <1>21

IsStarts(S) ==
  \A p \in 0 .. call.n - 1 : p \in S <=> Length(p) > 0 /\ ~\E q \in S : Covers(q, p)

LEMMA LengthsOfCall ==
  ASSUME call \in Calls, NEW p \in 0 .. call.n
  PROVE  call.n \in Nat /\ call.n <= MaxSubject /\ Length(p) \in -1 .. call.n
           /\ Length(p) <= call.n - p
<1>1. call.n \in Nat /\ call.n <= MaxSubject /\ call.regexp \in Regexps(call.n)
  BY KindsOfCalls, MatchingAssumption
<1>2. call.regexp.length \in [0 .. call.n -> -1 .. call.n]
      /\ \A r \in 0 .. call.n : call.regexp.length[r] <= call.n - r
  BY <1>1 DEF Regexps
<1> QED
  BY <1>1, <1>2 DEF Length

\* The matches from left to right exist, whatever the expression finds.
LEMMA StartsExist ==
  ASSUME call \in Calls
  PROVE  Starts \in SUBSET (0 .. call.n - 1) /\ IsStarts(Starts)
<1>0. PICK n : n = call.n
  OBVIOUS
<1>1. n \in Nat /\ \A p \in 0 .. n : Length(p) \in Int
  <2>1. n \in Nat
    BY <1>0, KindsOfCalls, MatchingAssumption
  <2>2. ASSUME NEW p \in 0 .. n PROVE Length(p) \in Int
    BY <1>0, LengthsOfCall
  <2> QED
    BY <2>1, <2>2
<1> DEFINE Upto(S, k) == /\ S \in SUBSET (0 .. k - 1)
                         /\ \A p \in 0 .. k - 1 :
                              p \in S <=> Length(p) > 0 /\ ~\E q \in S : Covers(q, p)
           Missing == {k \in 0 .. n : ~\E S : Upto(S, k)}
<1>2. Missing = {}
  <2>1. SUFFICES ASSUME Missing # {} PROVE FALSE
    OBVIOUS
  <2>2. Missing \in SUBSET Nat
    OBVIOUS
  <2>3. PICK k \in Missing : \A i \in Missing : k <= i
    BY <2>1, <2>2, Least
  <2>4. k \in 0 .. n
    BY <2>3
  <2>5. CASE k = 0
    <3>1. 0 .. k - 1 = {}
      BY <2>5
    <3>2. PICK T : T = {}
      OBVIOUS
    <3>3. Upto(T, k)
      BY <3>1, <3>2
    <3> QED
      BY <2>3, <3>3
  <2>6. CASE k # 0
    <3>1. k - 1 \in 0 .. n /\ ~(k <= k - 1) /\ k \in Nat
      BY <1>1, <2>4, <2>6
    <3>2. ~(k - 1 \in Missing)
      BY <2>3, <3>1
    <3>3. PICK S : Upto(S, k - 1)
      BY <3>1, <3>2
    <3>4. PICK T : T = IF Length(k - 1) > 0 /\ ~\E q \in S : Covers(q, k - 1)
                       THEN S \union {k - 1} ELSE S
      OBVIOUS
    <3>5. T \in SUBSET (0 .. k - 1) /\ \A p \in 0 .. k - 1 : p # k - 1 => (p \in T <=> p \in S)
      BY <3>1, <3>3, <3>4
    <3>6. ASSUME NEW p \in 0 .. k - 1
          PROVE  (\E q \in T : Covers(q, p)) <=> \E q \in S : Covers(q, p)
      <4>1. ~Covers(k - 1, p)
        BY <3>1 DEF Covers
      <4> QED
        BY <3>4, <4>1
    <3>7. k - 1 \in T <=> Length(k - 1) > 0 /\ ~\E q \in T : Covers(q, k - 1)
      <4>1. k - 1 \in 0 .. k - 1 /\ k - 1 \notin S
        BY <3>1, <3>3
      <4> QED
        BY <3>4, <3>6, <4>1
    <3>8. ASSUME NEW p \in 0 .. k - 1, p # k - 1
          PROVE  p \in T <=> Length(p) > 0 /\ ~\E q \in T : Covers(q, p)
      <4>1. p \in 0 .. (k - 1) - 1
        BY <3>1, <3>8
      <4> QED
        BY <3>3, <3>5, <3>6, <3>8, <4>1
    <3>9. Upto(T, k)
      BY <3>5, <3>7, <3>8
    <3> QED
      BY <2>3, <3>9
  <2> QED
    BY <2>5, <2>6
<1>3. \E S : Upto(S, n)
  <2>1. n \in 0 .. n
    BY <1>1
  <2>2. ~(n \in Missing)
    BY <1>2
  <2> QED
    BY <2>1, <2>2
<1>4. \E S \in SUBSET (0 .. call.n - 1) : IsStarts(S)
  BY <1>0, <1>3 DEF IsStarts
<1> QED
  BY <1>4 DEF Starts, IsStarts

\* No match that begins before p reaches past it.
Boundary(p) == \A q \in Starts : q < p => q + Length(q) <= p

\* The search gives the next match of the reference, and leaves the end of that match.
LEMMA NextStart ==
  ASSUME call \in Calls, \A p \in 0 .. call.n : Length(p) # 0, at \in 0 .. call.n, Boundary(at),
         Matches(at) # {}
  PROVE  /\ Place(at) \in Starts /\ Place(at) \in at .. call.n - 1
         /\ Length(Place(at)) \in Nat /\ Length(Place(at)) # 0
         /\ End(Place(at)) = Place(at) + Length(Place(at))
         /\ End(Place(at)) \in Place(at) + 1 .. call.n
         /\ \A r \in Starts : r < Place(at) <=> r < at
         /\ \A r \in Starts : r < End(Place(at)) <=> r <= Place(at)
         /\ Boundary(End(Place(at)))
<1>1. Starts \in SUBSET (0 .. call.n - 1) /\ IsStarts(Starts)
  BY StartsExist
<1>2. /\ Place(at) \in at .. call.n /\ at \in Nat /\ call.n \in Nat
      /\ Length(Place(at)) \in Nat
      /\ End(Place(at)) = Place(at) + Length(Place(at)) /\ End(Place(at)) \in Place(at) .. call.n
  BY Found
<1>3. \A r \in Matches(at) : Place(at) <= r
  <2>1. Matches(at) \in SUBSET Nat
    BY <1>2 DEF Matches
  <2>2. \E x \in Matches(at) : \A r \in Matches(at) : x <= r
    BY <2>1, Least
  <2> QED
    BY <2>2 DEF Place
<1>4. PICK q, n, a, S : q = Place(at) /\ n = call.n /\ a = at /\ S = Starts
  OBVIOUS
<1>5. q \in a .. n /\ a \in Nat /\ n \in Nat /\ Length(q) \in Nat /\ q + Length(q) <= n /\ q \in Nat
  BY <1>2, <1>4
<1>6. Length(q) # 0 /\ q < n
  <2>1. q \in 0 .. n
    BY <1>5
  <2>2. Length(q) # 0
    BY <1>4, <2>1
  <2> QED
    BY <1>5, <2>2
<1>7. \A r \in S : r \in 0 .. n - 1 /\ Length(r) > 0 /\ ~\E t \in S : Covers(t, r)
  BY <1>1, <1>4 DEF IsStarts
<1>8. \A r \in S : Length(r) \in Int
  <2>1. SUFFICES ASSUME NEW r \in S PROVE Length(r) \in Int
    OBVIOUS
  <2>2. r \in 0 .. call.n
    BY <1>4, <1>5, <1>7
  <2> QED
    BY <2>2, LengthsOfCall
<1>9. ASSUME NEW r \in S, ~(r < a) PROVE q <= r
  <2>1. r \in 0 .. n - 1 /\ Length(r) > 0 /\ Length(r) \in Int
    BY <1>7, <1>8
  <2>2. r \in at .. call.n /\ call.regexp.length[r] >= 0
    BY <1>4, <1>5, <1>9, <2>1 DEF Length
  <2>3. r \in Matches(at)
    BY <2>2 DEF Matches
  <2> QED
    BY <1>3, <1>4, <2>3
<1>10. \A r \in S : r < a => r + Length(r) <= a
  BY <1>4 DEF Boundary
<1>11. q \in S
  <2>1. ASSUME NEW t \in S, Covers(t, q) PROVE FALSE
    <3>1. t < q /\ q < t + Length(t) /\ t \in 0 .. n - 1 /\ Length(t) \in Int
      BY <1>7, <1>8, <2>1 DEF Covers
    <3>2. t < a
      BY <1>5, <1>9, <3>1
    <3> QED
      BY <1>5, <1>10, <3>1, <3>2
  <2>2. q \in 0 .. n - 1 /\ Length(q) > 0
    BY <1>5, <1>6
  <2> QED
    BY <1>1, <1>4, <2>1, <2>2 DEF IsStarts
<1>12. ASSUME NEW r \in S
       PROVE  (r < q <=> r < a) /\ (r < q + Length(q) <=> r <= q)
              /\ (r < q + Length(q) => r + Length(r) <= q + Length(q))
  <2>1. r \in 0 .. n - 1 /\ Length(r) \in Int /\ ~Covers(q, r)
    BY <1>7, <1>8, <1>11
  <2>2. r < q <=> r < a
    BY <1>5, <1>9, <2>1
  <2>3. r < q + Length(q) <=> r <= q
    BY <1>5, <1>6, <2>1 DEF Covers
  <2>4. r < q => r + Length(r) <= a
    BY <1>10, <2>2
  <2>5. r < q + Length(q) => r + Length(r) <= q + Length(q)
    BY <1>5, <2>1, <2>3, <2>4
  <2> QED
    BY <2>2, <2>3, <2>5
<1>13. End(Place(at)) = q + Length(q)
  BY <1>2, <1>4
<1>14. Boundary(End(Place(at)))
  BY <1>4, <1>12, <1>13 DEF Boundary
<1>15. q \in a .. n - 1 /\ q + Length(q) \in q + 1 .. n
  BY <1>5, <1>6
<1> QED
  BY <1>4, <1>5, <1>6, <1>11, <1>12, <1>13, <1>14, <1>15

LEMMA NoMoreStarts ==
  ASSUME call \in Calls, at \in 0 .. call.n, Matches(at) = {}, NEW r \in Starts
  PROVE  r < at
<1>1. r \in 0 .. call.n - 1 /\ Length(r) > 0
  BY StartsExist DEF IsStarts
<1>2. call.n \in Nat /\ at \in Nat
  BY KindsOfCalls, MatchingAssumption
<1>3. CASE ~(r < at)
  <2>1. r \in at .. call.n
    BY <1>1, <1>2, <1>3
  <2>2. r \in 0 .. call.n
    BY <1>1, <1>2
  <2>3. Length(r) \in Int
    BY <2>2, LengthsOfCall
  <2>4. call.regexp.length[r] >= 0
    BY <1>1, <2>3 DEF Length
  <2> QED
    BY <2>1, <2>4 DEF Matches
<1> QED
  BY <1>3

LEMMA StartsFinite ==
  ASSUME call \in Calls, NEW T \in SUBSET Starts
  PROVE  /\ IsFiniteSet(T) /\ Cardinality(T) \in Nat /\ Cardinality(Starts) \in Nat
         /\ Cardinality(T) <= Cardinality(Starts)
         /\ (Cardinality(T) = Cardinality(Starts) => T = Starts)
         /\ Starts \in SUBSET Nat
<1>1. call.n \in Nat /\ Starts \in SUBSET (0 .. call.n - 1)
  BY StartsExist, KindsOfCalls, MatchingAssumption
<1>2. IsFiniteSet(0 .. call.n - 1)
  BY <1>1, FS_Interval
<1>3. IsFiniteSet(Starts)
  BY <1>1, <1>2, FS_Subset
<1>4. IsFiniteSet(T) /\ Cardinality(T) <= Cardinality(Starts)
      /\ (Cardinality(Starts) = Cardinality(T) => Starts = T)
  BY <1>3, FS_Subset
<1>5. Cardinality(T) \in Nat /\ Cardinality(Starts) \in Nat
  BY <1>3, <1>4, FS_CardinalityType
<1>6. Starts \in SUBSET Nat
  BY <1>1
<1> QED
  BY <1>4, <1>5, <1>6

\* A match that as many begin before or with as k says is the k-th.
LEMMA CutIs ==
  ASSUME call \in Calls, NEW q \in Starts, NEW k, Cardinality({r \in Starts : r <= q}) = k
  PROVE  Cut(k) = q
<1>1. Starts \in SUBSET Nat
  BY StartsFinite
<1>2. ASSUME NEW p \in Starts, NEW t \in Starts, p < t,
             Cardinality({r \in Starts : r <= p}) = Cardinality({r \in Starts : r <= t})
      PROVE  FALSE
  <2>1. PICK A, B : A = {r \in Starts : r <= p} /\ B = {r \in Starts : r <= t}
    OBVIOUS
  <2>2. A \in SUBSET B /\ B \in SUBSET Starts /\ t \in B /\ t \notin A
    <3>1. \A r \in Starts : r <= p => r <= t
      BY <1>1, <1>2
    <3>2. t <= t /\ ~(t <= p)
      BY <1>1, <1>2
    <3> QED
      BY <2>1, <3>1, <3>2
  <2>3. IsFiniteSet(B)
    BY <2>2, StartsFinite
  <2>4. A = B
    BY <1>2, <2>1, <2>2, <2>3, FS_Subset
  <2> QED
    BY <2>2, <2>4
<1>3. ASSUME NEW p \in Starts, Cardinality({r \in Starts : r <= p}) = k PROVE p = q
  <2>1. p \in Nat /\ q \in Nat
    BY <1>1
  <2>2. ~(p < q) /\ ~(q < p)
    BY <1>2, <1>3
  <2> QED
    BY <2>1, <2>2
<1>4. PICK p : p = Cut(k)
  OBVIOUS
<1>5. p \in Starts /\ Cardinality({r \in Starts : r <= p}) = k
  BY <1>4 DEF Cut
<1> QED
  BY <1>3, <1>4, <1>5

\* What split_crb_if has when it has found count matches
SplitInv ==
  phase = "split" /\ Regular =>
    /\ Boundary(at) /\ count = Cardinality({r \in Starts : r < at})
    /\ count = 0 => at = 0
    /\ count # 0 => at = Cut(count) + Length(Cut(count))
    /\ Len(pieces) = count
    /\ \A k \in 1 .. count : pieces[k] = SplittedPieces[k] /\ pieces[k] # <<>>

LEMMA NextPiece ==
  ASSUME count \in Nat, Cardinality(Starts) \in Nat, count <= Cardinality(Starts),
         count = 0 => at = 0, count # 0 => at = Cut(count) + Length(Cut(count)),
         NEW end, count = Cardinality(Starts) => end = call.n,
         count # Cardinality(Starts) => end = Cut(count + 1)
  PROVE  SplittedPieces[count + 1] = Letters(at, end) /\ count + 1 \in DOMAIN SplittedPieces
<1>1. PICK c, m : c = count + 1 /\ m = Cardinality(Starts)
  OBVIOUS
<1>2. c \in 1 .. m + 1 /\ c - 1 = count /\ (c = 1 <=> count = 0) /\ (c > m <=> count = m)
  BY <1>1
<1>3. SplittedPieces[c] = Letters(IF c = 1 THEN 0 ELSE Cut(c - 1) + Length(Cut(c - 1)),
                                  IF c > m THEN call.n ELSE Cut(c))
  BY <1>1, <1>2 DEF SplittedPieces
<1>4. (IF c = 1 THEN 0 ELSE Cut(c - 1) + Length(Cut(c - 1))) = at
  BY <1>2
<1>5. (IF c > m THEN call.n ELSE Cut(c)) = end
  BY <1>1, <1>2
<1>6. DOMAIN SplittedPieces = 1 .. m + 1
  BY <1>1 DEF SplittedPieces
<1> QED
  BY <1>1, <1>2, <1>3, <1>4, <1>5, <1>6

\* The piece in front of the next match is the next of the reference.
LEMMA PieceFound ==
  ASSUME call \in Calls, at \in 0 .. call.n, \A p \in 0 .. call.n : Length(p) # 0, Boundary(at),
         Matches(at) # {}, count = Cardinality({r \in Starts : r < at}),
         count = 0 => at = 0, count # 0 => at = Cut(count) + Length(Cut(count))
  PROVE  /\ SplittedPieces[count + 1] = Letters(at, Place(at))
         /\ count + 1 \in DOMAIN SplittedPieces
         /\ Cut(count + 1) = Place(at) /\ count \in Nat
         /\ Cardinality({r \in Starts : r < End(Place(at))}) = count + 1
<1>1. /\ Place(at) \in Starts /\ Place(at) \in at .. call.n - 1
      /\ \A r \in Starts : r < Place(at) <=> r < at
      /\ \A r \in Starts : r < End(Place(at)) <=> r <= Place(at)
  BY NextStart
<1>2. PICK q, A, B : q = Place(at) /\ A = {r \in Starts : r < at} /\ B = {r \in Starts : r <= q}
  OBVIOUS
<1>3. Starts \in SUBSET Nat /\ at \in Nat
  BY StartsFinite, KindsOfCalls, MatchingAssumption
<1>4. B = A \union {q} /\ q \notin A /\ A \in SUBSET Starts /\ B \in SUBSET Starts
  <2>1. ASSUME NEW r \in Starts PROVE r <= q <=> r < at \/ r = q
    <3>1. r \in Nat /\ q \in Nat /\ (r < q <=> r < at)
      BY <1>1, <1>2, <1>3
    <3> QED
      BY <3>1
  <2>2. q \in Starts /\ ~(q < at)
    BY <1>1, <1>2, <1>3
  <2> QED
    BY <1>2, <2>1, <2>2
<1>5. IsFiniteSet(A) /\ Cardinality(A) \in Nat /\ Cardinality(Starts) \in Nat
      /\ Cardinality(B) <= Cardinality(Starts)
  BY <1>4, StartsFinite
<1>6. Cardinality(B) = Cardinality(A) + 1
  BY <1>4, <1>5, FS_AddElement
<1>7. count = Cardinality(A)
  BY <1>2
<1>8. Cut(count + 1) = q
  BY <1>1, <1>2, <1>6, <1>7, CutIs
<1>9. {r \in Starts : r < End(Place(at))} = B
  BY <1>1, <1>2
<1>10. count \in Nat /\ count <= Cardinality(Starts) /\ count # Cardinality(Starts)
  BY <1>5, <1>6, <1>7
<1>11. SplittedPieces[count + 1] = Letters(at, q) /\ count + 1 \in DOMAIN SplittedPieces
  BY <1>5, <1>8, <1>10, NextPiece
<1> QED
  BY <1>2, <1>6, <1>7, <1>8, <1>9, <1>10, <1>11

LEMMA LastPiece ==
  ASSUME call \in Calls, at \in 0 .. call.n, Matches(at) = {},
         count = Cardinality({r \in Starts : r < at}),
         count = 0 => at = 0, count # 0 => at = Cut(count) + Length(Cut(count))
  PROVE  /\ SplittedPieces[count + 1] = Letters(at, call.n)
         /\ DOMAIN SplittedPieces = 1 .. count + 1
         /\ count \in Nat
<1>1. {r \in Starts : r < at} = Starts
  BY NoMoreStarts
<1>2. count = Cardinality(Starts) /\ Cardinality(Starts) \in Nat
  BY <1>1, StartsFinite
<1>3. SplittedPieces[count + 1] = Letters(at, call.n)
  <2>1. count \in Nat /\ Cardinality(Starts) \in Nat /\ count <= Cardinality(Starts)
        /\ (count # Cardinality(Starts) => call.n = Cut(count + 1))
    BY <1>2
  <2> QED
    BY <2>1, NextPiece
<1> QED
  BY <1>2, <1>3 DEF SplittedPieces

\* The reference depends on the call alone.
LEMMA SameReference ==
  ASSUME call' = call
  PROVE  /\ Starts' = Starts /\ Regular' = Regular /\ SplittedPieces' = SplittedPieces
         /\ Replaced' = Replaced /\ ReplacedText' = ReplacedText
         /\ \A p : Length(p)' = Length(p)
         /\ \A k : Cut(k)' = Cut(k)
         /\ \A t : NamesNoGroup(t)' = NamesNoGroup(t)
<1>1. \A p : Length(p)' = Length(p)
  BY DEF Length
<1>2. \A p, q : Covers(p, q)' = Covers(p, q)
  BY DEF Covers, Length
<1>3. Starts' = Starts
  BY DEF Starts, Length, Covers
<1>4. Regular' = Regular
  BY DEF Regular, Length
<1>5. \A k : Cut(k)' = Cut(k)
  BY <1>3 DEF Cut
<1>6. SplittedPieces' = SplittedPieces
  BY <1>1, <1>3, <1>5 DEF SplittedPieces
<1>7. Replaced' = Replaced
  BY <1>3 DEF Replaced
<1>8. \A t : NamesNoGroup(t)' = NamesNoGroup(t)
  BY DEF NamesNoGroup
<1>9. ReplacedText' = ReplacedText
  BY <1>7 DEF ReplacedText, Meaning, Length, Covers
<1> QED
  BY <1>1, <1>3, <1>4, <1>5, <1>6, <1>7, <1>8, <1>9

LEMMA LettersEmpty ==
  ASSUME NEW from \in Int, NEW end \in Int, from <= end
  PROVE  Letters(from, end) = <<>> <=> from = end
<1>1. /\ Letters(from, end) \in Seq(Int)
      /\ Len(Letters(from, end)) = IF end > from THEN end - from ELSE 0
  BY LettersAreNumbers
<1>2. Letters(from, end) = <<>> <=> Len(Letters(from, end)) = 0
  BY <1>1, EmptySeq
<1> QED
  BY <1>1, <1>2

LEMMA SplitMore ==
  ASSUME call \in Calls, at \in 0 .. call.n, SplitInv, phase = "split", Regular,
         pieces \in Seq(Seq(Int)), Matches(at) # {}, Place(at) # at,
         pieces' = Append(pieces, Letters(at, Place(at))), at' = End(Place(at)), count' = count + 1,
         call' = call
  PROVE  SplitInv'
<1>1. /\ Boundary(at) /\ count = Cardinality({r \in Starts : r < at})
      /\ count = 0 => at = 0
      /\ count # 0 => at = Cut(count) + Length(Cut(count))
      /\ Len(pieces) = count
      /\ \A k \in 1 .. count : pieces[k] = SplittedPieces[k] /\ pieces[k] # <<>>
  BY DEF SplitInv
<1>2. \A p \in 0 .. call.n : Length(p) # 0
  BY DEF Regular
<1>3. /\ SplittedPieces[count + 1] = Letters(at, Place(at))
      /\ Cut(count + 1) = Place(at) /\ count \in Nat
      /\ Cardinality({r \in Starts : r < End(Place(at))}) = count + 1
  BY <1>1, <1>2, PieceFound
<1>4. /\ Place(at) \in at .. call.n - 1 /\ End(Place(at)) = Place(at) + Length(Place(at))
      /\ Boundary(End(Place(at)))
  BY <1>1, <1>2, NextStart
<1>5. /\ Starts' = Starts /\ Regular' = Regular /\ SplittedPieces' = SplittedPieces
      /\ \A p : Length(p)' = Length(p)
      /\ \A k : Cut(k)' = Cut(k)
  BY SameReference
<1>6. Boundary(at)' /\ count' = Cardinality({r \in Starts : r < at})' /\ count' # 0
  BY <1>3, <1>4, <1>5 DEF Boundary
<1>7. at' = Cut(count') + Length(Cut(count'))
  BY <1>3, <1>4
<1>8. Letters(at, Place(at)) # <<>>
  <2>1. at \in Int /\ Place(at) \in Int /\ at <= Place(at)
    BY <1>4, KindsOfCalls, MatchingAssumption
  <2> QED
    BY <2>1, LettersEmpty
<1>9. PICK s \in Seq(Seq(Int)) : s = pieces
  OBVIOUS
<1>10. PICK x : x = Letters(at, Place(at))
  OBVIOUS
<1>11. Len(Append(s, x)) = Len(s) + 1 /\ Append(s, x)[Len(s) + 1] = x
       /\ \A k \in 1 .. Len(s) : Append(s, x)[k] = s[k]
  OBVIOUS
<1>12. Len(pieces') = count'
  BY <1>1, <1>9, <1>10, <1>11
<1>13. ASSUME NEW k \in 1 .. count' PROVE pieces'[k] = SplittedPieces[k] /\ pieces'[k] # <<>>
  <2>1. CASE k = count + 1
    BY <1>1, <1>3, <1>8, <1>9, <1>10, <1>11, <2>1
  <2>2. CASE k # count + 1
    <3>1. k \in 1 .. count
      BY <1>3, <2>2
    <3>2. pieces'[k] = pieces[k]
      BY <1>1, <1>9, <1>10, <1>11, <3>1
    <3> QED
      BY <1>1, <3>1, <3>2
  <2> QED
    BY <2>1, <2>2
<1>14. (Cut(count) + Length(Cut(count)))' = Cut(count') + Length(Cut(count'))
  BY <1>5
<1> QED
  BY <1>5, <1>6, <1>7, <1>12, <1>13, <1>14 DEF SplitInv

\* A match at the beginning of what is left makes an empty piece.
LEMMA SplitBreaks ==
  ASSUME call \in Calls, at \in 0 .. call.n, SplitInv, phase = "split", Regular,
         \/ Matches(at) # {} /\ Place(at) = at
         \/ Matches(at) = {} /\ at = call.n
  PROVE  \E k \in DOMAIN SplittedPieces : SplittedPieces[k] = <<>>
<1>1. /\ Boundary(at) /\ count = Cardinality({r \in Starts : r < at})
      /\ count = 0 => at = 0
      /\ count # 0 => at = Cut(count) + Length(Cut(count))
  BY DEF SplitInv
<1>2. \A p \in 0 .. call.n : Length(p) # 0
  BY DEF Regular
<1>3. at \in Int /\ Letters(at, at) = <<>>
  <2>1. at \in Int /\ at <= at
    BY KindsOfCalls, MatchingAssumption
  <2> QED
    BY <2>1, LettersEmpty
<1>4. CASE Matches(at) # {} /\ Place(at) = at
  <2>1. SplittedPieces[count + 1] = Letters(at, Place(at)) /\ count + 1 \in DOMAIN SplittedPieces
    BY <1>1, <1>2, <1>4, PieceFound
  <2> QED
    BY <1>3, <1>4, <2>1
<1>5. CASE Matches(at) = {} /\ at = call.n
  <2>1. SplittedPieces[count + 1] = Letters(at, call.n) /\ DOMAIN SplittedPieces = 1 .. count + 1
        /\ count \in Nat
    BY <1>1, <1>5, LastPiece
  <2>2. count + 1 \in 1 .. count + 1
    BY <2>1
  <2> QED
    BY <1>3, <1>5, <2>1, <2>2
<1> QED
  BY <1>4, <1>5

LEMMA SplitDone ==
  ASSUME call \in Calls, at \in 0 .. call.n, SplitInv, phase = "split", Regular,
         pieces \in Seq(Seq(Int)), Matches(at) = {}, at # call.n
  PROVE  /\ Append(pieces, Letters(at, call.n)) = SplittedPieces
         /\ ~\E k \in DOMAIN SplittedPieces : SplittedPieces[k] = <<>>
<1>1. /\ count = Cardinality({r \in Starts : r < at})
      /\ count = 0 => at = 0
      /\ count # 0 => at = Cut(count) + Length(Cut(count))
      /\ Len(pieces) = count
      /\ \A k \in 1 .. count : pieces[k] = SplittedPieces[k] /\ pieces[k] # <<>>
  BY DEF SplitInv
<1>2. SplittedPieces[count + 1] = Letters(at, call.n) /\ DOMAIN SplittedPieces = 1 .. count + 1
      /\ count \in Nat
  BY <1>1, LastPiece
<1>3. Letters(at, call.n) # <<>>
  <2>1. at \in Int /\ call.n \in Int /\ at <= call.n
    BY KindsOfCalls, MatchingAssumption
  <2> QED
    BY <2>1, LettersEmpty
<1>4. PICK s \in Seq(Seq(Int)) : s = pieces
  OBVIOUS
<1>5. PICK x, t : x = Letters(at, call.n) /\ t = SplittedPieces
  OBVIOUS
<1>6. PICK c \in Nat : c = count
  BY <1>2
<1>7. Len(s) = c /\ (\A k \in 1 .. c : s[k] = t[k] /\ t[k] # <<>>) /\ t[c + 1] = x /\ x # <<>>
      /\ DOMAIN t = 1 .. c + 1
  BY <1>1, <1>2, <1>3, <1>4, <1>5, <1>6
<1>8. t = [k \in DOMAIN t |-> t[k]]
  BY <1>5 DEF SplittedPieces
<1>9. \A k \in 1 .. c + 1 : k = c + 1 \/ k \in 1 .. c
  OBVIOUS
<1>10. PICK u : u = Append(s, x)
  OBVIOUS
<1>11. u = [k \in 1 .. c + 1 |-> u[k]] /\ u[c + 1] = x /\ \A k \in 1 .. c : u[k] = s[k]
  <2>1. x \in Seq(Int)
    <3>1. at \in Int /\ call.n \in Int
      BY KindsOfCalls, MatchingAssumption
    <3> QED
      BY <1>5, <3>1, LettersAreNumbers
  <2>2. u \in Seq(Seq(Int)) /\ Len(u) = c + 1 /\ u[c + 1] = x /\ \A k \in 1 .. c : u[k] = s[k]
    BY <1>7, <1>10, <2>1
  <2> QED
    BY <2>2, LenProperties
<1>12. \A k \in 1 .. c + 1 : u[k] = t[k] /\ t[k] # <<>>
  BY <1>7, <1>9, <1>11
<1>13. u = t
  BY <1>7, <1>8, <1>11, <1>12
<1> QED
  BY <1>4, <1>5, <1>7, <1>10, <1>12, <1>13

LEMMA LettersGrow ==
  ASSUME NEW from \in Int, NEW end \in Int, from <= end
  PROVE  Letters(from, end) \o <<end>> = Letters(from, end + 1)
<1>1. PICK a, b, c \in Seq(Int) : a = Letters(from, end) /\ b = <<end>>
        /\ c = Letters(from, end + 1)
  <2>1. Letters(from, end) \in Seq(Int) /\ Letters(from, end + 1) \in Seq(Int)
          /\ <<end>> \in Seq(Int)
    BY LettersAreNumbers
  <2> QED
    BY <2>1
<1>2. PICK n \in Nat : n = end - from
  OBVIOUS
<1>3. Len(a) = n /\ \A i \in 1 .. n : a[i] = from + i - 1
  <2>1. Len(a) = (IF end > from THEN end - from ELSE 0)
          /\ \A i \in 1 .. end - from : a[i] = from + i - 1
    BY <1>1, LettersAreNumbers
  <2> QED
    BY <1>2, <2>1
<1>4. Len(c) = n + 1 /\ \A i \in 1 .. n + 1 : c[i] = from + i - 1
  <2>1. PICK e \in Int : e = end + 1
    OBVIOUS
  <2>2. Len(c) = (IF e > from THEN e - from ELSE 0) /\ \A i \in 1 .. e - from : c[i] = from + i - 1
    BY <1>1, <2>1, LettersAreNumbers
  <2> QED
    BY <1>2, <2>1, <2>2
<1>5. Len(b) = 1 /\ b[1] = end
  BY <1>1
<1>6. a \o b \in Seq(Int) /\ Len(a \o b) = Len(a) + Len(b)
      /\ \A i \in 1 .. Len(a) + Len(b) : (a \o b)[i] = IF i <= Len(a) THEN a[i] ELSE b[i - Len(a)]
  BY ConcatProperties
<1>7. ASSUME NEW i \in 1 .. n + 1 PROVE (a \o b)[i] = c[i]
  <2>1. CASE i = n + 1
    <3>1. (a \o b)[i] = b[1]
      BY <1>3, <1>5, <1>6, <2>1
    <3> QED
      BY <1>2, <1>4, <1>5, <2>1, <3>1, SMTT(30)
  <2>2. CASE i # n + 1
    <3>1. i \in 1 .. n
      BY <2>2
    <3> QED
      BY <1>3, <1>4, <1>5, <1>6, <3>1
  <2> QED
    BY <2>1, <2>2
<1>8. a \o b = c
  BY <1>3, <1>4, <1>5, <1>6, <1>7, SeqEqual
<1> QED
  BY <1>1, <1>8

\* Entries of one letter each add the letters, and empty entries add nothing.
LEMMA SumsLetters ==
  ASSUME NEW s \in Seq(Seq(Int)), NEW P, Sums(P, s, Int),
         NEW a \in 0 .. Len(s), NEW b \in a .. Len(s),
         \A p \in a .. b - 1 : s[p + 1] = <<p>>
  PROVE  P[b] = P[a] \o Letters(a, b)
<1>0. PICK m \in Nat : m = Len(s)
  OBVIOUS
<1>1. P \in [0 .. m -> Seq(Int)] /\ \A i \in 1 .. m : P[i] = P[i - 1] \o s[i]
  BY <1>0, Zenon DEF Sums
<1>2. a \in 0 .. m /\ b \in a .. m /\ a \in Nat /\ b \in Nat
  BY <1>0
<1> DEFINE Fails == {i \in a .. b : P[i] # P[a] \o Letters(a, i)}
<1>3. SUFFICES ASSUME Fails # {} PROVE FALSE
  <2>1. b \in a .. b
    BY <1>2
  <2>2. ASSUME P[b] # P[a] \o Letters(a, b) PROVE b \in Fails
    BY <2>1, <2>2
  <2> HIDE DEF Fails
  <2> QED
    BY <2>2
<1>4. Fails \in SUBSET Nat
  BY <1>2
<1>5. PICK i \in Fails : \A j \in Fails : i <= j
  BY <1>3, <1>4, Least
<1>6. i \in a .. b /\ P[i] # P[a] \o Letters(a, i)
  BY <1>5
<1>7. P[a] \in Seq(Int)
  BY <1>1, <1>2
<1>8. i # a
  <2>1. Letters(a, a) = <<>>
    BY <1>2, LettersEmpty
  <2>2. P[a] = P[a] \o Letters(a, a)
    BY <1>7, <2>1, ConcatEmptySeq
  <2> QED
    BY <1>6, <2>2
<1>9. PICK h \in Nat : h = i - 1
  BY <1>2, <1>6, <1>8
<1>10. h \in a .. b - 1 /\ h \in a .. b /\ ~(i <= h) /\ i = h + 1 /\ i \in 1 .. m
  BY <1>2, <1>6, <1>8, <1>9
<1>11. P[h] = P[a] \o Letters(a, h)
  <2>1. ~(h \in Fails)
    BY <1>5, <1>10
  <2> QED
    BY <1>10, <2>1
<1>12. P[i] = P[h] \o <<h>>
  <2>1. P[i] = P[i - 1] \o s[i] /\ s[h + 1] = <<h>>
    BY <1>1, <1>10
  <2> QED
    BY <1>9, <1>10, <2>1
<1>13. Letters(a, h) \o <<h>> = Letters(a, i)
  <2>1. a \in Int /\ h \in Int /\ a <= h
    BY <1>2, <1>10
  <2> QED
    BY <1>10, <2>1, LettersGrow
<1>14. (P[a] \o Letters(a, h)) \o <<h>> = P[a] \o (Letters(a, h) \o <<h>>)
  <2>1. Letters(a, h) \in Seq(Int) /\ <<h>> \in Seq(Int)
    BY <1>2, LettersAreNumbers
  <2> QED
    BY <1>7, <2>1, Regrouped
<1> QED
  BY <1>6, <1>11, <1>12, <1>13, <1>14

LEMMA SumsNothing ==
  ASSUME NEW s \in Seq(Seq(Int)), NEW P, Sums(P, s, Int),
         NEW a \in 0 .. Len(s), NEW b \in a .. Len(s),
         \A p \in a .. b - 1 : s[p + 1] = <<>>
  PROVE  P[b] = P[a]
<1>0. PICK m \in Nat : m = Len(s)
  OBVIOUS
<1>1. P \in [0 .. m -> Seq(Int)] /\ \A i \in 1 .. m : P[i] = P[i - 1] \o s[i]
  BY <1>0, Zenon DEF Sums
<1>2. a \in 0 .. m /\ b \in a .. m /\ a \in Nat /\ b \in Nat
  BY <1>0
<1> DEFINE Fails == {i \in a .. b : P[i] # P[a]}
<1>3. SUFFICES ASSUME Fails # {} PROVE FALSE
  BY <1>2
<1>4. Fails \in SUBSET Nat
  BY <1>2
<1>5. PICK i \in Fails : \A j \in Fails : i <= j
  BY <1>3, <1>4, Least
<1>6. i \in a .. b /\ P[i] # P[a] /\ i # a
  BY <1>5
<1>7. PICK h \in Nat : h = i - 1
  BY <1>2, <1>6
<1>8. h \in a .. b - 1 /\ h \in a .. b /\ ~(i <= h) /\ i = h + 1 /\ i \in 1 .. m /\ h \in 0 .. m
  BY <1>2, <1>6, <1>7
<1>9. P[h] = P[a]
  <2>1. ~(h \in Fails)
    BY <1>5, <1>8
  <2> QED
    BY <1>8, <2>1
<1>10. P[i] = P[h] \o <<>>
  <2>1. P[i] = P[i - 1] \o s[i] /\ s[h + 1] = <<>>
    BY <1>1, <1>8
  <2> QED
    BY <1>7, <1>8, <2>1
<1>11. P[h] \in Seq(Int)
  BY <1>1, <1>8
<1> QED
  BY <1>6, <1>9, <1>10, <1>11, ConcatEmptySeq

-----------------------------------------------------------------------------
TokensSound == \A k \in DOMAIN call.tokens : ~NamesNoGroup(call.tokens[k])

\* What the reference has at position p, and the entries that it concatenates
Cell(p) ==
  IF p \in Replaced
  THEN FlattenSeq([k \in DOMAIN call.tokens |-> Meaning(call.tokens[k], p)])
  ELSE IF \E q \in Replaced : Covers(q, p) THEN <<>> ELSE <<p>>
Cells == [i \in 1 .. call.n |-> Cell(i - 1)]
Runs == CHOOSE P : Sums(P, Cells, Int) /\ FlattenSeq(Cells) = P[Len(Cells)]

\* A replacement of which the properties speak
RegularReplace ==
  /\ call \in Calls /\ call.kind = "replace"
  /\ \A p \in 0 .. call.n : Length(p) # 0
  /\ \A k \in DOMAIN call.tokens : call.tokens[k] # "wide"

LEMMA ReplacedAreStarts ==
  ASSUME RegularReplace, NEW p \in Replaced
  PROVE  p \in Starts /\ p \in 0 .. call.n - 1 /\ Length(p) \in Nat /\ p \in Nat
<1>1. call \in Calls
  BY DEF RegularReplace
<1>2. p \in Starts
  BY DEF Replaced
<1>3. p \in 0 .. call.n - 1 /\ Length(p) > 0
  BY <1>1, <1>2, StartsExist DEF IsStarts
<1>4. call.n \in Nat
  BY <1>1, KindsOfCalls, MatchingAssumption
<1>5. p \in 0 .. call.n
  BY <1>3, <1>4
<1>6. Length(p) \in Int
  BY <1>1, <1>5, LengthsOfCall
<1> QED
  BY <1>2, <1>3, <1>6

LEMMA RunsAre ==
  ASSUME RegularReplace, TokensSound
  PROVE  /\ Cells \in Seq(Seq(Int)) /\ Len(Cells) = call.n /\ call.n \in Nat
         /\ \A p \in 0 .. call.n - 1 : Cells[p + 1] = Cell(p)
         /\ Sums(Runs, Cells, Int) /\ ReplacedText = Runs[call.n]
<1>1. call.n \in Nat
  BY KindsOfCalls, MatchingAssumption DEF RegularReplace
<1>2. PICK n, s : n = call.n /\ s = Cells
  OBVIOUS
<1>3. ASSUME NEW p \in 0 .. n - 1 PROVE Cell(p) \in Seq(Int)
  <2>1. p \in Replaced =>
          FlattenSeq([k \in DOMAIN call.tokens |-> Meaning(call.tokens[k], p)]) \in Seq(Int)
    <3>1. SUFFICES ASSUME p \in Replaced
          PROVE FlattenSeq([k \in DOMAIN call.tokens |-> Meaning(call.tokens[k], p)]) \in Seq(Int)
      OBVIOUS
    <3>2. p \in Nat /\ Length(p) \in Nat
      BY <3>1, ReplacedAreStarts
    <3>3. /\ ReplaceMatchedPlace(p) \in Seq(Int)
          /\ ReplaceMatchedPlace(p) =
               FlattenSeq([k \in DOMAIN call.tokens |-> Meaning(call.tokens[k], p)])
      BY <3>2, PlaceReplaced DEF RegularReplace, TokensSound
    <3> QED
      BY <3>3
  <2>2. <<>> \in Seq(Int) /\ <<p>> \in Seq(Int)
    OBVIOUS
  <2> QED
    BY <2>1, <2>2, Zenon DEF Cell
<1>4. s = [i \in 1 .. n |-> Cell(i - 1)]
  BY <1>2 DEF Cells
<1>5. ASSUME NEW p \in 0 .. n - 1 PROVE s[p + 1] = Cell(p)
  <2>1. p + 1 \in 1 .. n /\ p + 1 - 1 = p
    BY <1>1, <1>2
  <2> QED
    BY <1>4, <2>1
<1>6. \A i \in 1 .. n : s[i] \in Seq(Int)
  <2>1. TAKE i \in 1 .. n
  <2>2. i - 1 \in 0 .. n - 1
    BY <1>1, <1>2
  <2>3. Cell(i - 1) \in Seq(Int)
    BY <1>3, <2>2
  <2> QED
    BY <1>4, <2>3
<1>7. s \in Seq(Seq(Int)) /\ Len(s) = n
  <2>1. s \in [1 .. n -> Seq(Int)]
    BY <1>4, <1>6
  <2> QED
    BY <1>1, <1>2, <2>1
<1>8. \E P : Sums(P, s, Int) /\ FlattenSeq(s) = P[Len(s)]
  BY <1>7, Flattened
<1>9. Sums(Runs, s, Int) /\ FlattenSeq(s) = Runs[Len(s)]
  BY <1>2, <1>8 DEF Runs
<1>10. ReplacedText = FlattenSeq(s)
  BY <1>2 DEF ReplacedText, Cells, Cell
<1> QED
  BY <1>1, <1>2, <1>5, <1>7, <1>9, <1>10

\* What replace_crb_if has when it has replaced count matches
ReplaceInv ==
  phase = "replace" /\ Regular =>
    /\ Boundary(at) /\ count <= call.limit
    /\ count = 0 => at = 0 /\ out = <<>>
    /\ count # 0 => Starts # {} /\ TokensSound /\ out = Runs[at]
    /\ count # 0 /\ call.limit = 1 => \A r \in Replaced : r < at

\* A letter that no match from at on contains, and no match before it reaches, stays.
LEMMA LettersStay ==
  ASSUME RegularReplace, TokensSound, at \in 0 .. call.n, Boundary(at), NEW end \in at .. call.n,
         \A r \in Replaced : r < at \/ r >= end
  PROVE  Runs[end] = Runs[at] \o Letters(at, end) /\ Runs[at] \in Seq(Int)
<1>1. /\ Cells \in Seq(Seq(Int)) /\ Len(Cells) = call.n /\ call.n \in Nat
      /\ \A p \in 0 .. call.n - 1 : Cells[p + 1] = Cell(p)
      /\ Sums(Runs, Cells, Int)
  BY RunsAre
<1>2. at \in Nat /\ end \in Nat
  BY <1>1
<1>3. ASSUME NEW p \in at .. end - 1 PROVE Cells[p + 1] = <<p>>
  <2>1. p \in 0 .. call.n - 1 /\ p \in Nat /\ at <= p /\ p < end
    BY <1>1, <1>2
  <2>2. p \notin Replaced
    BY <1>2, <2>1
  <2>3. ASSUME NEW r \in Replaced, Covers(r, p) PROVE FALSE
    <3>1. r \in Starts /\ r \in Nat /\ Length(r) \in Nat
      BY ReplacedAreStarts
    <3>2. r < p /\ p < r + Length(r)
      BY <2>3 DEF Covers
    <3>3. r < at
      BY <1>2, <2>1, <3>1, <3>2
    <3>4. r + Length(r) <= at
      BY <3>1, <3>3 DEF Boundary
    <3> QED
      BY <1>2, <2>1, <3>1, <3>2, <3>4
  <2>4. Cell(p) = <<p>>
    BY <2>2, <2>3 DEF Cell
  <2> QED
    BY <1>1, <2>1, <2>4
<1>4. at \in 0 .. Len(Cells) /\ end \in at .. Len(Cells)
  BY <1>1
<1>5. Runs[end] = Runs[at] \o Letters(at, end)
  BY <1>1, <1>3, <1>4, SumsLetters
<1>6. Runs[at] \in Seq(Int)
  BY <1>1 DEF Sums
<1> QED
  BY <1>5, <1>6

LEMMA LimitOfCall ==
  ASSUME RegularReplace
  PROVE  call.limit \in {1, MatchLimit} /\ MatchLimit \in Nat /\ MatchLimit > call.n
           /\ MatchLimit > 1
<1>1. call.n \in 0 .. MaxSubject /\ call.limit \in {1, MatchLimit}
  BY CallOfReplace DEF RegularReplace
<1> QED
  BY <1>1, MatchingAssumption

\* The next match is one that the reference replaces, and the only one at the limit of reg_replace.
LEMMA NextIsReplaced ==
  ASSUME RegularReplace, at \in 0 .. call.n, Boundary(at), Matches(at) # {}, count \in Nat,
         count < call.limit, count = 0 => at = 0
  PROVE  Place(at) \in Replaced /\ (call.limit = 1 => Replaced = {Place(at)})
<1>1. /\ Place(at) \in Starts /\ Place(at) \in at .. call.n - 1
      /\ \A r \in Starts : r < Place(at) <=> r < at
  BY NextStart DEF RegularReplace
<1>2. CASE call.limit > 1
  BY <1>1, <1>2 DEF Replaced
<1>3. CASE ~(call.limit > 1)
  <2>1. call.limit = 1 /\ count = 0 /\ at = 0
    BY <1>3, LimitOfCall
  <2>2. Starts \in SUBSET Nat
    BY StartsFinite DEF RegularReplace
  <2>3. \A r \in Starts : Place(at) <= r
    <3>1. TAKE r \in Starts
    <3>2. r \in Nat /\ Place(at) \in Nat /\ ~(r < 0)
      BY <1>1, <2>2
    <3> QED
      BY <1>1, <2>1, <3>2
  <2>4. Replaced = {p \in Starts : \A r \in Starts : p <= r}
    BY <1>3 DEF Replaced
  <2>5. \A p \in Replaced : p = Place(at)
    <3>1. TAKE p \in Replaced
    <3>2. p \in Starts /\ p <= Place(at) /\ Place(at) <= p /\ p \in Nat /\ Place(at) \in Nat
      BY <1>1, <2>2, <2>3, <2>4
    <3> QED
      BY <3>2
  <2>6. Place(at) \in Replaced
    BY <1>1, <2>3, <2>4
  <2> QED
    BY <2>5, <2>6
<1> QED
  BY <1>2, <1>3

\* The letters in front of the next match, what replaces it, and nothing for its other letters
LEMMA MatchReplaced ==
  ASSUME RegularReplace, TokensSound, at \in 0 .. call.n, Boundary(at), Matches(at) # {},
         count \in Nat, count < call.limit, count = 0 => at = 0
  PROVE  /\ Runs[End(Place(at))]
              = (Runs[at] \o Letters(at, Place(at))) \o ReplaceMatchedPlace(Place(at))
         /\ Runs[0] = <<>>
<1>1. /\ Place(at) \in Starts /\ Place(at) \in at .. call.n - 1
      /\ Length(Place(at)) \in Nat /\ Length(Place(at)) # 0
      /\ End(Place(at)) = Place(at) + Length(Place(at))
      /\ End(Place(at)) \in Place(at) + 1 .. call.n
      /\ \A r \in Starts : r < Place(at) <=> r < at
      /\ \A r \in Starts : r < End(Place(at)) <=> r <= Place(at)
  BY NextStart DEF RegularReplace
<1>2. /\ Cells \in Seq(Seq(Int)) /\ Len(Cells) = call.n /\ call.n \in Nat
      /\ \A p \in 0 .. call.n - 1 : Cells[p + 1] = Cell(p)
      /\ Sums(Runs, Cells, Int)
  BY RunsAre
<1>3. PICK q, e : q = Place(at) /\ e = End(Place(at))
  OBVIOUS
<1>4. q \in Nat /\ e \in Nat /\ e = q + Length(q) /\ q \in at .. call.n - 1 /\ e \in q + 1 .. call.n
      /\ at \in Nat /\ q \in Replaced /\ Length(q) \in Nat
  BY <1>1, <1>2, <1>3, NextIsReplaced, SMTT(30)
<1>5. Runs[q] = Runs[at] \o Letters(at, q)
  <2>1. ASSUME NEW r \in Replaced PROVE r < at \/ r >= q
    <3>1. r \in Starts /\ r \in Nat
      BY ReplacedAreStarts
    <3> QED
      BY <1>1, <1>3, <1>4, <3>1
  <2>2. q \in at .. call.n
    BY <1>2, <1>4
  <2> QED
    BY <2>1, <2>2, LettersStay
<1>6. Runs[q + 1] = Runs[q] \o ReplaceMatchedPlace(q)
  <2>1. Cell(q) = FlattenSeq([k \in DOMAIN call.tokens |-> Meaning(call.tokens[k], q)])
    BY <1>4 DEF Cell
  <2>2. ReplaceMatchedPlace(q) =
          FlattenSeq([k \in DOMAIN call.tokens |-> Meaning(call.tokens[k], q)])
    BY <1>4, PlaceReplaced DEF RegularReplace, TokensSound
  <2>3. q \in 0 .. call.n - 1
    BY <1>2, <1>4
  <2>4. Cells[q + 1] = ReplaceMatchedPlace(q)
    BY <1>2, <2>1, <2>2, <2>3
  <2>5. PICK i : i = q + 1
    OBVIOUS
  <2>6. i \in 1 .. Len(Cells) /\ i - 1 = q
    BY <1>2, <1>4, <2>5
  <2>7. Runs[i] = Runs[i - 1] \o Cells[i]
    BY <1>2, <2>6 DEF Sums
  <2> QED
    BY <2>4, <2>5, <2>6, <2>7
<1>7. Runs[e] = Runs[q + 1]
  <2>1. ASSUME NEW p \in q + 1 .. e - 1 PROVE Cells[p + 1] = <<>>
    <3>1. p \in 0 .. call.n - 1 /\ p \in Nat /\ q < p /\ p < e
      <4>1. p \in Nat /\ q < p /\ p < e
        BY <1>4
      <4>2. p < call.n
        BY <1>2, <1>4, <4>1
      <4> QED
        BY <1>2, <4>1, <4>2
    <3>2. p \notin Replaced
      <4>1. SUFFICES ASSUME p \in Replaced PROVE FALSE
        OBVIOUS
      <4>2. p \in Starts
        BY <4>1, ReplacedAreStarts
      <4> QED
        BY <1>1, <1>3, <1>4, <3>1, <4>2
    <3>3. Covers(q, p)
      BY <1>4, <3>1 DEF Covers
    <3>4. Cell(p) = <<>>
      BY <1>4, <3>2, <3>3 DEF Cell
    <3> QED
      BY <1>2, <3>1, <3>4
  <2>2. q + 1 \in 0 .. Len(Cells) /\ e \in q + 1 .. Len(Cells)
    BY <1>2, <1>4
  <2> QED
    BY <1>2, <2>1, <2>2, SumsNothing
<1>8. Runs[0] = <<>>
  BY <1>2 DEF Sums
<1> QED
  BY <1>3, <1>5, <1>6, <1>7, <1>8

\* The state has its type, and the pieces are letters of the subject.
StateInv ==
  /\ at \in 0 .. MaxSubject /\ count \in 0 .. MatchLimit /\ out \in Seq(Int)
  /\ pieces \in Seq(Seq(0 .. MaxSubject)) /\ live \subseteq {"subject", "region", "vs"}
  /\ phase = "split" => count <= at

\* The call has had no outcome but at its end, and then the one of the reference.
ResultInv ==
  /\ phase # "done" => outcome = "none"
  /\ phase = "idle" => out = <<>> /\ pieces = <<>>
  /\ SplitInv /\ ReplaceInv
  /\ phase \in {"done", "crashed"} /\ Regular =>
       /\ (call.kind = "split") => SplitIsReference
       /\ (call.kind = "replace") => ReplaceIsReference

\* What a match is replaced by is a text, however long its group numbers are.
LEMMA PlaceTyped ==
  ASSUME call \in Calls, call.kind = "replace", NEW q \in Int, Length(q) \in Int
  PROVE  ReplaceMatchedPlace(q) \in Seq(Int)
<1>1. PICK marks \in Seq(Tokens) : marks = call.tokens
  BY CallOfReplace
<1>2. PICK m \in Nat : m = Len(marks)
  OBVIOUS
<1>3. PICK s : s = [k \in DOMAIN marks |-> Characters(marks[k])]
  OBVIOUS
<1>4. s \in Seq(Seq(Int))
  <2>1. \A k \in 1 .. m : marks[k] \in Tokens
    BY <1>2
  <2>2. \A k \in 1 .. m : Characters(marks[k]) \in Seq(Int)
    BY <2>1, CharactersTyped
  <2>3. s \in [1 .. m -> Seq(Int)]
    BY <1>2, <1>3, <2>2
  <2> QED
    BY <2>3
<1>5. FlattenSeq(s) \in Seq(Int)
  <2>1. PICK P : Sums(P, s, Int) /\ FlattenSeq(s) = P[Len(s)]
    BY <1>4, Flattened
  <2>2. Len(s) \in 0 .. Len(s)
    BY <1>4
  <2> QED
    BY <2>1, <2>2 DEF Sums
<1>6. Text(call.tokens) \in Seq(Int)
  BY <1>1, <1>3, <1>5 DEF Text
<1>7. PICK W : Writes(W, Text(call.tokens), q) /\ ReplaceMatchedPlace(q) = W[0]
  BY <1>6, PlaceWrites DEF Length
<1>8. PICK text \in Seq(Int) : text = Text(call.tokens)
  BY <1>6
<1>9. 0 \in 0 .. Len(text) + 1
  OBVIOUS
<1> QED
  BY <1>7, <1>8, <1>9 DEF Writes

LEMMA LettersOfSubject ==
  ASSUME NEW from \in Nat, NEW end \in Nat, end <= MaxSubject, from <= end
  PROVE  Letters(from, end) \in Seq(0 .. MaxSubject)
<1>1. PICK s : s = Letters(from, end)
  OBVIOUS
<1>2. s \in Seq(Int) /\ Len(s) = (IF end > from THEN end - from ELSE 0)
      /\ \A i \in 1 .. end - from : s[i] = from + i - 1
  <2>1. from \in Int /\ end \in Int
    OBVIOUS
  <2> QED
    BY <1>1, <2>1, LettersAreNumbers
<1>3. PICK n \in Nat : n = end - from
  OBVIOUS
<1>4. Len(s) = n /\ \A i \in 1 .. n : s[i] = from + i - 1
  BY <1>2, <1>3
<1>5. \A i \in 1 .. n : s[i] \in 0 .. MaxSubject
  BY <1>3, <1>4, MatchingAssumption
<1>6. PICK T : T = 0 .. MaxSubject
  OBVIOUS
<1>7. s \in Seq(T)
  <2>1. s \in [1 .. n -> T]
    BY <1>2, <1>4, <1>5, <1>6
  <2> QED
    BY <1>3, <2>1
<1> QED
  BY <1>1, <1>6, <1>7

LEMMA StateStep == StateInv /\ SearchInv /\ BuffersInv /\ [MatchingNext]_matchingVars => StateInv'
<1> SUFFICES ASSUME StateInv, SearchInv, BuffersInv, [MatchingNext]_matchingVars PROVE StateInv'
  OBVIOUS
<1>1. /\ at \in 0 .. MaxSubject /\ count \in 0 .. MatchLimit /\ out \in Seq(Int)
      /\ pieces \in Seq(Seq(0 .. MaxSubject)) /\ live \subseteq {"subject", "region", "vs"}
  BY DEF StateInv
<1>2. MaxSubject \in Nat /\ MatchLimit \in Nat /\ MatchLimit > MaxSubject + 1
  BY MatchingAssumption
<1>3. <<>> \in Seq(Int) /\ <<>> \in Seq(Seq(0 .. MaxSubject))
  OBVIOUS
<1>4. ASSUME NEW s \in Seq(Int), NEW a \in Int, NEW b \in Int PROVE s \o Letters(a, b) \in Seq(Int)
  BY LettersAreNumbers, ConcatProperties
<1>5. CASE Begin
  BY <1>1, <1>2, <1>5 DEF Begin, BuffersInv, StateInv
<1>6. CASE SearchFails \/ Match
  <2>1. phase' = "done" /\ UNCHANGED <<at, count, out, pieces>>
    BY <1>6 DEF SearchFails, Match, Ends
  <2>2. live' \subseteq live
    BY <1>6 DEF SearchFails, Match, Frees
  <2> QED
    BY <1>1, <2>1, <2>2 DEF StateInv
<1>7. CASE ReplaceOne
  <2>1. phase = "replace" /\ call \in Calls /\ call.kind = "replace" /\ at \in 0 .. call.n
        /\ Matches(at) # {} /\ count < call.limit /\ pieces' = pieces
    BY <1>7 DEF ReplaceOne, SearchInv, BuffersInv
  <2>2. Place(at) \in Int /\ at \in Int /\ Length(Place(at)) \in Int
          /\ End(Place(at)) \in 0 .. call.n
        /\ call.n \in 0 .. MaxSubject
    BY <2>1, Found, KindsOfCalls
  <2>3. ReplaceMatchedPlace(Place(at)) \in Seq(Int)
    BY <2>1, <2>2, PlaceTyped
  <2>4. out' = out \o Letters(at, Place(at)) \o ReplaceMatchedPlace(Place(at))
    BY <1>7 DEF ReplaceOne
  <2>5. out' \in Seq(Int)
    <3>1. out \o Letters(at, Place(at)) \in Seq(Int)
      BY <1>1, <1>4, <2>2
    <3> QED
      BY <2>3, <2>4, <3>1, ConcatProperties
  <2>6. call.limit \in {1, MatchLimit}
    BY <2>1, CallOfReplace
  <2>7. CASE Broken(ReplaceMatchedPlace(Place(at)))
    <3>1. phase' \in {"done", "crashed"} /\ UNCHANGED <<count, at>> /\ live' \subseteq live
      BY <1>7, <2>7 DEF ReplaceOne, Ends, Crash, Frees
    <3> QED
      BY <1>1, <2>1, <2>5, <3>1 DEF StateInv
  <2>8. CASE ~Broken(ReplaceMatchedPlace(Place(at)))
    <3>1. phase' = phase /\ count' = count + 1 /\ at' = End(Place(at))
            /\ live' \subseteq live \union {"vs"}
      BY <1>7, <2>8 DEF ReplaceOne
    <3>2. count' \in 0 .. MatchLimit /\ at' \in 0 .. MaxSubject
      BY <1>1, <1>2, <2>1, <2>2, <2>6, <3>1
    <3> QED
      BY <1>1, <2>1, <2>5, <3>1, <3>2 DEF StateInv
  <2> QED
    BY <2>7, <2>8
<1>8. CASE ReplaceEnds
  <2>1. phase' \in {"done", "crashed"} /\ UNCHANGED <<at, count, pieces>> /\ live' \subseteq live
    BY <1>8 DEF ReplaceEnds, Ends, Crash, Frees
  <2>2. phase = "replace" /\ call \in Calls
    BY <1>8 DEF ReplaceEnds, SearchInv
  <2>3. call.n \in Int /\ at \in Int
    BY <1>1, <2>2, KindsOfCalls
  <2>4. out \o Letters(at, call.n) \in Seq(Int)
    BY <1>1, <1>4, <2>3
  <2>5. out' \in Seq(Int)
    BY <1>1, <1>8, <2>4 DEF ReplaceEnds
  <2> QED
    BY <1>1, <2>1, <2>5 DEF StateInv
<1>9. CASE SplitOne
  <2>1. phase = "split" /\ call \in Calls /\ at \in 0 .. call.n /\ Matches(at) # {} /\ out' = out
        /\ count <= at
    BY <1>9 DEF SplitOne, SearchInv, StateInv
  <2>2. /\ Place(at) \in at .. call.n /\ at \in Nat /\ call.n \in Nat /\ call.n <= MaxSubject
        /\ End(Place(at)) \in Place(at) .. call.n /\ Place(at) \in Nat
    BY <2>1, Found, KindsOfCalls, MatchingAssumption
  <2>3. CASE Place(at) = at
    <3>1. phase' = "crashed" /\ UNCHANGED <<live, at, pieces, count>>
      BY <1>9, <2>3 DEF SplitOne, Crash
    <3> QED
      BY <1>1, <2>1, <3>1 DEF StateInv
  <2>4. CASE Place(at) # at
    <3>1. pieces' = Append(pieces, Letters(at, Place(at))) /\ at' = End(Place(at))
            /\ count' = count + 1
          /\ phase' = phase /\ live' = live
      BY <1>9, <2>4 DEF SplitOne, AddSplitted
    <3>2. Letters(at, Place(at)) \in Seq(0 .. MaxSubject)
      BY <2>2, LettersOfSubject, MatchingAssumption
    <3>3. pieces' \in Seq(Seq(0 .. MaxSubject))
      BY <1>1, <3>1, <3>2
    <3>4. at' \in 0 .. MaxSubject /\ count' <= at' /\ count' \in 0 .. MatchLimit
      BY <1>1, <1>2, <2>1, <2>2, <2>4, <3>1
    <3> QED
      BY <1>1, <2>1, <3>1, <3>3, <3>4 DEF StateInv
  <2> QED
    BY <2>3, <2>4
<1>10. CASE SplitEnds
  <2>1. phase = "split" /\ call \in Calls /\ at \in 0 .. call.n /\ UNCHANGED <<at, count, out>>
    BY <1>10 DEF SplitEnds, SearchInv
  <2>2. at \in Nat /\ call.n \in Nat /\ call.n <= MaxSubject /\ at <= call.n
    BY <2>1, KindsOfCalls, MatchingAssumption
  <2>3. Letters(at, call.n) \in Seq(0 .. MaxSubject)
    BY <2>2, LettersOfSubject
  <2>4. phase' \in {"done", "crashed"} /\ live' \subseteq live
        /\ (pieces' = pieces \/ pieces' = Append(pieces, Letters(at, call.n)))
    BY <1>10 DEF SplitEnds, Ends, Crash, Frees, AddSplitted
  <2>5. pieces' \in Seq(Seq(0 .. MaxSubject))
    <3>1. PICK s \in Seq(Seq(0 .. MaxSubject)), x \in Seq(0 .. MaxSubject) :
            s = pieces /\ x = Letters(at, call.n)
      BY <1>1, <2>3
    <3>2. Append(s, x) \in Seq(Seq(0 .. MaxSubject))
      OBVIOUS
    <3> QED
      BY <2>4, <3>1, <3>2
  <2> QED
    BY <1>1, <2>1, <2>4, <2>5 DEF StateInv
<1>11. CASE Return
  BY <1>2, <1>3, <1>11 DEF Return, StateInv
<1>12. CASE Crashed \/ UNCHANGED matchingVars
  BY <1>12 DEF Crashed, matchingVars, StateInv
<1> QED
  BY <1>5, <1>6, <1>7, <1>8, <1>9, <1>10, <1>11, <1>12 DEF MatchingNext

-----------------------------------------------------------------------------
LEMMA FreshCall ==
  ASSUME call \in Calls, at = 0, count = 0, out = <<>>, pieces = <<>>, phase = call.kind
  PROVE  SplitInv /\ ReplaceInv
<1>1. Starts \in SUBSET Nat
  BY StartsFinite
<1>2. \A r \in Starts : ~(r < at)
  BY <1>1
<1>3. Boundary(at) /\ {r \in Starts : r < at} = {}
  BY <1>2 DEF Boundary
<1>4. count = Cardinality({r \in Starts : r < at})
  BY <1>3, FS_EmptySet
<1>5. SplitInv
  BY <1>3, <1>4, EmptySeq DEF SplitInv
<1>6. ReplaceInv
  <2>1. SUFFICES ASSUME phase = "replace" PROVE count <= call.limit
    BY <1>3 DEF ReplaceInv
  <2>2. call.limit \in {1, MatchLimit} /\ MatchLimit \in Nat
    BY <2>1, CallOfReplace, MatchingAssumption
  <2> QED
    BY <2>2
<1> QED
  BY <1>5, <1>6

LEMMA FreshCallReady ==
  call \in Calls /\ at = 0 /\ count = 0 /\ out = <<>> /\ pieces = <<>> /\ phase = call.kind
    => SplitInv /\ ReplaceInv
BY FreshCall

\* The reference text depends on the call alone.
LEMMA SameText ==
  ASSUME call' = call
  PROVE  Runs' = Runs /\ TokensSound' = TokensSound
<1>1. \A p : Cell(p)' = Cell(p)
  BY DEF Cell, Replaced, Starts, Covers, Length, Meaning
<1>2. Cells' = Cells
  BY <1>1 DEF Cells
<1>3. TokensSound' = TokensSound
  BY DEF TokensSound, NamesNoGroup
<1> QED
  BY <1>2, <1>3 DEF Runs

\* What is broken ends with a group that does not exist, which is a group of the replacement.
LEMMA BrokenNamesNoGroup ==
  ASSUME RegularReplace, NEW q \in Nat, Length(q) \in Nat
  PROVE  /\ Broken(ReplaceMatchedPlace(q)) <=> ~TokensSound
         /\ Broken(ReplaceMatchedPlace(q)) => Last(ReplaceMatchedPlace(q)) = NoSuchGroup
<1>1. /\ ReplaceMatchedPlace(q) \in Seq(Int)
      /\ ~TokensSound =>
              ReplaceMatchedPlace(q) # <<>> /\ Last(ReplaceMatchedPlace(q)) = NoSuchGroup
      /\ TokensSound => ReplaceMatchedPlace(q) \in Seq(Plain)
  BY PlaceReplaced DEF RegularReplace, TokensSound
<1>2. CASE ~TokensSound
  BY <1>1, <1>2 DEF Broken
<1>3. CASE TokensSound
  <2>1. PICK s \in Seq(Plain) : s = ReplaceMatchedPlace(q)
    BY <1>1, <1>3
  <2>2. s # <<>> => Last(s) \in Plain
    <3>1. s # <<>> => Len(s) \in 1 .. Len(s)
      BY EmptySeq
    <3>2. Len(s) \in 1 .. Len(s) => s[Len(s)] \in Plain
      BY ElementOfSeq
    <3> QED
      BY <3>1, <3>2 DEF Last
  <2>3. Plain \intersect {NoSuchGroup, Overrun} = {}
    BY DEF Plain, NoSuchGroup, Overrun, Letter, Backslash
  <2>4. ~Broken(s)
    BY <2>2, <2>3 DEF Broken
  <2> QED
    BY <1>3, <2>1, <2>4
<1> QED
  BY <1>2, <1>3

LEMMA ReplaceOneResult ==
  ASSUME ResultInv, SearchInv, BuffersInv, ReplaceOne
  PROVE  ResultInv'
<1>1. phase = "replace" /\ call \in Calls /\ call.kind = "replace" /\ at \in 0 .. call.n
      /\ Matches(at) # {} /\ count < call.limit /\ count \in Nat /\ call' = call /\ outcome = "none"
  BY DEF ReplaceOne, SearchInv, BuffersInv, ResultInv
<1>2. /\ Starts' = Starts /\ Regular' = Regular
      /\ Replaced' = Replaced /\ ReplacedText' = ReplacedText
      /\ \A p : Length(p)' = Length(p)
      /\ \A t : NamesNoGroup(t)' = NamesNoGroup(t)
  BY <1>1, SameReference
<1>3. phase' \in {"replace", "done", "crashed"} /\ (phase' # "done" => outcome' = "none")
  BY <1>1 DEF ReplaceOne, Ends, Crash
<1>4. SplitInv'
  BY <1>3 DEF SplitInv
<1>5. CASE ~Regular
  BY <1>1, <1>2, <1>3, <1>4, <1>5 DEF ResultInv, ReplaceInv
<1>6. CASE Regular
  <2>1. RegularReplace
    BY <1>1, <1>6 DEF RegularReplace, Regular
  <2>2. /\ Boundary(at) /\ count <= call.limit
        /\ count = 0 => at = 0 /\ out = <<>>
        /\ count # 0 => Starts # {} /\ TokensSound /\ out = Runs[at]
    BY <1>1, <1>6 DEF ResultInv, ReplaceInv
  <2>3. /\ Place(at) \in Starts /\ Place(at) \in at .. call.n - 1 /\ Length(Place(at)) \in Nat
        /\ End(Place(at)) = Place(at) + Length(Place(at))
        /\ End(Place(at)) \in Place(at) + 1 .. call.n
        /\ Boundary(End(Place(at)))
    BY <1>1, <2>1, <2>2, NextStart DEF RegularReplace
  <2>4. Place(at) \in Nat /\ call.n \in Nat
    BY <1>1, <2>3, KindsOfCalls, MatchingAssumption
  <2>5. PICK text : text = ReplaceMatchedPlace(Place(at))
    OBVIOUS
  <2>6. (Broken(text) <=> ~TokensSound) /\ (Broken(text) => Last(text) = NoSuchGroup)
    BY <2>1, <2>3, <2>4, <2>5, BrokenNamesNoGroup
  <2>7. CASE Broken(text)
    <3>1. NoSuchGroup # Overrun
      BY DEF NoSuchGroup, Overrun
    <3>2. phase' = "done" /\ outcome' = "NO_SUCH_GROUP_INDEX"
      BY <2>5, <2>6, <2>7, <3>1 DEF ReplaceOne, Ends
    <3>3. \E k \in DOMAIN call.tokens : NamesNoGroup(call.tokens[k])
      BY <2>6, <2>7 DEF TokensSound
    <3>4. ReplaceIsReference'
      <4>1. (\E k \in DOMAIN call.tokens : NamesNoGroup(call.tokens[k]))'
        BY <1>1, <1>2, <3>3
      <4>2. Starts' # {}
        BY <1>2, <2>3
      <4> QED
        BY <3>2, <4>1, <4>2 DEF ReplaceIsReference
    <3>5. ReplaceInv'
      BY <3>2 DEF ReplaceInv
    <3> QED
      BY <1>1, <1>4, <3>2, <3>4, <3>5 DEF ResultInv
  <2>8. CASE ~Broken(text)
    <3>1. phase' = "replace" /\ count' = count + 1 /\ at' = End(Place(at)) /\ outcome' = "none"
          /\ out' = (out \o Letters(at, Place(at))) \o text
      BY <1>1, <2>5, <2>8 DEF ReplaceOne
    <3>2. TokensSound
      BY <2>6, <2>8
    <3>3. /\ Runs[End(Place(at))] = (Runs[at] \o Letters(at, Place(at))) \o text
          /\ Runs[0] = <<>>
      BY <1>1, <2>1, <2>2, <2>5, <3>2, MatchReplaced
    <3>4. out = Runs[at]
      BY <2>2, <3>3
    <3>5. out' = Runs[at']
      BY <3>1, <3>3, <3>4
    <3>6. Place(at) \in Replaced /\ (call.limit = 1 => Replaced = {Place(at)})
      BY <1>1, <2>1, <2>2, NextIsReplaced
    <3>7. call.limit = 1 => \A r \in Replaced : r < at'
      BY <2>3, <2>4, <3>1, <3>6
    <3>8. count' <= call.limit /\ count' # 0
      <4>1. call.limit \in Nat
        BY <2>1, LimitOfCall
      <4> QED
        BY <1>1, <3>1, <4>1
    <3>9. Boundary(at)'
      BY <1>2, <2>3, <3>1 DEF Boundary
    <3>10. TokensSound'
      BY <1>1, <1>2, <3>2 DEF TokensSound
    <3>11. Runs' = Runs
      BY <1>1, SameText
    <3>12. (Runs[at])' = Runs[at']
      BY <3>11
    <3>13. ReplaceInv'
      BY <1>1, <1>2, <2>3, <3>5, <3>7, <3>8, <3>9, <3>10, <3>12 DEF ReplaceInv
    <3> QED
      BY <1>4, <3>1, <3>13 DEF ResultInv
  <2> QED
    BY <2>7, <2>8
<1> QED
  BY <1>5, <1>6

LEMMA ReplaceEndsResult ==
  ASSUME ResultInv, SearchInv, BuffersInv, ReplaceEnds
  PROVE  ResultInv'
<1>1. phase = "replace" /\ call \in Calls /\ call.kind = "replace" /\ at \in 0 .. call.n
      /\ (count = call.limit \/ Matches(at) = {}) /\ count \in Nat /\ call' = call
      /\ outcome = "none"
  BY DEF ReplaceEnds, SearchInv, BuffersInv, ResultInv
<1>2. /\ Starts' = Starts /\ Regular' = Regular
      /\ Replaced' = Replaced /\ ReplacedText' = ReplacedText
      /\ \A t : NamesNoGroup(t)' = NamesNoGroup(t)
  BY <1>1, SameReference
<1>3. phase' \in {"done", "crashed"} /\ (phase' # "done" => outcome' = "none")
  BY <1>1 DEF ReplaceEnds, Ends, Crash
<1>4. SplitInv' /\ ReplaceInv'
  BY <1>3 DEF SplitInv, ReplaceInv
<1>5. CASE ~Regular
  BY <1>1, <1>2, <1>3, <1>4, <1>5 DEF ResultInv
<1>6. CASE Regular
  <2>1. RegularReplace
    BY <1>1, <1>6 DEF RegularReplace, Regular
  <2>2. /\ Boundary(at) /\ count <= call.limit
        /\ count = 0 => at = 0 /\ out = <<>>
        /\ count # 0 => Starts # {} /\ TokensSound /\ out = Runs[at]
        /\ count # 0 /\ call.limit = 1 => \A r \in Replaced : r < at
    BY <1>1, <1>6 DEF ResultInv, ReplaceInv
  <2>3. call.limit \in {1, MatchLimit} /\ MatchLimit \in Nat /\ MatchLimit > call.n
          /\ MatchLimit > 1
        /\ call.n \in Nat /\ at \in Nat /\ at <= call.n
    BY <1>1, <2>1, LimitOfCall, KindsOfCalls, MatchingAssumption
  <2>4. count <= at
    BY <1>1, <1>6 DEF SearchInv, Advances
  <2>5. call.limit # 1 => Matches(at) = {}
    BY <1>1, <2>3, <2>4
  <2>6. CASE count = 0
    <3>1. phase' = "done" /\ outcome' = "subject"
      BY <2>6 DEF ReplaceEnds, Ends
    <3>2. Matches(at) = {} /\ at = 0
      BY <1>1, <2>2, <2>3, <2>6
    <3>3. Starts = {}
      <4>1. \A r \in Starts : r < at /\ r \in Nat
        BY <1>1, <3>2, NoMoreStarts, StartsFinite
      <4> QED
        BY <3>2, <4>1
    <3>4. ReplaceIsReference'
      BY <1>2, <3>1, <3>3 DEF ReplaceIsReference
    <3> QED
      BY <1>1, <1>4, <3>1, <3>4 DEF ResultInv
  <2>7. CASE count # 0
    <3>1. TokensSound /\ out = Runs[at]
      BY <2>2, <2>7
    <3>2. ASSUME NEW r \in Replaced PROVE r < at
      <4>1. CASE call.limit = 1
        BY <2>2, <2>7, <4>1
      <4>2. CASE call.limit # 1
        <5>1. r \in Starts
          BY <2>1, ReplacedAreStarts
        <5> QED
          BY <1>1, <2>5, <4>2, <5>1, NoMoreStarts
      <4> QED
        BY <4>1, <4>2
    <3>3. call.n \in at .. call.n
      BY <2>3
    <3>4. Runs[call.n] = Runs[at] \o Letters(at, call.n)
      BY <1>1, <2>1, <2>2, <3>1, <3>2, <3>3, LettersStay
    <3>5. out' = ReplacedText
      <4>1. ReplacedText = Runs[call.n]
        BY <2>1, <3>1, RunsAre
      <4>2. out' = out \o Letters(at, call.n)
        BY <2>7 DEF ReplaceEnds
      <4> QED
        BY <3>1, <3>4, <4>1, <4>2
    <3>6. \A k \in DOMAIN call.tokens : ~NamesNoGroup(call.tokens[k])
      BY <3>1 DEF TokensSound
    <3>7. (\A k \in DOMAIN call.tokens : ~NamesNoGroup(call.tokens[k]))'
      BY <1>1, <1>2, <3>6
    <3>8. \/ phase' = "crashed" /\ outcome' = "none" /\ out' = <<>>
          \/ phase' = "done" /\ outcome' = "string"
      BY <1>1, <2>7 DEF ReplaceEnds, Ends, Crash
    <3>9. ReplaceIsReference'
      BY <1>2, <3>5, <3>7, <3>8 DEF ReplaceIsReference
    <3> QED
      BY <1>1, <1>3, <1>4, <3>9 DEF ResultInv
  <2> QED
    BY <2>6, <2>7
<1> QED
  BY <1>5, <1>6

LEMMA PiecesAreNumbers ==
  ASSUME StateInv
  PROVE  pieces \in Seq(Seq(Int))
<1>1. MaxSubject \in Nat
  BY MatchingAssumption
<1>2. 0 .. MaxSubject \subseteq Int
  OBVIOUS
<1>3. Seq(0 .. MaxSubject) \subseteq Seq(Int)
  BY <1>2, SeqMonotonic
<1>4. pieces \in Seq(Seq(0 .. MaxSubject))
  BY DEF StateInv
<1> QED
  BY <1>3, <1>4, SeqMonotonic

LEMMA SplitResult ==
  ASSUME ResultInv, StateInv, SearchInv, BuffersInv, SplitOne \/ SplitEnds
  PROVE  ResultInv'
<1>1. phase = "split" /\ call \in Calls /\ call.kind = "split" /\ at \in 0 .. call.n
      /\ call' = call /\ outcome = "none" /\ SplitInv
  BY DEF SplitOne, SplitEnds, SearchInv, BuffersInv, ResultInv
<1>2. pieces \in Seq(Seq(Int))
  BY PiecesAreNumbers
<1>3. Regular' = Regular /\ SplittedPieces' = SplittedPieces
  BY <1>1, SameReference
<1>4. phase' \in {"split", "done", "crashed"} /\ (phase' # "done" => outcome' = "none")
  BY <1>1 DEF SplitOne, SplitEnds, Ends, Crash
<1>5. ReplaceInv'
  BY <1>4 DEF ReplaceInv
<1>6. CASE ~Regular
  BY <1>1, <1>3, <1>4, <1>5, <1>6 DEF ResultInv, SplitInv
<1>7. CASE Regular /\ SplitOne /\ Place(at) # at
  <2>1. pieces' = Append(pieces, Letters(at, Place(at))) /\ at' = End(Place(at))
          /\ count' = count + 1
        /\ phase' = phase /\ Matches(at) # {}
    BY <1>7 DEF SplitOne, AddSplitted
  <2>2. SplitInv'
    BY <1>1, <1>2, <1>7, <2>1, SplitMore
  <2> QED
    BY <1>1, <1>4, <1>5, <2>1, <2>2 DEF ResultInv
<1>8. CASE Regular /\ ((SplitOne /\ Place(at) = at) \/ (SplitEnds /\ at = call.n))
  <2>1. /\ phase' = "crashed"
        /\ (Matches(at) # {} /\ Place(at) = at) \/ (Matches(at) = {} /\ at = call.n)
    BY <1>8 DEF SplitOne, SplitEnds, Crash
  <2>2. \E k \in DOMAIN SplittedPieces : SplittedPieces[k] = <<>>
    BY <1>1, <1>8, <2>1, SplitBreaks
  <2>3. SplitIsReference'
    BY <1>3, <1>4, <2>1, <2>2 DEF SplitIsReference
  <2>4. SplitInv'
    BY <2>1 DEF SplitInv
  <2> QED
    BY <1>1, <1>4, <1>5, <2>1, <2>3, <2>4 DEF ResultInv
<1>9. CASE Regular /\ SplitEnds /\ at # call.n
  <2>1. phase' = "done" /\ outcome' = "array" /\ pieces' = Append(pieces, Letters(at, call.n))
        /\ Matches(at) = {}
    BY <1>9 DEF SplitEnds, Ends, AddSplitted
  <2>2. pieces' = SplittedPieces /\ ~\E k \in DOMAIN SplittedPieces : SplittedPieces[k] = <<>>
    BY <1>1, <1>2, <1>9, <2>1, SplitDone
  <2>3. SplitIsReference'
    BY <1>3, <2>1, <2>2 DEF SplitIsReference
  <2>4. SplitInv'
    BY <2>1 DEF SplitInv
  <2> QED
    BY <1>1, <1>4, <1>5, <2>1, <2>3, <2>4 DEF ResultInv
<1> QED
  BY <1>6, <1>7, <1>8, <1>9

LEMMA ResultStep ==
  ResultInv /\ StateInv /\ SearchInv /\ BuffersInv /\ [MatchingNext]_matchingVars
    /\ SearchInv' => ResultInv'
<1> SUFFICES ASSUME ResultInv, StateInv, SearchInv, BuffersInv, [MatchingNext]_matchingVars,
      SearchInv'
             PROVE  ResultInv'
  OBVIOUS
<1>1. CASE Begin
  <2>1. call' \in Calls /\ at' = 0 /\ count' = 0 /\ out' = <<>> /\ pieces' = <<>>
          /\ phase' = call'.kind
        /\ outcome' = "none"
    BY <1>1 DEF Begin, BuffersInv, ResultInv
  <2>2. (call \in Calls /\ at = 0 /\ count = 0 /\ out = <<>> /\ pieces = <<>> /\ phase = call.kind
           => SplitInv /\ ReplaceInv)'
    BY FreshCallReady, PTL
  <2>3. phase' \in {"match", "replace", "split"}
    BY <2>1, KindsOfCalls
  <2> QED
    BY <2>1, <2>2, <2>3 DEF ResultInv
<1>2. CASE SearchFails
  <2>1. phase' = "done" /\ outcome' = "ONIG_SEARCH_FAIL"
    BY <1>2 DEF SearchFails, Ends
  <2> QED
    BY <2>1 DEF ResultInv, SplitInv, ReplaceInv, SplitIsReference, ReplaceIsReference
<1>3. CASE Match
  <2>1. phase' = "done" /\ call'.kind = "match"
    BY <1>3 DEF Match, Ends, BuffersInv
  <2> QED
    BY <2>1 DEF ResultInv, SplitInv, ReplaceInv
<1>4. CASE ReplaceOne
  BY <1>4, ReplaceOneResult
<1>5. CASE ReplaceEnds
  BY <1>5, ReplaceEndsResult
<1>6. CASE SplitOne \/ SplitEnds
  BY <1>6, SplitResult
<1>7. CASE Return
  BY <1>7 DEF Return, ResultInv, SplitInv, ReplaceInv
<1>8. CASE Crashed \/ UNCHANGED matchingVars
  <2>1. UNCHANGED matchingVars
    BY <1>8 DEF Crashed
  <2>2. call' = call /\ phase' = phase /\ at' = at /\ count' = count /\ out' = out
          /\ pieces' = pieces
        /\ outcome' = outcome
    BY <2>1 DEF matchingVars
  <2>3. /\ Starts' = Starts /\ Regular' = Regular /\ SplittedPieces' = SplittedPieces
        /\ Replaced' = Replaced /\ ReplacedText' = ReplacedText /\ Runs' = Runs
        /\ TokensSound' = TokensSound
        /\ \A p : Length(p)' = Length(p)
        /\ \A k : Cut(k)' = Cut(k)
        /\ \A t : NamesNoGroup(t)' = NamesNoGroup(t)
    BY <2>2, SameReference, SameText
  <2>4. Boundary(at)' = Boundary(at)
    BY <2>2, <2>3 DEF Boundary
  <2>5. SplitInv' /\ ReplaceInv'
    <3>1. SplitInv /\ ReplaceInv
      BY DEF ResultInv
    <3>2. SplitInv'
      BY <2>2, <2>3, <2>4, <3>1 DEF SplitInv
    <3>3. ReplaceInv'
      BY <2>2, <2>3, <2>4, <3>1 DEF ReplaceInv
    <3> QED
      BY <3>2, <3>3
  <2>6. SplitIsReference' = SplitIsReference
    BY <2>2, <2>3 DEF SplitIsReference
  <2>7. ReplaceIsReference' = ReplaceIsReference
    BY <2>2, <2>3 DEF ReplaceIsReference
  <2> QED
    BY <2>2, <2>3, <2>5, <2>6, <2>7 DEF ResultInv
<1> QED
  BY <1>1, <1>2, <1>3, <1>4, <1>5, <1>6, <1>7, <1>8 DEF MatchingNext

LEMMA MatchingStates == MatchingSpec => []MatchingTypeOK /\ []ResultIsReference
<1>1. MatchingInit => StateInv /\ ResultInv
  <2>1. SUFFICES ASSUME MatchingInit PROVE StateInv /\ ResultInv
    OBVIOUS
  <2>2. <<>> \in Seq(Int) /\ <<>> \in Seq(Seq(0 .. MaxSubject)) /\ 0 \in 0 .. MaxSubject
        /\ 0 \in 0 .. MatchLimit
    BY MatchingAssumption
  <2> QED
    BY <2>1, <2>2 DEF MatchingInit, StateInv, ResultInv, SplitInv, ReplaceInv
<1>2. StateInv /\ ResultInv /\ BuffersInv /\ SearchInv /\ SearchInv' /\ [MatchingNext]_matchingVars
        => (StateInv /\ ResultInv)'
  BY StateStep, ResultStep
<1>3. StateInv /\ BuffersInv => MatchingTypeOK
  <2>1. SUFFICES ASSUME StateInv, BuffersInv PROVE MatchingTypeOK
    OBVIOUS
  <2>2. pieces \in Seq(Seq(0 .. MaxSubject))
    BY <2>1 DEF StateInv
  <2>3. \A k \in DOMAIN pieces : pieces[k] \in Seq(0 .. MaxSubject)
    BY <2>2
  <2> QED
    BY <2>1, <2>3 DEF StateInv, BuffersInv, MatchingTypeOK
<1>4. ResultInv /\ SearchInv => ResultIsReference
  BY DEF ResultInv, SearchInv, ResultIsReference
<1> QED
  BY <1>1, <1>2, <1>3, <1>4, MatchingInvariance, PTL DEF MatchingSpec

\* The types of the calls (Matching): the place of the search lies within the subject, the count
\* within the limit, and the result and the pieces are texts.
THEOREM MatchingTypes == MatchingSpec => []MatchingTypeOK
BY MatchingStates

\* reg_replace, reg_replace_all and reg_split (regexp.c:359-530) give what the matches from left to
\* right define, for every subject, expression and replacement: ResultIsReference.
THEOREM ReplacementsAndPiecesAreTheReference == MatchingSpec => []ResultIsReference
BY MatchingStates

-----------------------------------------------------------------------------
(* The string literal buffer (Scanner).                                    *)

LiteralInv ==
  /\ \E S : literal \in Seq(S)
  /\ alloc \in Nat
  /\ LiteralFits

LEMMA Adding ==
  ASSUME LiteralInv, NEW c, AddStringLiteral(c)
  PROVE  LiteralInv'
<1>1. PICK S : literal \in Seq(S)
  BY DEF LiteralInv
<1>2. literal \in Seq(S \union {c})
  BY <1>1, SeqMonotonic, S \subseteq S \union {c}
<1>3. literal' \in Seq(S \union {c}) /\ Len(literal') = Len(literal) + 1 /\ Len(literal) \in Nat
  BY <1>2, AppendProperties, LenProperties DEF AddStringLiteral
<1>4. alloc' \in Nat /\ Len(literal') <= alloc'
  BY <1>3, ScannerAssumption DEF LiteralInv, LiteralFits, AddStringLiteral
<1> QED
  BY <1>3, <1>4 DEF LiteralInv, LiteralFits

LEMMA Opening ==
  ASSUME literal' = <<>>, alloc' \in Nat
  PROVE  LiteralInv'
<1>1. literal' \in Seq({}) /\ Len(literal') = 0
  OBVIOUS
<1> QED
  BY <1>1 DEF LiteralInv, LiteralFits

LEMMA LiteralStep == LiteralInv /\ [ScannerNext]_scannerVars => LiteralInv'
<1> SUFFICES ASSUME LiteralInv, [ScannerNext]_scannerVars PROVE LiteralInv'
  OBVIOUS
<1>0. ASSUME UNCHANGED buffer PROVE LiteralInv'
  BY <1>0 DEF buffer, LiteralInv, LiteralFits
<1>1. CASE BeginCompile \/ YyInput \/ CompileEnds \/ Exited \/ Shift \/ ParseError
  <2>1. UNCHANGED buffer
    BY <1>1 DEF BeginCompile, YyInput, CompileEnds, Exited, Shift, ParseError, scannerVars
  <2> QED
    BY <1>0, <2>1
<1>2. CASE Accept \/ FoldingRaises
  <2>1. literal' = <<>> /\ alloc' = 0
    BY <1>2 DEF Accept, FoldingRaises, Finishes
  <2> QED
    BY <2>1, Opening
<1>3. CASE ScanIdentifier \/ ScanOperator \/ Blank \/ InvalidCharacter \/ OpenComment \/ InComment
           \/ ModMod \/ NewlineInRegexp
  <2>1. UNCHANGED buffer
    BY <1>3 DEF ScanIdentifier, ScanOperator, Blank, InvalidCharacter, OpenComment, InComment,
                ModMod, NewlineInRegexp, Exits
  <2> QED
    BY <1>0, <2>1
<1>4. CASE OpenString \/ OpenRegexp
  <2>1. literal' = <<>> /\ alloc' = alloc
    BY <1>4 DEF OpenString, OpenRegexp, OpenStringLiteral
  <2> QED
    BY <2>1, Opening DEF LiteralInv
<1>5. CASE EscapeInString \/ CharacterInString \/ CharacterInRegexp
  BY <1>5, Adding DEF EscapeInString, CharacterInString, CharacterInRegexp
<1>6. CASE SecondByte
  <2>1. UNCHANGED buffer \/ AddStringLiteral(rest[1])
    BY <1>6 DEF SecondByte
  <2> QED
    BY <1>0, <2>1, Adding
<1>7. CASE CloseString \/ CloseRegexp
  <2>1. UNCHANGED buffer \/ AddStringLiteral("nul")
    BY <1>7 DEF CloseString, CloseRegexp, ClosesLiteral, Exits
  <2> QED
    BY <1>0, <2>1, Adding
<1>8. CASE UNCHANGED scannerVars
  BY <1>0, <1>8 DEF scannerVars
<1> QED
  BY <1>1, <1>2, <1>3, <1>4, <1>5, <1>6, <1>7, <1>8 DEF ScannerNext

\* However long a literal is and however the compilations end, the buffer has room for each
\* character that is added, the one that ends the literal included.
THEOREM LiteralsFit == ScannerSpec => []LiteralFits
<1>1. ScannerInit => LiteralInv
  <2> SUFFICES ASSUME ScannerInit PROVE LiteralInv
    OBVIOUS
  <2>1. literal \in Seq({}) /\ Len(literal) = 0 /\ alloc = 0
    BY DEF ScannerInit
  <2> QED
    BY <2>1 DEF LiteralInv, LiteralFits
<1>2. LiteralInv => LiteralFits
  BY DEF LiteralInv
<1> QED
  BY <1>1, <1>2, LiteralStep, PTL DEF ScannerSpec

-----------------------------------------------------------------------------
\* What FlattenSeq does with one and with two sequences
LEMMA FlattenOne ==
  ASSUME NEW S, NEW a \in Seq(S), NEW s, s = <<a>>
  PROVE  FlattenSeq(s) = a
<1>1. s \in Seq(Seq(S)) /\ Len(s) = 1 /\ s[1] = a
  OBVIOUS
<1>2. PICK P : Sums(P, s, S) /\ FlattenSeq(s) = P[Len(s)]
  BY <1>1, Flattened
<1>3. P[1] = P[0] \o s[1] /\ P[0] = <<>>
  <2>1. P[0] = <<>> /\ \A k \in 1 .. Len(s) : P[k] = P[k - 1] \o s[k]
    BY <1>2, Zenon DEF Sums
  <2>2. 1 \in 1 .. Len(s) /\ 1 - 1 = 0
    BY <1>1
  <2> QED
    BY <2>1, <2>2
<1>4. <<>> \o a = a
  BY ConcatEmptySeq
<1> QED
  BY <1>1, <1>2, <1>3, <1>4

LEMMA FlattenTwo ==
  ASSUME NEW S, NEW a \in Seq(S), NEW b \in Seq(S), NEW s, s = <<a, b>>
  PROVE  FlattenSeq(s) = a \o b
<1>1. s \in Seq(Seq(S)) /\ Len(s) = 2 /\ s[1] = a /\ s[2] = b
  OBVIOUS
<1>2. PICK P : Sums(P, s, S) /\ FlattenSeq(s) = P[Len(s)]
  BY <1>1, Flattened
<1>3. P[2] = P[1] \o s[2] /\ P[1] = P[0] \o s[1] /\ P[0] = <<>>
  <2>1. P[0] = <<>> /\ \A k \in 1 .. Len(s) : P[k] = P[k - 1] \o s[k]
    BY <1>2, Zenon DEF Sums
  <2>2. 1 \in 1 .. Len(s) /\ 1 - 1 = 0 /\ 2 \in 1 .. Len(s) /\ 2 - 1 = 1
    BY <1>1
  <2> QED
    BY <2>1, <2>2
<1>4. <<>> \o a = a
  BY ConcatEmptySeq
<1> QED
  BY <1>1, <1>2, <1>3, <1>4

-----------------------------------------------------------------------------
BufferedLetters == CharacterKinds \union {"nul"}

\* An item is a plain character, an escape, a backslash that is none, or two bytes.
PlainItem(x) == x.chars = x.reads /\ Len(x.chars) = 1 /\ x.chars[1] \in {"n", "hash", "nl"}
EscapeItem(x) ==
  /\ Len(x.chars) = 2 /\ x.chars[1] = "bs" /\ x.chars[2] \in {"quote", "n", "bs"}
  /\ x.reads = <<Escapes[x.chars[2]]>>
LoneItem(x) == Len(x.chars) = 2 /\ x.chars[1] = "bs" /\ x.chars[2] = "semi" /\ x.reads = x.chars
TwoByteItem(x) ==
  /\ Len(x.chars) = 2 /\ x.chars[1] = "lead" /\ x.chars[2] \in {"bs", "quote"}
  /\ x.reads = x.chars /\ SourceEncoding = "SHIFT_JIS"
ItemIs(x) ==
  /\ x.chars \in Seq(CharacterKinds) /\ x.reads \in Seq(CharacterKinds)
  /\ PlainItem(x) \/ EscapeItem(x) \/ LoneItem(x) \/ TwoByteItem(x)

LEMMA Items == ASSUME NEW x \in StringItems PROVE ItemIs(x)
<1>1. CASE x \in {[chars |-> <<c>>, reads |-> <<c>>] : c \in {"n", "hash", "nl"}}
  <2>1. PICK c \in {"n", "hash", "nl"} : x = [chars |-> <<c>>, reads |-> <<c>>]
    BY <1>1
  <2>2. c \in CharacterKinds
    BY DEF CharacterKinds
  <2>3. x.chars = <<c>> /\ x.reads = <<c>>
    BY <2>1
  <2> QED
    BY <2>2, <2>3 DEF ItemIs, PlainItem
<1>2. CASE x = [chars |-> <<"bs", "quote">>, reads |-> <<"quote">>]
  BY <1>2 DEF ItemIs, PlainItem, EscapeItem, LoneItem, TwoByteItem, CharacterKinds, Escapes
<1>3. CASE x = [chars |-> <<"bs", "n">>, reads |-> <<"nl">>]
  BY <1>3 DEF ItemIs, PlainItem, EscapeItem, LoneItem, TwoByteItem, CharacterKinds, Escapes
<1>4. CASE x = [chars |-> <<"bs", "bs">>, reads |-> <<"bs">>]
  BY <1>4 DEF ItemIs, PlainItem, EscapeItem, LoneItem, TwoByteItem, CharacterKinds, Escapes
<1>5. CASE x = [chars |-> <<"bs", "semi">>, reads |-> <<"bs", "semi">>]
  BY <1>5 DEF ItemIs, PlainItem, EscapeItem, LoneItem, TwoByteItem, CharacterKinds
<1>6. CASE /\ SourceEncoding = "SHIFT_JIS"
           /\ x \in {[chars |-> <<"lead", c>>, reads |-> <<"lead", c>>] : c \in {"bs", "quote"}}
  <2>1. PICK c \in {"bs", "quote"} : x = [chars |-> <<"lead", c>>, reads |-> <<"lead", c>>]
    BY <1>6
  <2>2. c \in CharacterKinds /\ "lead" \in CharacterKinds
    BY DEF CharacterKinds
  <2>3. x.chars = <<"lead", c>> /\ x.reads = <<"lead", c>>
    BY <2>1
  <2> QED
    BY <1>6, <2>2, <2>3 DEF ItemIs, TwoByteItem
<1>7. \/ x \in {[chars |-> <<c>>, reads |-> <<c>>] : c \in {"n", "hash", "nl"}}
      \/ x = [chars |-> <<"bs", "quote">>, reads |-> <<"quote">>]
      \/ x = [chars |-> <<"bs", "n">>, reads |-> <<"nl">>]
      \/ x = [chars |-> <<"bs", "bs">>, reads |-> <<"bs">>]
      \/ x = [chars |-> <<"bs", "semi">>, reads |-> <<"bs", "semi">>]
      \/ /\ SourceEncoding = "SHIFT_JIS"
         /\ x \in {[chars |-> <<"lead", c>>, reads |-> <<"lead", c>>] : c \in {"bs", "quote"}}
  BY Zenon DEF StringItems
<1> QED
  BY <1>1, <1>2, <1>3, <1>4, <1>5, <1>6, <1>7

\* A literal in quotes: its items s, and what the first of them are in what is written and in what
\* is read
Spelt(l, s, P, R) ==
  /\ s \in Seq(StringItems)
  /\ Sums(P, [k \in DOMAIN s |-> s[k].chars], CharacterKinds)
  /\ Sums(R, [k \in DOMAIN s |-> s[k].reads], CharacterKinds)
  /\ l.chars = <<"quote">> \o P[Len(s)] \o <<"quote">>
  /\ l.means = <<Token("STRING", R[Len(s)])>> /\ l.whole = TRUE

LEMMA InSeq == ASSUME NEW S, NEW k \in Nat, NEW s \in SeqsUpTo(S, k) PROVE s \in Seq(S)
<1>1. PICK j \in 0 .. k : s \in [1 .. j -> S]
  BY DEF SeqsUpTo
<1> QED
  BY <1>1

LEMMA StringsAre ==
  ASSUME NEW k \in Nat, NEW l \in Strings(k)
  PROVE  \E s, P, R : Spelt(l, s, P, R)
<1>1. PICK s \in SeqsUpTo(StringItems, k) :
        l = Lexeme(<<"quote">> \o CharsOf(s) \o <<"quote">>, <<Token("STRING", ReadsOf(s))>>, TRUE)
  BY DEF Strings
<1>2. s \in Seq(StringItems)
  BY InSeq
<1> DEFINE C == [i \in DOMAIN s |-> s[i].chars]
           D == [i \in DOMAIN s |-> s[i].reads]
<1>3. C \in Seq(Seq(CharacterKinds)) /\ D \in Seq(Seq(CharacterKinds))
      /\ Len(C) = Len(s) /\ Len(D) = Len(s)
  <2>1. \A i \in DOMAIN s : s[i] \in StringItems
    BY <1>2
  <2>2. \A i \in DOMAIN s : s[i].chars \in Seq(CharacterKinds) /\ s[i].reads \in Seq(CharacterKinds)
    BY <2>1, Items DEF ItemIs
  <2>3. DOMAIN s = 1 .. Len(s) /\ Len(s) \in Nat
    BY <1>2
  <2> QED
    BY <2>2, <2>3
<1>4. CharsOf(s) = FlattenSeq(C) /\ ReadsOf(s) = FlattenSeq(D)
  BY DEF CharsOf, ReadsOf, Concat
<1> HIDE DEF C, D
<1>5. PICK P : Sums(P, C, CharacterKinds) /\ FlattenSeq(C) = P[Len(C)]
  BY <1>3, Flattened
<1>6. PICK R : Sums(R, D, CharacterKinds) /\ FlattenSeq(D) = R[Len(D)]
  BY <1>3, Flattened
<1>7. Spelt(l, s, P, R)
  BY <1>1, <1>2, <1>3, <1>4, <1>5, <1>6 DEF Spelt, Lexeme, C, D
<1> QED
  BY <1>7

\* A regular expression between two delimiters, and a comment
Delimited(l, d, s) ==
  /\ d \in {"bang", "quote"} /\ s \in Seq({"n", "bs", "hash", "quote", "bang"} \ {d})
  /\ l.chars = <<"pr", d>> \o s \o <<d>> /\ l.means = <<Token("REGEXP", s)>> /\ l.whole = TRUE
Commented(l, s) ==
  /\ s \in Seq({"quote", "pr", "hash"})
  /\ l.chars = <<"hash">> \o s \o <<"nl">> /\ l.means = <<>> /\ l.whole = TRUE

LexemeIs(l) ==
  \/ \E s, P, R : Spelt(l, s, P, R)
  \/ \E d, s : Delimited(l, d, s)
  \/ \E s : Commented(l, s)
  \/ l \in Simple
  \/ l \in Unfinished

LEMMA LexemesAre ==
  ASSUME NEW k \in Nat, NEW l \in Lexemes(k)
  PROVE  LexemeIs(l)
<1>1. CASE l \in Strings(k)
  BY <1>1, StringsAre DEF LexemeIs
<1>2. ASSUME NEW d \in {"bang", "quote"}, l \in RegexpsBetween(d, k) PROVE LexemeIs(l)
  <2>1. PICK s \in SeqsUpTo({"n", "bs", "hash", "quote", "bang"} \ {d}, k) :
          l = Lexeme(<<"pr", d>> \o s \o <<d>>, <<Token("REGEXP", s)>>, TRUE)
    BY <1>2 DEF RegexpsBetween
  <2>2. s \in Seq({"n", "bs", "hash", "quote", "bang"} \ {d})
    BY InSeq
  <2>3. Delimited(l, d, s)
    BY <2>1, <2>2 DEF Delimited, Lexeme
  <2> QED
    BY <2>3 DEF LexemeIs
<1>3. CASE l \in Comments(k)
  <2>1. PICK s \in SeqsUpTo({"quote", "pr", "hash"}, k) :
          l = Lexeme(<<"hash">> \o s \o <<"nl">>, <<>>, TRUE)
    BY <1>3 DEF Comments
  <2>2. s \in Seq({"quote", "pr", "hash"})
    BY InSeq
  <2>3. Commented(l, s)
    BY <2>1, <2>2 DEF Commented, Lexeme
  <2> QED
    BY <2>3 DEF LexemeIs
<1>4. CASE l \in Simple \/ l \in Unfinished
  BY <1>4 DEF LexemeIs
<1> QED
  BY <1>1, <1>2, <1>3, <1>4 DEF Lexemes

\* Where the parts of a sequence are that is put together from three
LEMMA Enclosed ==
  ASSUME NEW S, NEW a \in Seq(S), NEW b \in Seq(S), NEW c \in Seq(S)
  PROVE  /\ a \o b \o c \in Seq(S) /\ Len(a \o b \o c) = Len(a) + Len(b) + Len(c)
         /\ \A i \in 1 .. Len(a) : (a \o b \o c)[i] = a[i]
         /\ \A i \in 1 .. Len(b) : (a \o b \o c)[Len(a) + i] = b[i]
         /\ \A i \in 1 .. Len(c) : (a \o b \o c)[Len(a) + Len(b) + i] = c[i]
<1>1. PICK x \in Seq(S) : x = a \o b
  BY ConcatProperties
<1>2. Len(x) = Len(a) + Len(b) /\ Len(a) \in Nat /\ Len(b) \in Nat /\ Len(c) \in Nat
      /\ \A i \in 1 .. Len(a) + Len(b) : x[i] = IF i <= Len(a) THEN a[i] ELSE b[i - Len(a)]
  BY <1>1, ConcatProperties
<1>3. Len(x \o c) = Len(x) + Len(c) /\ x \o c \in Seq(S)
      /\ \A i \in 1 .. Len(x) + Len(c) : (x \o c)[i] = IF i <= Len(x) THEN x[i] ELSE c[i - Len(x)]
  BY ConcatProperties
<1>4. PICK y : y = x \o c
  OBVIOUS
<1>5. \A i \in 1 .. Len(a) : y[i] = a[i]
  BY <1>2, <1>3, <1>4
<1>6. ASSUME NEW i \in 1 .. Len(b) PROVE y[Len(a) + i] = b[i]
  <2>1. Len(a) + i \in 1 .. Len(a) + Len(b) /\ Len(a) + i \in 1 .. Len(x) + Len(c)
        /\ Len(a) + i <= Len(x) /\ ~(Len(a) + i <= Len(a)) /\ Len(a) + i - Len(a) = i
    BY <1>2
  <2> QED
    BY <1>2, <1>3, <1>4, <2>1
<1>7. ASSUME NEW i \in 1 .. Len(c) PROVE y[Len(a) + Len(b) + i] = c[i]
  <2>1. Len(a) + Len(b) + i \in 1 .. Len(x) + Len(c)
        /\ ~(Len(a) + Len(b) + i <= Len(x)) /\ Len(a) + Len(b) + i - Len(x) = i
    BY <1>2
  <2> QED
    BY <1>2, <1>3, <1>4, <2>1
<1> QED
  BY <1>1, <1>2, <1>3, <1>4, <1>5, <1>6, <1>7

TokenSet ==
  [type : {"STRING", "REGEXP", "semi", "bang", "IDENTIFIER", "MOD"}, text : Seq(BufferedLetters)]

LexemeTyped(l) ==
  /\ l.chars \in Seq(CharacterKinds) /\ Len(l.chars) \in Nat \ {0}
  /\ l.means \in Seq(TokenSet)

\* The letters of a literal in quotes, one by one
LEMMA SpeltChars ==
  ASSUME NEW l, NEW s, NEW P, NEW R, Spelt(l, s, P, R)
  PROVE  /\ P[Len(s)] \in Seq(CharacterKinds) /\ R[Len(s)] \in Seq(CharacterKinds)
         /\ Len(P[Len(s)]) \in Nat /\ Len(l.chars) = Len(P[Len(s)]) + 2
         /\ l.chars \in Seq(CharacterKinds)
         /\ l.chars[1] = "quote" /\ l.chars[Len(P[Len(s)]) + 2] = "quote"
         /\ \A i \in 1 .. Len(P[Len(s)]) : l.chars[1 + i] = P[Len(s)][i]
<1>1. Len(s) \in Nat /\ Len(s) \in 0 .. Len(s) /\ DOMAIN s = 1 .. Len(s)
  BY DEF Spelt
<1> DEFINE C == [k \in DOMAIN s |-> s[k].chars]
           D == [k \in DOMAIN s |-> s[k].reads]
<1>2. Len(C) = Len(s) /\ Len(D) = Len(s)
  BY <1>1
<1> HIDE DEF C, D
<1>3. Sums(P, C, CharacterKinds) /\ Sums(R, D, CharacterKinds)
      /\ l.chars = <<"quote">> \o P[Len(s)] \o <<"quote">>
  BY DEF Spelt, C, D
<1>4. P[Len(s)] \in Seq(CharacterKinds) /\ R[Len(s)] \in Seq(CharacterKinds)
  <2>1. P \in [0 .. Len(s) -> Seq(CharacterKinds)] /\ R \in [0 .. Len(s) -> Seq(CharacterKinds)]
    BY <1>2, <1>3 DEF Sums
  <2> QED
    BY <1>1, <2>1
<1>5. PICK a, b \in Seq(CharacterKinds) : a = <<"quote">> /\ b = P[Len(s)] /\ l.chars = a \o b \o a
  <2>1. <<"quote">> \in Seq(CharacterKinds)
    BY DEF CharacterKinds
  <2> QED
    BY <1>3, <1>4, <2>1
<1>6. Len(a) = 1 /\ a[1] = "quote" /\ Len(b) \in Nat
  BY <1>5
<1>7. /\ a \o b \o a \in Seq(CharacterKinds) /\ Len(a \o b \o a) = Len(a) + Len(b) + Len(a)
      /\ \A i \in 1 .. Len(a) : (a \o b \o a)[i] = a[i]
      /\ \A i \in 1 .. Len(b) : (a \o b \o a)[Len(a) + i] = b[i]
      /\ \A i \in 1 .. Len(a) : (a \o b \o a)[Len(a) + Len(b) + i] = a[i]
  BY Enclosed
<1>8. PICK y : y = a \o b \o a
  OBVIOUS
<1>9. y[1] = "quote" /\ Len(y) = Len(b) + 2
  BY <1>6, <1>7, <1>8
<1>10. y[Len(b) + 2] = "quote"
  <2>1. y[Len(a) + Len(b) + 1] = a[1] /\ Len(a) + Len(b) + 1 = Len(b) + 2
    BY <1>6, <1>7, <1>8
  <2> QED
    BY <1>6, <2>1
<1>11. \A i \in 1 .. Len(b) : y[1 + i] = b[i]
  BY <1>6, <1>7, <1>8
<1> QED
  BY <1>4, <1>5, <1>6, <1>7, <1>8, <1>9, <1>10, <1>11

LEMMA DelimitedChars ==
  ASSUME NEW l, NEW d, NEW s, Delimited(l, d, s)
  PROVE  /\ s \in Seq(CharacterKinds) /\ Len(s) \in Nat /\ Len(l.chars) = Len(s) + 3
         /\ l.chars \in Seq(CharacterKinds) /\ d \in CharacterKinds
         /\ l.chars[1] = "pr" /\ l.chars[2] = d /\ l.chars[Len(s) + 3] = d
         /\ \A i \in 1 .. Len(s) : l.chars[2 + i] = s[i]
<1>1. s \in Seq({"n", "bs", "hash", "quote", "bang"} \ {d}) /\ d \in CharacterKinds
  BY DEF Delimited, CharacterKinds
<1>2. ({"n", "bs", "hash", "quote", "bang"} \ {d}) \subseteq CharacterKinds
  BY DEF CharacterKinds
<1>3. s \in Seq(CharacterKinds)
  BY <1>1, <1>2, SeqMonotonic
<1>4. PICK a, c \in Seq(CharacterKinds) : a = <<"pr", d>> /\ c = <<d>> /\ l.chars = a \o s \o c
  <2>1. <<"pr", d>> \in Seq(CharacterKinds) /\ <<d>> \in Seq(CharacterKinds)
    BY <1>1 DEF CharacterKinds
  <2> QED
    BY <2>1 DEF Delimited
<1>5. Len(a) = 2 /\ a[1] = "pr" /\ a[2] = d /\ Len(c) = 1 /\ c[1] = d /\ Len(s) \in Nat
  BY <1>3, <1>4
<1>6. /\ a \o s \o c \in Seq(CharacterKinds) /\ Len(a \o s \o c) = Len(a) + Len(s) + Len(c)
      /\ \A i \in 1 .. Len(a) : (a \o s \o c)[i] = a[i]
      /\ \A i \in 1 .. Len(s) : (a \o s \o c)[Len(a) + i] = s[i]
      /\ \A i \in 1 .. Len(c) : (a \o s \o c)[Len(a) + Len(s) + i] = c[i]
  BY <1>3, Enclosed
<1>7. PICK y : y = a \o s \o c
  OBVIOUS
<1>8. y[1] = "pr" /\ y[2] = d /\ Len(y) = Len(s) + 3
  BY <1>5, <1>6, <1>7
<1>9. y[Len(s) + 3] = d
  <2>1. y[Len(a) + Len(s) + 1] = c[1] /\ Len(a) + Len(s) + 1 = Len(s) + 3
    BY <1>5, <1>6, <1>7, SMTT(30)
  <2> QED
    BY <1>5, <2>1
<1>10. \A i \in 1 .. Len(s) : y[2 + i] = s[i]
  BY <1>5, <1>6, <1>7
<1> QED
  BY <1>1, <1>3, <1>4, <1>5, <1>6, <1>7, <1>8, <1>9, <1>10

LEMMA CommentedChars ==
  ASSUME NEW l, NEW s, Commented(l, s)
  PROVE  /\ Len(s) \in Nat /\ Len(l.chars) = Len(s) + 2 /\ l.chars \in Seq(CharacterKinds)
         /\ l.chars[1] = "hash" /\ l.chars[Len(s) + 2] = "nl"
         /\ \A i \in 1 .. Len(s) : l.chars[1 + i] \in {"quote", "pr", "hash"}
<1>1. s \in Seq({"quote", "pr", "hash"}) /\ {"quote", "pr", "hash"} \subseteq CharacterKinds
  BY DEF Commented, CharacterKinds
<1>2. s \in Seq(CharacterKinds) /\ \A i \in 1 .. Len(s) : s[i] \in {"quote", "pr", "hash"}
  BY <1>1, SeqMonotonic
<1>3. PICK a, c \in Seq(CharacterKinds) : a = <<"hash">> /\ c = <<"nl">> /\ l.chars = a \o s \o c
  <2>1. <<"hash">> \in Seq(CharacterKinds) /\ <<"nl">> \in Seq(CharacterKinds)
    BY DEF CharacterKinds
  <2> QED
    BY <2>1 DEF Commented
<1>5. Len(a) = 1 /\ a[1] = "hash" /\ Len(c) = 1 /\ c[1] = "nl" /\ Len(s) \in Nat
  BY <1>2, <1>3
<1>6. /\ a \o s \o c \in Seq(CharacterKinds) /\ Len(a \o s \o c) = Len(a) + Len(s) + Len(c)
      /\ \A i \in 1 .. Len(a) : (a \o s \o c)[i] = a[i]
      /\ \A i \in 1 .. Len(s) : (a \o s \o c)[Len(a) + i] = s[i]
      /\ \A i \in 1 .. Len(c) : (a \o s \o c)[Len(a) + Len(s) + i] = c[i]
  BY <1>2, Enclosed
<1>7. PICK y : y = a \o s \o c
  OBVIOUS
<1>8. y[1] = "hash" /\ Len(y) = Len(s) + 2
  BY <1>5, <1>6, <1>7
<1>9. y[Len(s) + 2] = "nl"
  <2>1. y[Len(a) + Len(s) + 1] = c[1] /\ Len(a) + Len(s) + 1 = Len(s) + 2
    BY <1>5, <1>6, <1>7
  <2> QED
    BY <1>5, <2>1
<1>10. \A i \in 1 .. Len(s) : y[1 + i] = s[i]
  BY <1>5, <1>6, <1>7
<1> QED
  BY <1>2, <1>3, <1>5, <1>6, <1>7, <1>8, <1>9, <1>10

LEMMA TokenTyped ==
  ASSUME NEW type \in {"STRING", "REGEXP", "semi", "bang", "IDENTIFIER", "MOD"},
         NEW text \in Seq(BufferedLetters)
  PROVE  Token(type, text) \in TokenSet
BY DEF Token, TokenSet

LEMMA MeansOne == ASSUME NEW x \in TokenSet, NEW m, m = <<x>> PROVE m \in Seq(TokenSet)
OBVIOUS

LEMMA MeansThree ==
  ASSUME NEW x \in TokenSet, NEW y \in TokenSet, NEW z \in TokenSet, NEW m, m = <<x, y, z>>
  PROVE  m \in Seq(TokenSet)
OBVIOUS

LEMMA LexemesTyped == ASSUME NEW l, LexemeIs(l) PROVE LexemeTyped(l)
<1>0. CharacterKinds \subseteq BufferedLetters
  BY DEF BufferedLetters
<1>1. ASSUME NEW s, NEW P, NEW R, Spelt(l, s, P, R) PROVE LexemeTyped(l)
  <2>1. R[Len(s)] \in Seq(BufferedLetters)
    BY <1>0, <1>1, SpeltChars, SeqMonotonic
  <2>2. l.means \in Seq(TokenSet)
    BY <1>1, <2>1, TokenTyped, MeansOne DEF Spelt
  <2> QED
    BY <1>1, <2>2, SpeltChars DEF LexemeTyped
<1>2. ASSUME NEW d, NEW s, Delimited(l, d, s) PROVE LexemeTyped(l)
  <2>1. s \in Seq(BufferedLetters)
    BY <1>0, <1>2, DelimitedChars, SeqMonotonic
  <2>2. l.means \in Seq(TokenSet)
    BY <1>2, <2>1, TokenTyped, MeansOne DEF Delimited
  <2> QED
    BY <1>2, <2>2, DelimitedChars DEF LexemeTyped
<1>3. ASSUME NEW s, Commented(l, s) PROVE LexemeTyped(l)
  <2>1. l.means \in Seq(TokenSet)
    BY <1>3 DEF Commented
  <2> QED
    BY <1>3, <2>1, CommentedChars DEF LexemeTyped
<1>4. CASE l \in Simple
  <2>1. <<>> \in Seq(BufferedLetters) /\ <<"n">> \in Seq(BufferedLetters)
        /\ <<"n", "n">> \in Seq(BufferedLetters)
    BY DEF BufferedLetters, CharacterKinds
  <2>2. /\ <<"semi">> \in Seq(CharacterKinds) /\ <<"bang">> \in Seq(CharacterKinds)
        /\ <<"n", "n", "space">> \in Seq(CharacterKinds) /\ <<"nl">> \in Seq(CharacterKinds)
        /\ <<"pr", "nl">> \in Seq(CharacterKinds) /\ <<"cr">> \in Seq(CharacterKinds)
    BY DEF CharacterKinds
  <2>3. CASE l = Lexeme(<<"semi">>, <<Token("semi", <<>>)>>, TRUE)
    <3>1. l.chars = <<"semi">> /\ l.means = <<Token("semi", <<>>)>>
          /\ Token("semi", <<>>) \in TokenSet
      BY <2>1, <2>3, TokenTyped DEF Lexeme
    <3> QED
      BY <2>2, <3>1, MeansOne DEF LexemeTyped
  <2>4. CASE l = Lexeme(<<"bang">>, <<Token("bang", <<>>)>>, TRUE)
    <3>1. l.chars = <<"bang">> /\ l.means = <<Token("bang", <<>>)>>
          /\ Token("bang", <<>>) \in TokenSet
      BY <2>1, <2>4, TokenTyped DEF Lexeme
    <3> QED
      BY <2>2, <3>1, MeansOne DEF LexemeTyped
  <2>5. CASE l = Lexeme(<<"n", "n", "space">>, <<Token("IDENTIFIER", <<"n", "n">>)>>, TRUE)
    <3>1. /\ l.chars = <<"n", "n", "space">> /\ l.means = <<Token("IDENTIFIER", <<"n", "n">>)>>
          /\ Token("IDENTIFIER", <<"n", "n">>) \in TokenSet
      BY <2>1, <2>5, TokenTyped DEF Lexeme
    <3> QED
      BY <2>2, <3>1, MeansOne DEF LexemeTyped
  <2>6. CASE l = Lexeme(<<"nl">>, <<>>, TRUE)
    BY <2>2, <2>6 DEF Lexeme, LexemeTyped
  <2>8. CASE l = Lexeme(<<"cr">>, <<>>, TRUE)
    BY <2>2, <2>8 DEF Lexeme, LexemeTyped
  <2>7. CASE l = Lexeme(<<"pr", "nl">>,
               <<Token("MOD", <<>>), Token("semi", <<>>), Token("IDENTIFIER", <<"n">>)>>, TRUE)
    <3>1. Token("MOD", <<>>) \in TokenSet
          /\ Token("semi", <<>>) \in TokenSet
          /\ Token("IDENTIFIER", <<"n">>) \in TokenSet
      BY <2>1, TokenTyped
    <3> QED
      BY <2>2, <2>7, <3>1, MeansThree DEF Lexeme, LexemeTyped
  <2> QED
    BY <1>4, <2>3, <2>4, <2>5, <2>6, <2>7, <2>8 DEF Simple
<1>5. CASE l \in Unfinished
  <2>1. l.means = <<>>
    BY <1>5 DEF Unfinished, Lexeme
  <2>2. \/ l.chars = <<"quote", "n">> \/ l.chars = <<"hash", "n">>
        \/ l.chars = <<"pr", "bang", "n">>
        \/ l.chars = <<"pr", "bang", "nl", "n">> \/ l.chars = <<"bs", "quote">>
        \/ l.chars = <<"quote", "lead", "nl">>
    BY <1>5 DEF Unfinished, Lexeme
  <2>3. /\ <<"quote", "n">> \in Seq(CharacterKinds) /\ <<"hash", "n">> \in Seq(CharacterKinds)
        /\ <<"pr", "bang", "n">> \in Seq(CharacterKinds)
        /\ <<"bs", "quote">> \in Seq(CharacterKinds)
        /\ <<"pr", "bang", "nl", "n">> \in Seq(CharacterKinds)
        /\ <<"quote", "lead", "nl">> \in Seq(CharacterKinds)
    BY DEF CharacterKinds
  <2>4. l.chars \in Seq(CharacterKinds)
    BY <2>2, <2>3
  <2>5. Len(l.chars) \in Nat \ {0}
    BY <2>2, SMTT(30)
  <2> QED
    BY <2>1, <2>4, <2>5 DEF LexemeTyped
<1> QED
  BY <1>1, <1>2, <1>3, <1>4, <1>5 DEF LexemeIs

\* What is written: a lexeme, or two, of which the first is whole
Single(w, l) == w = <<l>> /\ LexemeIs(l)
Pair(w, l, m) == w = <<l, m>> /\ LexemeIs(l) /\ LexemeIs(m) /\ l.whole
WrittenIs(w) == (\E l : Single(w, l)) \/ \E l, m : Pair(w, l, m)

LEMMA SingleText ==
  ASSUME NEW w, NEW l, Single(w, l)
  PROVE  SourceText(w) = l.chars /\ MeaningOf(w) = l.means
<1>1. LexemeTyped(l)
  BY LexemesTyped DEF Single
<1>2. [k \in DOMAIN w |-> w[k].chars] = <<l.chars>>
      /\ [k \in DOMAIN w |-> w[k].means] = <<l.means>>
  BY DEF Single
<1> QED
  BY <1>1, <1>2, FlattenOne DEF LexemeTyped, SourceText, MeaningOf, Concat

LEMMA PairText ==
  ASSUME NEW w, NEW l, NEW m, Pair(w, l, m)
  PROVE  SourceText(w) = l.chars \o m.chars /\ MeaningOf(w) = l.means \o m.means
<1>1. LexemeTyped(l) /\ LexemeTyped(m)
  BY LexemesTyped DEF Pair
<1>2. [k \in DOMAIN w |-> w[k].chars] = <<l.chars, m.chars>>
      /\ [k \in DOMAIN w |-> w[k].means] = <<l.means, m.means>>
  BY DEF Pair
<1> QED
  BY <1>1, <1>2, FlattenTwo DEF LexemeTyped, SourceText, MeaningOf, Concat

LEMMA TextTyped ==
  ASSUME NEW w, WrittenIs(w)
  PROVE  SourceText(w) \in Seq(CharacterKinds) /\ MeaningOf(w) \in Seq(TokenSet)
<1>1. ASSUME NEW l, Single(w, l)
      PROVE  SourceText(w) \in Seq(CharacterKinds) /\ MeaningOf(w) \in Seq(TokenSet)
  <2>1. LexemeTyped(l)
    BY <1>1, LexemesTyped DEF Single
  <2> QED
    BY <1>1, <2>1, SingleText DEF LexemeTyped
<1>2. ASSUME NEW l, NEW m, Pair(w, l, m)
      PROVE  SourceText(w) \in Seq(CharacterKinds) /\ MeaningOf(w) \in Seq(TokenSet)
  <2>1. LexemeTyped(l) /\ LexemeTyped(m)
    BY <1>2, LexemesTyped DEF Pair
  <2>2. l.chars \o m.chars \in Seq(CharacterKinds) /\ l.means \o m.means \in Seq(TokenSet)
    BY <2>1, ConcatProperties DEF LexemeTyped
  <2> QED
    BY <1>2, <2>2, PairText
<1> QED
  BY <1>1, <1>2 DEF WrittenIs

-----------------------------------------------------------------------------
\* How many letters n a text begins with
LEMMA RunIs ==
  ASSUME NEW S, NEW text \in Seq(S)
  PROVE  /\ Run(text) \in 0 .. Len(text) /\ \A i \in 1 .. Run(text) : text[i] = "n"
         /\ Run(text) = Len(text) \/ text[Run(text) + 1] # "n"
<1>0. Len(text) \in Nat
  OBVIOUS
<1> DEFINE Stops == {k \in 0 .. Len(text) : k = Len(text) \/ text[k + 1] # "n"}
<1>1. Stops \in SUBSET Nat /\ Len(text) \in Stops
  BY <1>0
<1>2. PICK k \in Stops : \A j \in Stops : k <= j
  BY <1>1, Least
<1>3. ASSUME NEW i \in 1 .. k PROVE text[i] = "n"
  <2>1. i - 1 \in 0 .. Len(text) /\ ~(k <= i - 1) /\ i - 1 # Len(text) /\ (i - 1) + 1 = i
    BY <1>0, <1>2
  <2>2. ~(i - 1 \in Stops)
    BY <1>2, <2>1
  <2> QED
    BY <2>1, <2>2
<1>4. k \in 0 .. Len(text) /\ (k = Len(text) \/ text[k + 1] # "n")
  BY <1>2
<1> QED
  BY <1>3, <1>4 DEF Run

LEMMA LineEnds ==
  ASSUME source \in Seq(CharacterKinds), source # <<>>
  PROVE  Chunk \in 1 .. Len(source)
<1>0. Len(source) \in Nat \ {0}
  <2>1. Len(source) \in Nat /\ (Len(source) = 0 => source = <<>>)
    BY EmptySeq
  <2> QED
    BY <2>1
<1> DEFINE Stops == {k \in 1 .. Len(source) : k = Len(source) \/ source[k] = "nl"}
<1>1. Stops \in SUBSET Nat /\ Len(source) \in Stops
  BY <1>0
<1>2. PICK k \in Stops : \A j \in Stops : k <= j
  BY <1>1, Least
<1>3. ASSUME NEW i \in 1 .. k - 1 PROVE source[i] # "nl"
  <2>1. i \in 1 .. Len(source) /\ ~(k <= i)
    BY <1>0, <1>2
  <2>2. ~(i \in Stops)
    BY <1>2, <2>1
  <2> QED
    BY <2>1, <2>2
<1>4. k \in 1 .. Len(source) /\ (k = Len(source) \/ source[k] = "nl")
  BY <1>2
<1>5. LineEnd \in 1 .. Len(source)
  BY <1>3, <1>4 DEF LineEnd
<1> QED
  BY <1>0, <1>5 DEF Chunk

LEMMA OneLetter ==
  ASSUME NEW c
  PROVE  NewLines(<<c>>) = IF c = "nl" THEN 1 ELSE 0
<1>1. c = "nl" => {k \in DOMAIN <<c>> : <<c>>[k] = "nl"} = {1}
  OBVIOUS
<1>2. c # "nl" => {k \in DOMAIN <<c>> : <<c>>[k] = "nl"} = {}
  OBVIOUS
<1> QED
  BY <1>1, <1>2, FS_Singleton, FS_EmptySet DEF NewLines

LEMMA OneBreak ==
  ASSUME NEW c
  PROVE  LineBreaks(<<c>>) = IF c \in Breaks THEN 1 ELSE 0
<1>1. c \in Breaks => {k \in DOMAIN <<c>> : <<c>>[k] \in Breaks} = {1}
  OBVIOUS
<1>2. c \notin Breaks => {k \in DOMAIN <<c>> : <<c>>[k] \in Breaks} = {}
  OBVIOUS
<1> QED
  BY <1>1, <1>2, FS_Singleton, FS_EmptySet DEF LineBreaks

LEMMA Behind ==
  ASSUME NEW S, NEW s \in Seq(S), NEW k \in 0 .. Len(s)
  PROVE  /\ SubSeq(s, k + 1, Len(s)) \in Seq(S) /\ Len(SubSeq(s, k + 1, Len(s))) = Len(s) - k
         /\ \A i \in 1 .. Len(s) - k : SubSeq(s, k + 1, Len(s))[i] = s[k + i]
<1>1. PICK n, b : n = Len(s) /\ b = SubSeq(s, k + 1, n)
  OBVIOUS
<1>2. n \in Nat /\ k \in 0 .. n /\ k + 1 \in Int
  BY <1>1
<1>3. \A i \in k + 1 .. n : s[i] \in S
  <2>1. \A i \in k + 1 .. n : i \in 1 .. n
    BY ONLY <1>2
  <2> QED
    BY ONLY <1>1, <2>1, s \in Seq(S), ElementOfSeq
<1>4. /\ b \in Seq(S)
      /\ Len(b) = IF k + 1 <= n THEN n - (k + 1) + 1 ELSE 0
      /\ \A i \in 1 .. n - (k + 1) + 1 : b[i] = s[(k + 1) + i - 1]
  <2>1. k + 1 \in Int /\ n \in Int
    BY ONLY <1>2
  <2> QED
    BY ONLY <1>1, <1>3, <2>1, SubSeqProperties
<1>5. n - (k + 1) + 1 = n - k /\ (~(k + 1 <= n) => 0 = n - k)
  BY ONLY <1>2
<1>6. Len(b) = n - k
  BY ONLY <1>4, <1>5
<1>7. \A i \in 1 .. n - k : b[i] = s[k + i]
  <2>1. \A i \in 1 .. n - k : b[i] = s[(k + 1) + i - 1]
    BY ONLY <1>4, <1>5
  <2>2. \A i \in 1 .. n - k : (k + 1) + i - 1 = k + i
    BY ONLY <1>2
  <2> QED
    BY ONLY <2>1, <2>2
<1> QED
  BY ONLY <1>1, <1>4, <1>6, <1>7

LEMMA Foremost ==
  ASSUME NEW S, NEW s \in Seq(S), NEW k \in 0 .. Len(s)
  PROVE  /\ SubSeq(s, 1, k) \in Seq(S) /\ Len(SubSeq(s, 1, k)) = k
         /\ \A i \in 1 .. k : SubSeq(s, 1, k)[i] = s[i]
<1>1. k \in Int /\ k \in Nat /\ Len(s) \in Nat /\ 1 \in Int
  OBVIOUS
<1>2. \A i \in 1 .. k : s[i] \in S
  BY <1>1
<1>3. /\ SubSeq(s, 1, k) \in Seq(S)
      /\ Len(SubSeq(s, 1, k)) = IF 1 <= k THEN k - 1 + 1 ELSE 0
      /\ \A i \in 1 .. k - 1 + 1 : SubSeq(s, 1, k)[i] = s[1 + i - 1]
  BY <1>1, <1>2, SubSeqProperties
<1>4. k - 1 + 1 = k
  BY <1>1
<1>5. ASSUME NEW i \in 1 .. k PROVE SubSeq(s, 1, k)[i] = s[i]
  <2>1. 1 + i - 1 = i
    BY <1>1
  <2> QED
    BY <1>3, <1>4, <2>1
<1> QED
  BY <1>1, <1>3, <1>4, <1>5

-----------------------------------------------------------------------------
\* The types, and what a source is made of
ScannerTyped ==
  /\ compiling \in {"idle", "scanning", "parsing", "accepted", "raised", "exited"}
  /\ start \in {"INITIAL", "COMMENT", "STRING", "SHIFT_JIS_2ND_CHAR", "REGEXP"}
  /\ delimiter \in CharacterKinds
  /\ rest \in Seq(CharacterKinds) /\ literal \in Seq(BufferedLetters)
  /\ line \in Nat \ {0}
  /\ input_mode \in {"file", "string"} /\ source \in Seq(CharacterKinds)
  /\ tokens \in Seq(TokenSet)
  /\ compiling # "idle" => WrittenIs(written)

LEMMA ScannerTypedInit == ScannerInit => ScannerTyped
<1> SUFFICES ASSUME ScannerInit PROVE ScannerTyped
  OBVIOUS
<1>1. <<>> \in Seq(CharacterKinds) /\ <<>> \in Seq(BufferedLetters) /\ <<>> \in Seq(TokenSet)
  OBVIOUS
<1> QED
  BY <1>1 DEF ScannerInit, ScannerTyped, CharacterKinds

LEMMA SourcesAre == ASSUME NEW w \in Sources PROVE WrittenIs(w)
<1>1. 0 \in Nat /\ 1 \in Nat /\ MaxItems \in Nat
  BY ScannerAssumption
<1>2. CASE \E k \in {0, MaxItems} : w \in {<<l>> : l \in Lexemes(k)}
  <2>1. PICK k \in {0, MaxItems} : w \in {<<l>> : l \in Lexemes(k)}
    BY <1>2
  <2>2. PICK l \in Lexemes(k) : w = <<l>>
    BY <2>1
  <2>3. LexemeIs(l)
    BY <1>1, <2>1, <2>2, LexemesAre
  <2> QED
    BY <2>2, <2>3 DEF WrittenIs, Single
<1>3. CASE w \in {<<l, m>> : l \in {l \in Lexemes(MaxItems) : l.whole}, m \in Lexemes(1)}
  <2>1. PICK l \in Lexemes(MaxItems), m \in Lexemes(1) : w = <<l, m>> /\ l.whole
    BY <1>3
  <2>2. LexemeIs(l) /\ LexemeIs(m)
    BY <1>1, LexemesAre
  <2> QED
    BY <2>1, <2>2 DEF WrittenIs, Pair
<1> QED
  BY <1>2, <1>3 DEF Sources

LEMMA AddedTyped ==
  ASSUME ScannerTyped, NEW c \in BufferedLetters, AddStringLiteral(c)
  PROVE  literal' \in Seq(BufferedLetters)
BY AppendProperties DEF ScannerTyped, AddStringLiteral

LEMMA ReturnTyped ==
  ASSUME ScannerTyped, NEW x \in TokenSet, Returns(x)
  PROVE  tokens' \in Seq(TokenSet) /\ compiling' = "parsing"
BY AppendProperties DEF ScannerTyped, Returns

LEMMA ConsumedTyped ==
  ASSUME ScannerTyped, NEW k \in 0 .. Len(rest), Consumes(k)
  PROVE  rest' \in Seq(CharacterKinds)
BY Behind DEF ScannerTyped, Consumes

LEMMA RestBegins ==
  ASSUME ScannerTyped, rest # <<>>
  PROVE  rest[1] \in CharacterKinds /\ Len(rest) \in Nat /\ 1 \in 0 .. Len(rest)
<1>1. Len(rest) \in Nat /\ Len(rest) # 0
  BY EmptySeq DEF ScannerTyped
<1>2. 1 \in 1 .. Len(rest) /\ 1 \in 0 .. Len(rest)
  BY <1>1
<1> QED
  BY <1>1, <1>2 DEF ScannerTyped

LEMMA LineTyped ==
  ASSUME ScannerTyped, NEW c
  PROVE  line + NewLines(<<c>>) \in Nat \ {0} /\ line + LineBreaks(<<c>>) \in Nat \ {0}
BY OneLetter, OneBreak DEF ScannerTyped

LEMMA ScannerTypedStep == ScannerTyped /\ [ScannerNext]_scannerVars => ScannerTyped'
<1> SUFFICES ASSUME ScannerTyped, [ScannerNext]_scannerVars PROVE ScannerTyped'
  OBVIOUS
<1> DEFINE Scanned == /\ rest # <<>> /\ rest[1] \in CharacterKinds
                      /\ Len(rest) \in Nat /\ 1 \in 0 .. Len(rest)
                      /\ compiling # "idle" /\ UNCHANGED <<input_mode, source, written>>
<1>16. <<>> \in Seq(BufferedLetters)
  OBVIOUS
<1>0. ASSUME NEW c, Scans(c) PROVE Scanned
  BY <1>0, RestBegins DEF Scans, input
<1> HIDE DEF Scanned
<1>1. CASE BeginCompile
  <2>1. WrittenIs(written')
    BY <1>1, SourcesAre DEF BeginCompile
  <2>2. SourceText(written') \in Seq(CharacterKinds)
    BY <2>1, TextTyped
  <2> QED
    BY <1>1, <2>1, <2>2 DEF BeginCompile, ScannerTyped, buffer
<1>2. CASE YyInput
  <2>1. source \in Seq(CharacterKinds) /\ source # <<>> /\ rest \in Seq(CharacterKinds)
    BY <1>2 DEF YyInput, ScannerTyped
  <2>2. Chunk \in 1 .. Len(source) /\ Chunk \in 0 .. Len(source)
    BY <2>1, LineEnds
  <2>3. SubSeq(source, 1, Chunk) \in Seq(CharacterKinds) /\ source' \in Seq(CharacterKinds)
    BY <1>2, <2>1, <2>2, Behind, Foremost DEF YyInput
  <2>4. rest' \in Seq(CharacterKinds)
    BY <1>2, <2>1, <2>3, ConcatProperties DEF YyInput
  <2> QED
    BY <1>2, <2>3, <2>4 DEF YyInput, ScannerTyped, buffer
<1>3. CASE CompileEnds
  BY <1>3 DEF CompileEnds, ScannerTyped, buffer
<1>4. CASE Exited \/ UNCHANGED scannerVars
  <2>1. UNCHANGED scannerVars
    BY <1>4 DEF Exited
  <2> QED
    BY <2>1 DEF scannerVars, buffer, input, ScannerTyped
<1>5. CASE Shift \/ ParseError \/ Accept \/ FoldingRaises
  <2>1. /\ UNCHANGED <<input_mode, source, rest, start, delimiter, line, tokens, written>>
        /\ literal' = literal \/ literal' = <<>>
        /\ compiling' \in {"scanning", "exited", "accepted", "raised"} /\ compiling # "idle"
    BY <1>5 DEF Shift, ParseError, Accept, FoldingRaises, Parses, AtEnd, Finishes, buffer, input
  <2>2. literal' \in Seq(BufferedLetters)
    BY <1>16, <2>1 DEF ScannerTyped
  <2> QED
    BY <2>1, <2>2 DEF ScannerTyped
<1>6. CASE ScanIdentifier
  <2>1. Run(rest) \in 0 .. Len(rest)
    BY RunIs DEF ScannerTyped
  <2>2. SubSeq(rest, 1, Run(rest)) \in Seq(CharacterKinds)
    BY <2>1, Foremost DEF ScannerTyped
  <2>3. SubSeq(rest, 1, Run(rest)) \in Seq(BufferedLetters)
    BY <2>2, SeqMonotonic DEF BufferedLetters
  <2>4. Token("IDENTIFIER", SubSeq(rest, 1, Run(rest))) \in TokenSet
    BY <2>3, TokenTyped
  <2>5. tokens' \in Seq(TokenSet) /\ compiling' = "parsing"
    BY <1>6, <2>4, ReturnTyped DEF ScanIdentifier
  <2>6. rest' \in Seq(CharacterKinds)
    BY <1>6, <2>1, ConsumedTyped DEF ScanIdentifier
  <2>7. Scanned
    BY <1>0, <1>6 DEF ScanIdentifier
  <2> QED
    BY <1>6, <2>5, <2>6, <2>7 DEF ScanIdentifier, ScannerTyped, buffer, Scanned
<1>7. CASE ScanOperator
  <2>1. Scanned
    BY <1>0, <1>7 DEF ScanOperator
  <2>2. Token(rest[1], <<>>) \in TokenSet
    <3>1. <<>> \in Seq(BufferedLetters)
      OBVIOUS
    <3> QED
      BY <1>7, <3>1, TokenTyped DEF ScanOperator
  <2>3. tokens' \in Seq(TokenSet) /\ compiling' = "parsing"
    BY <1>7, <2>2, ReturnTyped DEF ScanOperator
  <2>4. rest' \in Seq(CharacterKinds)
    BY <1>7, <2>1, ConsumedTyped DEF ScanOperator, Scanned
  <2> QED
    BY <1>7, <2>1, <2>3, <2>4 DEF ScanOperator, ScannerTyped, buffer, Scanned
<1>8. CASE Blank \/ InComment
  <2>1. Scanned
    BY <1>0, <1>8 DEF Blank, InComment
  <2>2. rest' \in Seq(CharacterKinds)
    BY <1>8, <2>1, ConsumedTyped DEF Blank, InComment, Scanned
  <2>3. line' \in Nat \ {0}
    BY <1>8, LineTyped DEF Blank, InComment
  <2>4. start' \in {"INITIAL", "COMMENT"} /\ UNCHANGED <<compiling, delimiter, literal, tokens>>
    BY <1>8 DEF Blank, InComment, Scans, Begins, buffer
  <2> QED
    BY <2>1, <2>2, <2>3, <2>4 DEF ScannerTyped, Scanned
<1>9. CASE InvalidCharacter \/ NewlineInRegexp
  <2>1. Scanned
    BY <1>0, <1>9 DEF InvalidCharacter, NewlineInRegexp
  <2>2. rest' \in Seq(CharacterKinds)
    BY <1>9, <2>1, ConsumedTyped DEF InvalidCharacter, NewlineInRegexp, Scanned
  <2>3. compiling' = "exited" /\ UNCHANGED <<start, delimiter, literal, line, tokens>>
    BY <1>9 DEF InvalidCharacter, NewlineInRegexp, Exits, buffer
  <2> QED
    BY <2>1, <2>2, <2>3 DEF ScannerTyped, Scanned
<1>10. CASE OpenString \/ OpenComment
  <2>1. Scanned
    BY <1>0, <1>10 DEF OpenString, OpenComment
  <2>2. rest' \in Seq(CharacterKinds)
    BY <1>10, <2>1, ConsumedTyped DEF OpenString, OpenComment, Scanned
  <2>3. start' \in {"STRING", "COMMENT"} /\ UNCHANGED <<compiling, delimiter, line, tokens>>
        /\ (literal' = <<>> \/ literal' = literal)
    BY <1>10 DEF OpenString, OpenComment, OpenStringLiteral, Begins, buffer
  <2>4. literal' \in Seq(BufferedLetters)
    BY <1>16, <2>3 DEF ScannerTyped
  <2> QED
    BY <2>1, <2>2, <2>3, <2>4 DEF ScannerTyped, Scanned
<1>11. CASE OpenRegexp
  <2>1. Scanned
    BY <1>0, <1>11 DEF OpenRegexp
  <2>2. 2 \in 0 .. Len(rest) /\ 2 \in 1 .. Len(rest)
    BY <1>11, <2>1 DEF OpenRegexp, IsDelimited, Scanned
  <2>3. rest' \in Seq(CharacterKinds)
    BY <1>11, <2>2, ConsumedTyped DEF OpenRegexp
  <2>4. delimiter' \in CharacterKinds
    BY <1>11, <2>2 DEF OpenRegexp, ScannerTyped
  <2>5. start' = "REGEXP" /\ literal' = <<>> /\ UNCHANGED <<compiling, line, tokens>>
    BY <1>11 DEF OpenRegexp, OpenStringLiteral, Begins
  <2> QED
    BY <2>1, <2>3, <2>4, <2>5 DEF ScannerTyped, Scanned
<1>12. CASE ModMod
  <2>1. Scanned
    BY <1>0, <1>12 DEF ModMod
  <2>2. Tail(rest) \in Seq(CharacterKinds)
    BY <2>1, HeadTailProperties DEF ScannerTyped, Scanned
  <2>3. <<"semi", "n">> \in Seq(CharacterKinds)
    BY DEF CharacterKinds
  <2>4. rest' \in Seq(CharacterKinds)
    BY <1>12, <2>2, <2>3, ConcatProperties DEF ModMod
  <2>5. tokens' \in Seq(TokenSet) /\ compiling' = "parsing"
    <3>1. <<>> \in Seq(BufferedLetters)
      OBVIOUS
    <3>2. Token("MOD", <<>>) \in TokenSet
      BY <3>1, TokenTyped
    <3> QED
      BY <1>12, <3>2, ReturnTyped DEF ModMod
  <2> QED
    BY <1>12, <2>1, <2>4, <2>5 DEF ModMod, ScannerTyped, buffer, Scanned
<1>13. CASE EscapeInString
  <2>1. Scanned
    BY <1>0, <1>13 DEF EscapeInString
  <2>2. 2 \in 0 .. Len(rest) /\ rest[2] \in {"quote", "n", "bs"}
    BY <1>13, <2>1 DEF EscapeInString, IsEscape, Scanned, Escapes
  <2>3. rest' \in Seq(CharacterKinds)
    BY <1>13, <2>2, ConsumedTyped DEF EscapeInString
  <2>4. Escapes[rest[2]] \in BufferedLetters
    BY <2>2 DEF Escapes, BufferedLetters, CharacterKinds
  <2>5. literal' \in Seq(BufferedLetters)
    BY <1>13, <2>4, AddedTyped DEF EscapeInString
  <2> QED
    BY <1>13, <2>1, <2>3, <2>5 DEF EscapeInString, ScannerTyped, Scanned
<1>14. CASE CharacterInString \/ SecondByte \/ CharacterInRegexp
  <2>1. Scanned
    BY <1>0, <1>14 DEF CharacterInString, SecondByte, CharacterInRegexp
  <2>2. rest' \in Seq(CharacterKinds)
    BY <1>14, <2>1, ConsumedTyped DEF CharacterInString, SecondByte, CharacterInRegexp, Scanned
  <2>3. rest[1] \in BufferedLetters
    BY <2>1 DEF Scanned, BufferedLetters
  <2>4. literal' = literal \/ AddStringLiteral(rest[1])
    BY <1>14 DEF CharacterInString, SecondByte, CharacterInRegexp, buffer
  <2>5. literal' \in Seq(BufferedLetters)
    BY <2>3, <2>4, AddedTyped DEF ScannerTyped
  <2>6. line' = line \/ line' = line + NewLines(<<rest[1]>>)
    BY <1>14 DEF CharacterInString, SecondByte, CharacterInRegexp
  <2>7. line' \in Nat \ {0}
    BY <2>6, LineTyped DEF ScannerTyped
  <2>8. /\ start' = start \/ start' \in {"SHIFT_JIS_2ND_CHAR", "STRING"}
        /\ UNCHANGED <<compiling, delimiter, tokens>>
    BY <1>14 DEF CharacterInString, SecondByte, CharacterInRegexp, Begins
  <2> QED
    BY <2>1, <2>2, <2>5, <2>7, <2>8 DEF ScannerTyped, Scanned
<1>15. CASE CloseString \/ CloseRegexp
  <2>1. Scanned
    BY <1>0, <1>15 DEF CloseString, CloseRegexp
  <2>2. rest' \in Seq(CharacterKinds)
    BY <1>15, <2>1, ConsumedTyped DEF CloseString, CloseRegexp, Scanned
  <2>3. PICK type \in {"STRING", "REGEXP"} : ClosesLiteral(type)
    BY <1>15 DEF CloseString, CloseRegexp
  <2>4. CASE Exits
    BY <2>1, <2>2, <2>4 DEF Exits, buffer, ScannerTyped, Scanned
  <2>5. CASE /\ AddStringLiteral("nul") /\ Returns(Token(type, literal)) /\ Begins("INITIAL")
             /\ UNCHANGED <<delimiter, line>>
    <3>1. literal' \in Seq(BufferedLetters)
      BY <2>5, AddedTyped DEF BufferedLetters
    <3>2. Token(type, literal) \in TokenSet
      BY TokenTyped DEF ScannerTyped
    <3>3. tokens' \in Seq(TokenSet) /\ compiling' = "parsing"
      BY <2>5, <3>2, ReturnTyped
    <3> QED
      BY <2>1, <2>2, <2>5, <3>1, <3>3 DEF Begins, ScannerTyped, Scanned
  <2> QED
    BY <2>3, <2>4, <2>5 DEF ClosesLiteral
<1> QED
  BY <1>1, <1>2, <1>3, <1>4, <1>5, <1>6, <1>7, <1>8, <1>9, <1>10, <1>11, <1>12, <1>13, <1>14, <1>15
     DEF ScannerNext

LEMMA ScannerInvariance == ScannerSpec => []ScannerTyped
BY ScannerTypedInit, ScannerTypedStep, PTL DEF ScannerSpec

\* Whatever the source and however the compilations end: what flex has read and what the buffer
\* holds are sequences of characters, the buffer is large enough, and lines count from one.
THEOREM ScannerTypes == ScannerSpec => []ScannerTypeOK
<1>1. ScannerTyped /\ LiteralFits => ScannerTypeOK
  BY DEF ScannerTyped, ScannerTypeOK, BufferedLetters
<1> QED
  BY <1>1, ScannerInvariance, LiteralsFit, PTL

-----------------------------------------------------------------------------
(* What the parser is handed (Scanner): each rule is compared with the     *)
(* lexeme the scanner is in, which the invariant names (Reading).          *)

Rule ==
  \/ ScanIdentifier \/ ScanOperator \/ Blank \/ InvalidCharacter \/ OpenComment \/ InComment
  \/ OpenString \/ EscapeInString \/ CharacterInString \/ SecondByte \/ CloseString
  \/ OpenRegexp \/ ModMod \/ NewlineInRegexp \/ CharacterInRegexp \/ CloseRegexp

LEMMA RuleGuards ==
  /\ ScanIdentifier => start = "INITIAL" /\ Run(rest) > 0
  /\ ScanOperator => start = "INITIAL" /\ rest[1] \in {"semi", "bang"}
  /\ Blank => start = "INITIAL" /\ rest[1] \in {"space"} \union Breaks
  /\ InvalidCharacter => start = "INITIAL" /\ rest[1] \in {"bs", "lead"}
  /\ OpenComment => start = "INITIAL" /\ rest[1] = "hash"
  /\ OpenString => start = "INITIAL" /\ rest[1] = "quote"
  /\ OpenRegexp => start = "INITIAL" /\ rest[1] = "pr" /\ IsDelimited
  /\ ModMod => start = "INITIAL" /\ rest[1] = "pr" /\ ~IsDelimited
  /\ InComment => start = "COMMENT"
  /\ EscapeInString => start = "STRING" /\ IsEscape
  /\ CharacterInString => start = "STRING" /\ ~IsEscape /\ rest[1] # "quote"
  /\ CloseString => start = "STRING" /\ rest[1] = "quote"
  /\ SecondByte => start = "SHIFT_JIS_2ND_CHAR"
  /\ NewlineInRegexp => start = "REGEXP" /\ rest[1] = "nl"
  /\ CharacterInRegexp => start = "REGEXP" /\ rest[1] \notin {"nl", delimiter}
  /\ CloseRegexp => start = "REGEXP" /\ rest[1] = delimiter
BY DEF ScanIdentifier, ScanOperator, Blank, InvalidCharacter, OpenComment, InComment,
       OpenString,
       EscapeInString, CharacterInString, SecondByte, CloseString, OpenRegexp, ModMod,
       NewlineInRegexp, CharacterInRegexp, CloseRegexp, Scans

LEMMA RuleScans ==
  ASSUME Rule
  PROVE  /\ compiling = "scanning" /\ rest # <<>> /\ (NeedsMore => source = <<>>)
         /\ UNCHANGED <<input_mode, source, written, clean>>
BY DEF Rule, ScanIdentifier, ScanOperator, Blank, InvalidCharacter, OpenComment, InComment,
       OpenString,
       EscapeInString, CharacterInString, SecondByte, CloseString, OpenRegexp, ModMod,
       NewlineInRegexp, CharacterInRegexp, CloseRegexp, Scans, input

LEMMA InitialRule ==
  ASSUME Rule, start = "INITIAL", rest \in Seq(CharacterKinds), Len(rest) > 0
  PROVE  /\ rest[1] = "n" => ScanIdentifier
         /\ rest[1] \in {"semi", "bang"} => ScanOperator
         /\ rest[1] \in {"space"} \union Breaks => Blank
         /\ rest[1] \in {"bs", "lead"} => InvalidCharacter
         /\ rest[1] = "hash" => OpenComment
         /\ rest[1] = "quote" => OpenString
         /\ rest[1] = "pr" /\ IsDelimited => OpenRegexp
         /\ rest[1] = "pr" /\ ~IsDelimited => ModMod
<1>1. Run(rest) > 0 => rest[1] = "n"
  <2>1. Run(rest) \in 0 .. Len(rest) /\ \A i \in 1 .. Run(rest) : rest[i] = "n"
    BY RunIs
  <2> QED
    BY <2>1
<1>2. rest[1] \in {"space"} \union Breaks => rest[1] \in {"space", "cr", "nl"}
  BY DEF Breaks
<1>3. Blank => rest[1] \in {"space", "cr", "nl"}
  BY <1>2, RuleGuards
<1> QED
  BY <1>1, <1>2, <1>3, RuleGuards DEF Rule

LEMMA StringRule ==
  ASSUME Rule, start = "STRING"
  PROVE  /\ rest[1] = "quote" => CloseString
         /\ IsEscape => EscapeInString
         /\ rest[1] # "quote" /\ ~IsEscape => CharacterInString
<1>1. IsEscape => rest[1] # "quote"
  BY DEF IsEscape
<1> QED
  BY <1>1, RuleGuards DEF Rule

LEMMA OtherRules ==
  ASSUME Rule
  PROVE  /\ start = "COMMENT" => InComment
         /\ start = "SHIFT_JIS_2ND_CHAR" => SecondByte
         /\ start = "REGEXP" /\ rest[1] = delimiter => CloseRegexp \/ NewlineInRegexp
         /\ start = "REGEXP" /\ rest[1] = "nl" => NewlineInRegexp \/ CloseRegexp
         /\ start = "REGEXP" /\ rest[1] \notin {"nl", delimiter} => CharacterInRegexp
BY RuleGuards DEF Rule

-----------------------------------------------------------------------------
\* Where in a lexeme l the scanner can be, when o of its characters are behind it, t of its tokens
\* returned and p of the characters that ModMod puts back are ahead
AtBegin(l, o, t, p) == o = 0 /\ t = 0 /\ p = 0 /\ start = "INITIAL"
AtItsEnd(l, o, t, p) ==
  o = Len(l.chars) /\ t = Len(l.means) /\ p = 0 /\ start = "INITIAL" /\ l.whole = TRUE
InItem(s, P, R, j, o) ==
  \/ start = "STRING" /\ j \in 0 .. Len(s) /\ o = 1 + Len(P[j]) /\ literal = R[j]
  \/ /\ j \in 0 .. Len(s) - 1 /\ o = 2 + Len(P[j])
     /\ \/ start = "STRING" /\ LoneItem(s[j + 1]) /\ literal = Append(R[j], "bs")
        \/ /\ start = "SHIFT_JIS_2ND_CHAR" /\ TwoByteItem(s[j + 1])
           /\ literal = Append(R[j], "lead")
InString(l, o, t, p) ==
  p = 0 /\ t = 0 /\ \E s, P, R : Spelt(l, s, P, R) /\ \E j : InItem(s, P, R, j, o)
InRegexp(l, o, t, p) ==
  /\ p = 0 /\ t = 0 /\ start = "REGEXP"
  /\ \E d, s : /\ Delimited(l, d, s) /\ delimiter = d
               /\ o \in 2 .. 2 + Len(s) /\ literal = SubSeq(s, 1, o - 2)
AfterHash(l, o, t, p) ==
  /\ p = 0 /\ t = 0 /\ start = "COMMENT" /\ \E s : Commented(l, s) /\ o \in 1 .. Len(s) + 1
AfterIdentifier(l, o, t, p) ==
  /\ start = "INITIAL"
  /\ l = Lexeme(<<"n", "n", "space">>, <<Token("IDENTIFIER", <<"n", "n">>)>>, TRUE)
  /\ o = 2 /\ t = 1 /\ p = 0
Modulo ==
  Lexeme(<<"pr", "nl">>,
         <<Token("MOD", <<>>), Token("semi", <<>>), Token("IDENTIFIER", <<"n">>)>>, TRUE)
AfterModulo(l, o, t, p) ==
  start = "INITIAL" /\ l = Modulo /\ o = 1 /\ p \in 0 .. 2 /\ t = 3 - p
InUnfinished(l, o, t, p) ==
  /\ l \in Unfinished /\ o \in 1 .. Len(l.chars) /\ t = 0 /\ p = 0
  /\ \/ start \in {"STRING", "SHIFT_JIS_2ND_CHAR"} /\ l.chars[1] = "quote"
     \/ start = "COMMENT" /\ l.chars[1] = "hash"
     \/ start = "REGEXP" /\ l.chars[1] = "pr" /\ delimiter = "bang" /\ o >= 2
Within(l, o, t, p) ==
  \/ AtBegin(l, o, t, p) \/ AtItsEnd(l, o, t, p) \/ InString(l, o, t, p) \/ InRegexp(l, o, t, p)
  \/ AfterHash(l, o, t, p) \/ AfterIdentifier(l, o, t, p) \/ AfterModulo(l, o, t, p)
  \/ InUnfinished(l, o, t, p)

\* What is ahead of the scanner then, as far as l goes
View(l, o, p) ==
  /\ rest \in Seq(CharacterKinds) /\ Len(rest) > 0 /\ Len(rest) >= p
  /\ \A i \in 1 .. Len(rest) - p : o + i <= Len(l.chars) => rest[p + i] = l.chars[o + i]
  /\ NeedsMore => Len(rest) >= p + Len(l.chars) - o
  /\ p = 2 => rest[1] = "semi" /\ rest[2] = "n"
  /\ p = 1 => rest[1] = "n"
  /\ p = 0 => o < Len(l.chars)

\* What a rule does then
Counts(l, o, e) ==
  \/ e = o + 1 /\ line' = line + (IF l.chars[o + 1] \in Breaks THEN 1 ELSE 0)
  \/ e = o + 2 /\ line' = line /\ l.chars[o + 1] \notin Breaks /\ l.chars[o + 2] \notin Breaks
Moves(l, o, p, e, r) ==
  \/ /\ p = 0 /\ r = 0 /\ Consumes(e - o) /\ e - o \in 1 .. Len(rest)
     /\ l.whole = TRUE => Counts(l, o, e)
  \/ /\ p = 0 /\ r = 2 /\ e = o + 1 /\ rest' = <<"semi", "n">> \o Tail(rest)
     /\ line' = line /\ l.chars[o + 1] \notin Breaks
  \/ p > 0 /\ r = p - 1 /\ e = o /\ Consumes(1) /\ line' = line
Emits(l, t, u) ==
  \/ u = t /\ tokens' = tokens /\ compiling' = compiling
  \/ /\ u = t + 1 /\ u <= Len(l.means)
     /\ tokens' = Append(tokens, l.means[u]) /\ compiling' = "parsing"
Goes(l, o, t, p) ==
  \/ compiling' = "exited" /\ tokens' = tokens
  \/ \E e, u, r : /\ Within(l, e, u, r)' /\ e \in o .. Len(l.chars)
                  /\ Moves(l, o, p, e, r) /\ Emits(l, t, u)

LEMMA StopsThere == Exits => compiling' = "exited" /\ tokens' = tokens
BY DEF Exits

LEMMA Appended ==
  ASSUME NEW S, NEW r \in Seq(S), NEW a \in S, NEW b \in S
  PROVE  /\ Append(r, a) = r \o <<a>> /\ Append(Append(r, a), b) = r \o <<a, b>>
<1>1. Append(r, a) = r \o <<a>> /\ Append(r, a) \in Seq(S)
  BY AppendIsConcat, AppendProperties
<1>2. Append(Append(r, a), b) = (r \o <<a>>) \o <<b>>
  BY <1>1, AppendIsConcat
<1>3. PICK x, y, z \in Seq(S) : x = <<a>> /\ y = <<b>> /\ z = <<a, b>>
  <2>1. <<a>> \in Seq(S) /\ <<b>> \in Seq(S) /\ <<a, b>> \in Seq(S)
    OBVIOUS
  <2> QED
    BY <2>1, Zenon
<1>4. x \o y = z
  <2>1. Len(x) = 1 /\ Len(y) = 1 /\ Len(z) = 2 /\ z[1] = a /\ z[2] = b /\ x[1] = a /\ y[1] = b
    BY <1>3
  <2>2. /\ x \o y \in Seq(S) /\ Len(x \o y) = Len(x) + Len(y)
        /\ \A i \in 1 .. Len(x) + Len(y) : (x \o y)[i] = IF i <= Len(x) THEN x[i] ELSE y[i - Len(x)]
    BY ConcatProperties
  <2>3. PICK w \in Seq(S) : w = x \o y
    BY <2>2
  <2>4. Len(w) = 2 /\ w[1] = a /\ w[2] = b
    BY <2>1, <2>2, <2>3
  <2>5. \A i \in 1 .. 2 : w[i] = z[i]
    BY <2>1, <2>4
  <2> QED
    BY <2>1, <2>3, <2>4, <2>5, SeqEqual
<1>5. (r \o x) \o y = r \o (x \o y)
  BY ConcatAssociative, SMTT(30)
<1> QED
  BY <1>1, <1>2, <1>3, <1>4, <1>5

\* The item behind those that have been read
Ahead(l, P, R, j, x) ==
  /\ ItemIs(x) /\ Len(P[j]) \in Nat /\ Len(x.chars) \in Nat
  /\ Len(P[j + 1]) = Len(P[j]) + Len(x.chars) /\ Len(P[j + 1]) + 2 <= Len(l.chars)
  /\ \A i \in 1 .. Len(x.chars) : l.chars[1 + Len(P[j]) + i] = x.chars[i]
  /\ R[j] \in Seq(CharacterKinds) /\ R[j + 1] = R[j] \o x.reads

LEMMA ItemAt ==
  ASSUME NEW l, NEW s, NEW P, NEW R, Spelt(l, s, P, R), NEW j \in 0 .. Len(s) - 1
  PROVE  Ahead(l, P, R, j, s[j + 1])
<1> DEFINE C == [k \in DOMAIN s |-> s[k].chars]
           D == [k \in DOMAIN s |-> s[k].reads]
<1>1. s \in Seq(StringItems) /\ Len(s) \in Nat /\ DOMAIN s = 1 .. Len(s) /\ j + 1 \in 1 .. Len(s)
      /\ (j + 1) - 1 = j
  BY DEF Spelt
<1>2. \A k \in 1 .. Len(s) : ItemIs(s[k])
  BY <1>1, Items
<1>3. /\ C \in Seq(Seq(CharacterKinds)) /\ D \in Seq(Seq(CharacterKinds))
      /\ Len(C) = Len(s) /\ Len(D) = Len(s)
      /\ C[j + 1] = s[j + 1].chars /\ D[j + 1] = s[j + 1].reads
  BY <1>1, <1>2 DEF ItemIs
<1> HIDE DEF C, D
<1>4. Sums(P, C, CharacterKinds) /\ Sums(R, D, CharacterKinds)
  BY DEF Spelt, C, D
<1>5. /\ Len(P[j]) \in Nat /\ Len(P[j + 1]) = Len(P[j]) + Len(C[j + 1])
      /\ Len(P[j + 1]) <= Len(P[Len(s)])
  <2>1. j + 1 \in 1 .. Len(C)
    BY <1>1, <1>3
  <2>2. /\ Len(P[(j + 1) - 1]) \in Nat /\ Len(P[j + 1]) = Len(P[(j + 1) - 1]) + Len(C[j + 1])
        /\ Len(P[j + 1]) <= Len(P[Len(C)])
    BY <1>3, <1>4, <2>1, SumsGrow
  <2> QED
    BY <1>1, <1>3, <2>2
<1>6. R[j] \in Seq(CharacterKinds) /\ R[j + 1] = R[j] \o D[j + 1]
  <2>1. j + 1 \in 1 .. Len(D)
    BY <1>1, <1>3
  <2>2. R[(j + 1) - 1] \in Seq(CharacterKinds) /\ R[j + 1] = R[(j + 1) - 1] \o D[j + 1]
    BY <1>3, <1>4, <2>1, SumsGrow
  <2> QED
    BY <1>1, <2>2
<1>8. ItemIs(s[j + 1]) /\ Len(s[j + 1].chars) \in Nat
  BY <1>1, <1>2 DEF ItemIs
<1>7. ASSUME NEW i \in 1 .. Len(s[j + 1].chars)
      PROVE  l.chars[1 + Len(P[j]) + i] = s[j + 1].chars[i]
  <2>1. j + 1 \in 1 .. Len(C) /\ i \in 1 .. Len(C[j + 1])
    BY <1>1, <1>3
  <2>2. P[Len(C)][Len(P[(j + 1) - 1]) + i] = C[j + 1][i]
    <3>1. PICK k : k = j + 1
      OBVIOUS
    <3>2. C \in Seq(Seq(CharacterKinds)) /\ Sums(P, C, CharacterKinds)
      BY <1>3, <1>4
    <3>3. k \in 1 .. Len(C) /\ i \in 1 .. Len(C[k])
      BY ONLY <2>1, <3>1
    <3>4. P[Len(C)][Len(P[k - 1]) + i] = C[k][i]
      BY ONLY <3>2, <3>3, SumsRead, SMTT(30)
    <3> QED
      BY ONLY <3>1, <3>4
  <2>3. P[Len(s)][Len(P[j]) + i] = s[j + 1].chars[i]
    BY <1>1, <1>3, <2>2
  <2>4. Len(P[Len(s)]) \in Nat /\ \A k \in 1 .. Len(P[Len(s)]) : l.chars[1 + k] = P[Len(s)][k]
    BY SpeltChars
  <2>5. Len(P[j]) + i \in 1 .. Len(P[Len(s)]) /\ 1 + (Len(P[j]) + i) = 1 + Len(P[j]) + i
    <3>1. PICK a, b, c, d : /\ a = Len(P[j]) /\ b = Len(C[j + 1])
                            /\ c = Len(P[Len(s)]) /\ d = Len(P[j + 1])
      OBVIOUS
    <3>2. a \in Nat /\ d = a + b /\ d <= c /\ c \in Nat /\ i \in 1 .. b
      BY <1>5, <2>1, <2>4, <3>1
    <3>3. b \in Nat
      BY <1>3, <1>8, <3>1
    <3>4. a + i \in 1 .. c /\ 1 + (a + i) = 1 + a + i
      BY <3>2, <3>3
    <3> QED
      BY <3>1, <3>4, Zenon
  <2> QED
    BY <2>3, <2>4, <2>5
<1>9. Len(P[j + 1]) + 2 <= Len(l.chars)
  <2>1. Len(l.chars) = Len(P[Len(s)]) + 2 /\ Len(P[Len(s)]) \in Nat
    BY SpeltChars
  <2>2. PICK a, b, c, d :
          a = Len(P[j]) /\ b = Len(C[j + 1]) /\ c = Len(P[Len(s)]) /\ d = Len(P[j + 1])
    OBVIOUS
  <2>3. a \in Nat /\ d = a + b /\ d <= c /\ c \in Nat /\ Len(l.chars) = c + 2
    BY <1>5, <2>1, <2>2
  <2>4. b \in Nat
    BY <1>3, <1>8, <2>2
  <2>5. d + 2 <= Len(l.chars)
    BY <2>3, <2>4
  <2> QED
    BY <2>2, <2>5, Zenon
<1> QED
  BY <1>3, <1>5, <1>6, <1>7, <1>8, <1>9 DEF Ahead

\* A step to the place e of a literal in quotes, within its items
LEMMA GoesInString ==
  ASSUME NEW l, NEW s, NEW P, NEW R, Spelt(l, s, P, R), NEW j, NEW o, NEW e,
         InItem(s, P, R, j, e)', e \in o .. Len(l.chars), Moves(l, o, 0, e, 0),
         tokens' = tokens, compiling' = compiling
  PROVE  Goes(l, o, 0, 0)
<1>1. InString(l, e, 0, 0)'
  BY DEF InString
<1>2. Within(l, e, 0, 0)'
  BY <1>1 DEF Within
<1>3. Emits(l, 0, 0)
  BY DEF Emits
<1> QED
  BY <1>2, <1>3 DEF Goes

\* The next two characters, when they belong to l
LEMMA TwoAhead ==
  ASSUME NEW l, NEW o \in Nat, View(l, o, 0), Len(l.chars) \in Nat, o + 1 <= Len(l.chars)
  PROVE  /\ Len(rest) \in Nat \ {0}
         /\ rest[1] = l.chars[o + 1] /\ rest[1] \in CharacterKinds
         /\ Len(rest) > 1 /\ o + 2 <= Len(l.chars) => rest[2] = l.chars[o + 2]
<1>1. PICK n, k : n = Len(rest) /\ k = Len(l.chars)
  OBVIOUS
<1>2. /\ n \in Nat \ {0} /\ rest \in Seq(CharacterKinds)
      /\ \A i \in 1 .. n - 0 : o + i <= k => rest[0 + i] = l.chars[o + i]
  BY <1>1 DEF View
<1>3. 1 \in 1 .. n - 0 /\ 0 + 1 = 1 /\ 0 + 2 = 2 /\ (n > 1 => 2 \in 1 .. n - 0)
  BY ONLY <1>2
<1>4. rest[1] = l.chars[o + 1]
  BY ONLY <1>1, <1>2, <1>3, o + 1 <= Len(l.chars)
<1>5. n > 1 /\ o + 2 <= k => rest[2] = l.chars[o + 2]
  BY ONLY <1>2, <1>3
<1>6. rest[1] \in CharacterKinds
  BY ONLY <1>1, <1>2, ElementOfSeq, 1 \in 1 .. n
<1> QED
  BY ONLY <1>1, <1>2, <1>4, <1>5, <1>6

LEMMA CharacterOfItem ==
  ASSUME NEW l, NEW s, NEW P, NEW R, Spelt(l, s, P, R), NEW o, View(l, o, 0), Rule,
         NEW j \in 0 .. Len(s) - 1, InItem(s, P, R, j, o), o = 1 + Len(P[j]), start = "STRING",
         literal = R[j]
  PROVE  Goes(l, o, 0, 0)
<1> DEFINE x == s[j + 1]
<1>0. Ahead(l, P, R, j, x)
  BY ItemAt
<1> HIDE DEF x
<1>1. /\ ItemIs(x) /\ Len(P[j]) \in Nat /\ Len(x.chars) \in Nat
      /\ Len(P[j + 1]) = Len(P[j]) + Len(x.chars) /\ Len(P[j + 1]) + 2 <= Len(l.chars)
      /\ \A i \in 1 .. Len(x.chars) : l.chars[1 + Len(P[j]) + i] = x.chars[i]
      /\ R[j] \in Seq(CharacterKinds) /\ R[j + 1] = R[j] \o x.reads
  BY <1>0 DEF Ahead
<1>2. Len(l.chars) \in Nat
  BY SpeltChars
<1>3. j + 1 \in 0 .. Len(s) /\ Len(s) \in Nat /\ o \in Nat
  BY <1>1 DEF Spelt
<1>4. Len(x.chars) \in 1 .. 2
  BY <1>1 DEF ItemIs, PlainItem, EscapeItem, LoneItem, TwoByteItem
<1>5. o + 1 < Len(l.chars) /\ l.chars[o + 1] = x.chars[1] /\ Len(rest) \in Nat \ {0}
      /\ (Len(x.chars) = 2 => o + 2 < Len(l.chars) /\ l.chars[o + 2] = x.chars[2])
  <2>1. PICK a, b, c : a = Len(P[j]) /\ b = Len(x.chars) /\ c = Len(P[j + 1])
    OBVIOUS
  <2>2. a \in Nat /\ b \in 1 .. 2 /\ c = a + b /\ c + 2 <= Len(l.chars) /\ o = 1 + a
    BY <1>1, <1>4, <2>1
  <2>3. o + 1 < Len(l.chars) /\ (b = 2 => o + 2 < Len(l.chars))
    BY ONLY <1>2, <2>2
  <2>4. l.chars[o + 1] = x.chars[1] /\ (b = 2 => l.chars[o + 2] = x.chars[2])
    <3>1. 1 \in 1 .. b /\ 1 + a + 1 = o + 1 /\ 1 + a + 2 = o + 2 /\ (b = 2 => 2 \in 1 .. b)
      BY ONLY <2>2
    <3>2. \A i \in 1 .. b : l.chars[1 + a + i] = x.chars[i]
      BY <1>1, <2>1
    <3>3. l.chars[1 + a + 1] = x.chars[1] /\ (b = 2 => l.chars[1 + a + 2] = x.chars[2])
      BY ONLY <3>1, <3>2
    <3> QED
      BY ONLY <3>1, <3>3
  <2>5. Len(rest) \in Nat \ {0}
    BY DEF View
  <2> QED
    BY <2>1, <2>3, <2>4, <2>5
<1>6. rest[1] = x.chars[1] /\ rest[1] \in CharacterKinds
      /\ (Len(rest) > 1 /\ Len(x.chars) = 2 => rest[2] = x.chars[2])
  <2>1. /\ o \in Nat /\ Len(l.chars) \in Nat /\ o + 1 <= Len(l.chars)
        /\ Len(x.chars) = 2 => o + 2 <= Len(l.chars)
    BY ONLY <1>2, <1>3, <1>5
  <2>2. /\ rest[1] = l.chars[o + 1] /\ rest[1] \in CharacterKinds
        /\ Len(rest) > 1 /\ o + 2 <= Len(l.chars) => rest[2] = l.chars[o + 2]
    BY ONLY <2>1, View(l, o, 0), TwoAhead
  <2> QED
    BY ONLY <1>5, <2>1, <2>2
<1>7. rest[1] = "bs" => Len(rest) > 1
  <2>1. ASSUME rest[1] = "bs", ~(Len(rest) > 1) PROVE FALSE
    <3>1. Len(rest) = 1
      <4>1. PICK n : n = Len(rest)
        OBVIOUS
      <4>2. n \in Nat \ {0} /\ ~(n > 1)
        BY <1>5, <2>1, <4>1, Zenon
      <4>3. n = 1
        BY <4>2
      <4> QED
        BY <4>1, <4>3, Zenon
    <3>2. NeedsMore
      BY <2>1, <3>1 DEF NeedsMore
    <3>3. Len(rest) >= 0 + Len(l.chars) - o
      BY <3>2 DEF View
    <3> QED
      BY <1>2, <1>3, <1>5, <3>1, <3>3
  <2> QED
    BY <2>1
<1>8. CASE PlainItem(x)
  <2>1. CharacterInString
    BY <1>6, <1>8, StringRule DEF PlainItem, IsEscape
  <2>2. literal' = R[j + 1] /\ start' = "STRING" /\ tokens' = tokens /\ compiling' = compiling
    <3>1. literal' = Append(R[j], rest[1]) /\ x.reads = <<rest[1]>>
      <4>1. literal' = Append(R[j], rest[1])
        BY <1>6, <1>8, <2>1 DEF CharacterInString, AddStringLiteral, PlainItem
      <4>2. x.reads = <<x.chars[1]>>
        BY ONLY <1>1, <1>8 DEF PlainItem, ItemIs
      <4> QED
        BY ONLY <1>6, <4>1, <4>2
    <3>2. Append(R[j], rest[1]) = R[j] \o <<rest[1]>>
      BY <1>1, <1>6, Appended
    <3> QED
      BY <1>1, <1>6, <1>8, <2>1, <3>1, <3>2 DEF CharacterInString, Begins, PlainItem
  <2>3. Moves(l, o, 0, o + 1, 0)
    <3>1. line' = line + (IF l.chars[o + 1] \in Breaks THEN 1 ELSE 0) /\ Consumes((o + 1) - o)
      BY <1>3, <1>5, <1>6, <1>8, <2>1, OneLetter DEF CharacterInString, Breaks, PlainItem
    <3> QED
      BY <1>3, <1>5, <3>1 DEF Moves, Counts
  <2>4. InItem(s, P, R, j + 1, o + 1)'
    <3>1. Len(x.chars) = 1
      BY <1>8 DEF PlainItem
    <3>2. o + 1 = 1 + Len(P[j + 1])
      BY <1>1, <3>1
    <3> QED
      BY <1>3, <2>2, <3>2 DEF InItem
  <2>5. o + 1 \in o .. Len(l.chars)
    BY <1>2, <1>3, <1>5
  <2> QED
    BY <2>2, <2>3, <2>4, <2>5, GoesInString
<1>9. CASE EscapeItem(x)
  <2>1. EscapeInString /\ rest[2] = x.chars[2]
    <3>1. Len(rest) > 1
      <4>1. rest[1] = "bs"
        BY <1>6, <1>9 DEF EscapeItem
      <4> QED
        BY <1>7, <4>1
    <3>2. IsEscape
      BY <1>6, <1>9, <3>1 DEF EscapeItem, IsEscape, Escapes
    <3> QED
      BY <1>6, <1>9, <3>1, <3>2, StringRule DEF EscapeItem
  <2>2. literal' = R[j + 1] /\ start' = "STRING" /\ tokens' = tokens /\ compiling' = compiling
    <3>1. literal' = Append(R[j], Escapes[rest[2]]) /\ x.reads = <<Escapes[rest[2]]>>
      BY <1>9, <2>1 DEF EscapeInString, AddStringLiteral, EscapeItem
    <3>2. Escapes[rest[2]] \in CharacterKinds
      BY <1>9, <2>1 DEF EscapeItem, Escapes, CharacterKinds
    <3>3. Append(R[j], Escapes[rest[2]]) = R[j] \o <<Escapes[rest[2]]>>
      BY <1>1, <3>2, Appended
    <3> QED
      BY <1>1, <2>1, <3>1, <3>3 DEF EscapeInString
  <2>3. Moves(l, o, 0, o + 2, 0)
    <3>1. line' = line /\ Consumes((o + 2) - o) /\ Len(rest) > 1
      BY <1>3, <2>1 DEF EscapeInString, IsEscape
    <3>2. l.chars[o + 1] \notin Breaks /\ l.chars[o + 2] \notin Breaks
      BY <1>5, <1>9 DEF EscapeItem, Breaks
    <3> QED
      BY <1>3, <1>5, <3>1, <3>2 DEF Moves, Counts
  <2>4. InItem(s, P, R, j + 1, o + 2)'
    <3>1. Len(x.chars) = 2
      BY <1>9 DEF EscapeItem
    <3>2. o + 2 = 1 + Len(P[j + 1])
      BY <1>1, <3>1
    <3> QED
      BY <1>3, <2>2, <3>2 DEF InItem
  <2>5. o + 2 \in o .. Len(l.chars)
    BY <1>2, <1>3, <1>5, <1>9, SMTT(30) DEF EscapeItem
  <2> QED
    BY <2>2, <2>3, <2>4, <2>5, GoesInString
<1>10. CASE LoneItem(x)
  <2>1. CharacterInString
    <3>1. Len(rest) > 1
      <4>1. rest[1] = "bs"
        BY <1>6, <1>10 DEF LoneItem
      <4> QED
        BY <1>7, <4>1
    <3>2. ~IsEscape
      BY <1>6, <1>10, <3>1 DEF LoneItem, IsEscape, Escapes
    <3> QED
      BY <1>6, <1>10, <3>2, StringRule DEF LoneItem
  <2>2. /\ literal' = Append(R[j], "bs") /\ start' = "STRING" /\ tokens' = tokens
        /\ compiling' = compiling
    BY <1>6, <1>10, <2>1 DEF CharacterInString, AddStringLiteral, Begins, LoneItem
  <2>3. Moves(l, o, 0, o + 1, 0)
    <3>1. line' = line + (IF l.chars[o + 1] \in Breaks THEN 1 ELSE 0) /\ Consumes((o + 1) - o)
      BY <1>3, <1>5, <1>6, <1>10, <2>1, OneLetter DEF CharacterInString, Breaks, LoneItem
    <3> QED
      BY <1>3, <1>5, <3>1 DEF Moves, Counts
  <2>4. InItem(s, P, R, j, o + 1)'
    BY <1>1, <1>3, <1>10, <2>2 DEF InItem, x
  <2>5. o + 1 \in o .. Len(l.chars)
    BY <1>2, <1>3, <1>5
  <2> QED
    BY <2>2, <2>3, <2>4, <2>5, GoesInString
<1>11. CASE TwoByteItem(x)
  <2>1. CharacterInString
    BY <1>6, <1>11, StringRule DEF TwoByteItem, IsEscape
  <2>2. /\ literal' = Append(R[j], "lead") /\ start' = "SHIFT_JIS_2ND_CHAR" /\ tokens' = tokens
        /\ compiling' = compiling
    BY <1>6, <1>11, <2>1 DEF CharacterInString, AddStringLiteral, Begins, TwoByteItem
  <2>3. Moves(l, o, 0, o + 1, 0)
    <3>1. line' = line + (IF l.chars[o + 1] \in Breaks THEN 1 ELSE 0) /\ Consumes((o + 1) - o)
      BY <1>3, <1>5, <1>6, <1>11, <2>1, OneLetter DEF CharacterInString, Breaks, TwoByteItem
    <3> QED
      BY <1>3, <1>5, <3>1 DEF Moves, Counts
  <2>4. InItem(s, P, R, j, o + 1)'
    BY <1>1, <1>3, <1>11, <2>2 DEF InItem, x
  <2>5. o + 1 \in o .. Len(l.chars)
    BY <1>2, <1>3, <1>5
  <2> QED
    BY <2>2, <2>3, <2>4, <2>5, GoesInString
<1> QED
  BY <1>1, <1>8, <1>9, <1>10, <1>11 DEF ItemIs

LEMMA SecondOfItem ==
  ASSUME NEW l, NEW s, NEW P, NEW R, Spelt(l, s, P, R), NEW o, View(l, o, 0), Rule,
         NEW j \in 0 .. Len(s) - 1, o = 2 + Len(P[j]), line \in Nat,
         \/ start = "STRING" /\ LoneItem(s[j + 1]) /\ literal = Append(R[j], "bs")
         \/ /\ start = "SHIFT_JIS_2ND_CHAR" /\ TwoByteItem(s[j + 1])
            /\ literal = Append(R[j], "lead")
  PROVE  Goes(l, o, 0, 0)
<1> DEFINE x == s[j + 1]
<1>0. Ahead(l, P, R, j, x)
  BY ItemAt
<1>1. /\ ItemIs(x) /\ Len(P[j]) \in Nat
      /\ Len(P[j + 1]) = Len(P[j]) + Len(x.chars) /\ Len(P[j + 1]) + 2 <= Len(l.chars)
      /\ \A i \in 1 .. Len(x.chars) : l.chars[1 + Len(P[j]) + i] = x.chars[i]
      /\ R[j] \in Seq(CharacterKinds) /\ R[j + 1] = R[j] \o x.reads
  BY <1>0, Zenon DEF Ahead
<1>2. Len(l.chars) \in Nat
  BY SpeltChars
<1>3. j + 1 \in 0 .. Len(s) /\ Len(s) \in Nat /\ o \in Nat
  BY <1>1 DEF Spelt
<1>4. Len(x.chars) = 2 /\ x.reads = x.chars /\ x.chars \in Seq(CharacterKinds)
  BY <1>1 DEF LoneItem, TwoByteItem, ItemIs
<1>5. l.chars[o + 1] = x.chars[2] /\ o + 1 < Len(l.chars) /\ Len(rest) \in Nat \ {0}
      /\ Len(P[j + 1]) = o
  <2>1. l.chars[1 + Len(P[j]) + 2] = x.chars[2] /\ 1 + Len(P[j]) + 2 = o + 1
    BY <1>1, <1>4
  <2>2. PICK a, b, c : a = Len(P[j]) /\ b = Len(P[j + 1]) /\ c = Len(l.chars)
    OBVIOUS
  <2>3. a \in Nat /\ b = a + 2 /\ b + 2 <= c /\ o = 2 + a /\ c \in Nat
    BY <1>1, <1>2, <1>4, <2>2
  <2>4. o + 1 < c /\ b = o
    BY ONLY <2>3
  <2>5. Len(rest) \in Nat \ {0}
    BY DEF View
  <2> QED
    BY ONLY <2>1, <2>2, <2>4, <2>5
<1>6. rest[1] = x.chars[2] /\ rest[1] \in CharacterKinds
  BY <1>3, <1>5, SMTT(30) DEF View
<1>7. x.reads = <<x.chars[1], rest[1]>> /\ x.chars[1] \in CharacterKinds
  BY <1>4, <1>6
<1> HIDE DEF x
<1>8. literal = Append(R[j], x.chars[1])
  BY DEF x, LoneItem, TwoByteItem
<1>9. Append(literal, rest[1]) = R[j + 1]
  <2>1. PICK f, g : f = x.chars[1] /\ g = rest[1]
    OBVIOUS
  <2>2. f \in CharacterKinds /\ g \in CharacterKinds /\ x.reads = <<f, g>>
    BY <1>6, <1>7, <2>1
  <2>3. PICK y \in Seq(CharacterKinds) : y = R[j]
    BY <1>1
  <2>4. Append(Append(y, f), g) = y \o <<f, g>>
    <3>1. y \in Seq(CharacterKinds) /\ f \in CharacterKinds /\ g \in CharacterKinds
      BY <2>2
    <3>2. Append(y, f) = y \o <<f>> /\ Append(Append(y, f), g) = y \o <<f, g>>
      BY ONLY <3>1, Appended
    <3> QED
      BY ONLY <3>2
  <2> QED
    BY <1>1, <1>8, <2>1, <2>2, <2>3, <2>4, Zenon
<1>10. CASE start = "STRING" /\ LoneItem(x)
  <2>1. rest[1] = "semi"
    BY <1>6, <1>10 DEF LoneItem
  <2>2. CharacterInString
    BY <1>10, <2>1, StringRule DEF IsEscape
  <2>3. /\ literal' = R[j + 1] /\ start' = "STRING" /\ tokens' = tokens
        /\ compiling' = compiling
    BY <1>9, <2>1, <2>2 DEF CharacterInString, AddStringLiteral, Begins
  <2>4. Moves(l, o, 0, o + 1, 0)
    <3>1. line' = line + (IF l.chars[o + 1] \in Breaks THEN 1 ELSE 0) /\ Consumes((o + 1) - o)
      BY <1>3, <1>5, <1>6, <2>1, <2>2, OneLetter, SMTT(30) DEF CharacterInString, Breaks
    <3> QED
      BY <1>3, <1>5, <3>1 DEF Moves, Counts
  <2>5. InItem(s, P, R, j + 1, o + 1)'
    BY <1>3, <1>5, <2>3 DEF InItem
  <2>6. o + 1 \in o .. Len(l.chars)
    BY <1>2, <1>3, <1>5
  <2> QED
    BY <2>3, <2>4, <2>5, <2>6, GoesInString
<1>11. CASE start = "SHIFT_JIS_2ND_CHAR" /\ TwoByteItem(x)
  <2>1. rest[1] # "nl" /\ rest[1] \notin Breaks
    BY <1>6, <1>11 DEF TwoByteItem, Breaks
  <2>2. SecondByte
    BY <1>11, OtherRules
  <2>3. /\ literal' = R[j + 1] /\ start' = "STRING" /\ tokens' = tokens
        /\ compiling' = compiling
    BY <1>9, <2>1, <2>2 DEF SecondByte, AddStringLiteral, Begins
  <2>4. Moves(l, o, 0, o + 1, 0)
    <3>1. line' = line + (IF l.chars[o + 1] \in Breaks THEN 1 ELSE 0) /\ Consumes((o + 1) - o)
      <4>1. line' = line /\ Consumes(1)
        BY <2>2 DEF SecondByte
      <4>2. line + 0 = line
        OBVIOUS
      <4> QED
        BY <1>3, <1>5, <1>6, <2>1, <4>1, <4>2
    <3> QED
      BY <1>3, <1>5, <3>1 DEF Moves, Counts
  <2>5. InItem(s, P, R, j + 1, o + 1)'
    BY <1>3, <1>5, <2>3 DEF InItem
  <2>6. o + 1 \in o .. Len(l.chars)
    BY <1>2, <1>3, <1>5
  <2> QED
    BY <2>3, <2>4, <2>5, <2>6, GoesInString
<1> QED
  BY <1>10, <1>11 DEF x

\* The next character, and the one behind it
LEMMA InView ==
  ASSUME NEW l, NEW o \in Nat, Len(l.chars) \in Nat, View(l, o, 0)
  PROVE  /\ rest[1] = l.chars[o + 1] /\ rest[1] \in CharacterKinds
         /\ Len(rest) \in Nat /\ Len(rest) > 0 /\ o < Len(l.chars)
         /\ Len(rest) > 1 /\ o + 2 <= Len(l.chars) => rest[2] = l.chars[o + 2]
<1>1. /\ rest \in Seq(CharacterKinds) /\ Len(rest) > 0 /\ o < Len(l.chars)
      /\ \A i \in 1 .. Len(rest) : o + i <= Len(l.chars) => rest[i] = l.chars[o + i]
  BY DEF View
<1>2. PICK n : n = Len(rest)
  OBVIOUS
<1>3. n \in Nat /\ n > 0 /\ \A i \in 1 .. n : o + i <= Len(l.chars) => rest[i] = l.chars[o + i]
  BY <1>1, <1>2
<1>4. rest[1] = l.chars[o + 1] /\ (n > 1 /\ o + 2 <= Len(l.chars) => rest[2] = l.chars[o + 2])
  <2>1. 1 \in 1 .. n /\ (n > 1 => 2 \in 1 .. n) /\ o + 1 <= Len(l.chars)
    BY <1>1, <1>3
  <2> QED
    BY <1>3, <2>1
<1>5. rest[1] \in CharacterKinds
  BY <1>1, <1>2, <1>3
<1> QED
  BY <1>1, <1>2, <1>3, <1>4, <1>5

\* Where more is needed it is there, unless the lexeme ends.
LEMMA Delivered ==
  ASSUME NEW l, NEW o \in Nat, Len(l.chars) \in Nat, View(l, o, 0), o + 1 < Len(l.chars),
         Len(rest) = 1 => NeedsMore
  PROVE  Len(rest) > 1 /\ rest[2] = l.chars[o + 2]
<1>1. PICK n, m : n = Len(rest) /\ m = Len(l.chars)
  OBVIOUS
<1>2. n \in Nat /\ n > 0 /\ m \in Nat /\ o + 1 < m
  BY <1>1, InView
<1>3. n = 1 => n >= 0 + m - o
  BY <1>1 DEF View
<1>4. n > 1 /\ o + 2 <= m
  BY <1>2, <1>3
<1> QED
  BY <1>1, <1>4, InView

LEMMA OneOn ==
  ASSUME NEW l, NEW o \in Nat, Len(l.chars) \in Nat, View(l, o, 0), Consumes(1), line \in Nat,
         l.whole = TRUE => line' = line + (IF rest[1] \in Breaks THEN 1 ELSE 0)
  PROVE  Moves(l, o, 0, o + 1, 0) /\ o + 1 \in o .. Len(l.chars) /\ o + 1 \in Nat
<1>1. rest[1] = l.chars[o + 1] /\ o < Len(l.chars) /\ Len(rest) \in Nat /\ Len(rest) > 0
  BY InView
<1>2. (o + 1) - o = 1 /\ 1 \in 1 .. Len(rest)
  BY <1>1
<1>3. l.whole = TRUE => Counts(l, o, o + 1)
  BY <1>1 DEF Counts
<1> QED
  BY <1>1, <1>2, <1>3 DEF Moves

LEMMA GoesOn ==
  ASSUME NEW l, NEW o, NEW e, NEW t, NEW p, NEW r, Within(l, e, t, r)', e \in o .. Len(l.chars),
         Moves(l, o, p, e, r), tokens' = tokens, compiling' = compiling
  PROVE  Goes(l, o, t, p)
<1>1. Emits(l, t, t)
  BY DEF Emits
<1> QED
  BY <1>1 DEF Goes

LEMMA GoesReturning ==
  ASSUME NEW l, NEW o, NEW e, NEW t, NEW p, NEW r, Within(l, e, t + 1, r)', e \in o .. Len(l.chars),
         Moves(l, o, p, e, r), t + 1 <= Len(l.means), Returns(l.means[t + 1])
  PROVE  Goes(l, o, t, p)
<1>1. Emits(l, t, t + 1)
  BY DEF Emits, Returns
<1> QED
  BY <1>1 DEF Goes

LEMMA EndOfString ==
  ASSUME NEW l, NEW s, NEW P, NEW R, Spelt(l, s, P, R), NEW o \in Nat, View(l, o, 0), Rule,
         o = 1 + Len(P[Len(s)]), start = "STRING", literal = R[Len(s)], line \in Nat
  PROVE  Goes(l, o, 0, 0)
<1>1. Len(P[Len(s)]) \in Nat /\ Len(l.chars) = Len(P[Len(s)]) + 2
      /\ l.chars[Len(P[Len(s)]) + 2] = "quote"
  BY SpeltChars
<1>2. Len(l.chars) \in Nat /\ o + 1 = Len(l.chars) /\ l.chars[o + 1] = "quote"
  <2>1. PICK a : a = Len(P[Len(s)])
    OBVIOUS
  <2>2. a \in Nat /\ Len(l.chars) = a + 2 /\ l.chars[a + 2] = "quote" /\ o = 1 + a
    BY <1>1, <2>1
  <2>3. o + 1 = a + 2
    BY <2>2
  <2> QED
    BY <2>2, <2>3
<1>3. rest[1] = "quote"
  BY <1>2, InView
<1>4. CloseString
  BY <1>3, StringRule
<1>5. Consumes(1) /\ ClosesLiteral("STRING")
  BY <1>4 DEF CloseString
<1>6. l.means = <<Token("STRING", R[Len(s)])>> /\ l.whole = TRUE
  BY DEF Spelt
<1>7. CASE Exits
  BY <1>7, StopsThere DEF Goes
<1>8. CASE /\ AddStringLiteral("nul") /\ Returns(Token("STRING", literal)) /\ Begins("INITIAL")
           /\ UNCHANGED <<delimiter, line>>
  <2>1. Returns(l.means[0 + 1]) /\ 0 + 1 <= Len(l.means) /\ Len(l.means) = 1
    BY <1>6, <1>8
  <2>2. AtItsEnd(l, o + 1, 0 + 1, 0)'
    BY <1>2, <1>6, <1>8, <2>1 DEF AtItsEnd, Begins
  <2>3. Within(l, o + 1, 0 + 1, 0)'
    BY <2>2 DEF Within
  <2>4. line' = line + (IF rest[1] \in Breaks THEN 1 ELSE 0)
    BY <1>3, <1>8 DEF Breaks
  <2>5. Moves(l, o, 0, o + 1, 0) /\ o + 1 \in o .. Len(l.chars)
    BY <1>2, <1>5, <2>4, OneOn
  <2> QED
    BY <2>1, <2>3, <2>5, GoesReturning
<1> QED
  BY <1>5, <1>7, <1>8 DEF ClosesLiteral

LEMMA StringGoes ==
  ASSUME NEW l, NEW o, NEW t, NEW p, InString(l, o, t, p), View(l, o, p), Rule, line \in Nat
  PROVE  Goes(l, o, t, p)
<1>1. PICK s, P, R : Spelt(l, s, P, R) /\ \E j : InItem(s, P, R, j, o)
  BY DEF InString
<1>2. p = 0 /\ t = 0 /\ Len(s) \in Nat
  BY <1>1 DEF InString, Spelt
<1>3. PICK j : InItem(s, P, R, j, o)
  BY <1>1
<1>4. CASE start = "STRING" /\ j \in 0 .. Len(s) /\ o = 1 + Len(P[j]) /\ literal = R[j]
  <2>1. CASE j = Len(s)
    <3>1. Len(P[Len(s)]) \in Nat
      BY <1>1, SpeltChars
    <3>2. o \in Nat
      BY <1>4, <2>1, <3>1
    <3> QED
      BY <1>1, <1>2, <1>4, <2>1, <3>2, EndOfString
  <2>2. CASE j # Len(s)
    <3>1. j \in 0 .. Len(s) - 1
      BY <1>2, <1>4, <2>2
    <3> QED
      BY <1>1, <1>2, <1>3, <1>4, <3>1, CharacterOfItem
  <2> QED
    BY <2>1, <2>2
<1>5. CASE /\ j \in 0 .. Len(s) - 1 /\ o = 2 + Len(P[j])
           /\ \/ start = "STRING" /\ LoneItem(s[j + 1]) /\ literal = Append(R[j], "bs")
              \/ /\ start = "SHIFT_JIS_2ND_CHAR" /\ TwoByteItem(s[j + 1])
                 /\ literal = Append(R[j], "lead")
  BY <1>1, <1>2, <1>5, SecondOfItem
<1> QED
  BY <1>3, <1>4, <1>5 DEF InItem

LEMMA CommentGoes ==
  ASSUME NEW l, NEW o, NEW t, NEW p, AfterHash(l, o, t, p), View(l, o, p), Rule, line \in Nat
  PROVE  Goes(l, o, t, p)
<1>1. PICK s : Commented(l, s) /\ o \in 1 .. Len(s) + 1
  BY DEF AfterHash
<1>2. p = 0 /\ t = 0 /\ start = "COMMENT"
  BY DEF AfterHash
<1>3. Len(l.chars) = Len(s) + 2 /\ Len(s) \in Nat /\ l.chars[Len(s) + 2] = "nl"
      /\ \A i \in 1 .. Len(s) : l.chars[1 + i] \in {"quote", "pr", "hash"}
  BY <1>1, CommentedChars
<1>4. InComment
  BY <1>2, OtherRules
<1>5. o \in Nat /\ Len(l.chars) \in Nat
  BY <1>1, <1>3
<1>8. rest[1] = l.chars[o + 1]
  BY <1>2, <1>5, InView
<1>6. line' = line + (IF rest[1] \in Breaks THEN 1 ELSE 0) /\ Consumes(1)
      /\ tokens' = tokens /\ compiling' = compiling
  <2>1. rest[1] # "cr"
    <3>1. o = Len(s) + 1 => o + 1 = Len(s) + 2
      BY <1>3
    <3>2. o # Len(s) + 1 => o \in 1 .. Len(s) /\ o + 1 = 1 + o
      BY <1>1, <1>3
    <3> QED
      BY <1>3, <1>8, <3>1, <3>2
  <2> QED
    BY <1>4, <2>1, OneLetter DEF InComment, Breaks
<1>7. Moves(l, o, 0, o + 1, 0) /\ o + 1 \in o .. Len(l.chars)
  BY <1>2, <1>5, <1>6, OneOn
<1>9. Within(l, o + 1, 0, 0)'
  <2>1. CASE o = Len(s) + 1
    <3>1. o + 1 = Len(l.chars) /\ rest[1] = "nl"
      BY <1>3, <1>8, <2>1
    <3>2. start' = "INITIAL" /\ l.means = <<>> /\ l.whole = TRUE
      BY <1>1, <1>4, <3>1 DEF InComment, Begins, Commented
    <3>3. AtItsEnd(l, o + 1, 0, 0)'
      BY <3>1, <3>2 DEF AtItsEnd
    <3> QED
      BY <3>3 DEF Within
  <2>2. CASE o # Len(s) + 1
    <3>1. o \in 1 .. Len(s) /\ o + 1 = 1 + o /\ o + 1 \in 1 .. Len(s) + 1
      BY <1>1, <1>3, <2>2
    <3>2. rest[1] # "nl"
      BY <1>3, <1>8, <3>1
    <3>3. start' = "COMMENT"
      BY <1>4, <3>2 DEF InComment, Begins
    <3>4. AfterHash(l, o + 1, 0, 0)'
      BY <1>1, <3>1, <3>3 DEF AfterHash
    <3> QED
      BY <3>4 DEF Within
  <2> QED
    BY <2>1, <2>2
<1> QED
  BY <1>2, <1>6, <1>7, <1>9, GoesOn

\* One letter more of a sequence
LEMMA OneLetterMore ==
  ASSUME NEW S, NEW s \in Seq(S), NEW k \in 0 .. Len(s) - 1
  PROVE  Append(SubSeq(s, 1, k), s[k + 1]) = SubSeq(s, 1, k + 1)
<1>1. k \in Nat /\ k \in 0 .. Len(s) /\ k + 1 \in 0 .. Len(s) /\ k + 1 \in 1 .. Len(s)
  OBVIOUS
<1>2. PICK a, b \in Seq(S) : a = SubSeq(s, 1, k) /\ b = SubSeq(s, 1, k + 1)
  <2>1. SubSeq(s, 1, k) \in Seq(S) /\ SubSeq(s, 1, k + 1) \in Seq(S)
    BY <1>1, Foremost
  <2> QED
    BY <2>1, Zenon
<1>3. Len(a) = k /\ Len(b) = k + 1
      /\ (\A i \in 1 .. k : a[i] = s[i]) /\ \A i \in 1 .. k + 1 : b[i] = s[i]
  BY <1>1, <1>2, Foremost
<1>4. PICK c \in S : c = s[k + 1]
  BY <1>1
<1>5. PICK d \in Seq(S) : d = Append(a, c)
  BY AppendProperties
<1>6. Len(d) = k + 1 /\ (\A i \in 1 .. k : d[i] = a[i]) /\ d[k + 1] = c
  BY <1>3, <1>5, AppendProperties
<1>7. \A i \in 1 .. k + 1 : d[i] = b[i]
  <2>1. \A i \in 1 .. k + 1 : i = k + 1 \/ i \in 1 .. k
    BY <1>1
  <2> QED
    BY <1>1, <1>3, <1>4, <1>6, <2>1
<1>8. d = b
  BY <1>3, <1>6, <1>7, SeqEqual
<1> QED
  BY <1>2, <1>4, <1>5, <1>8, Zenon

LEMMA WholeSeq ==
  ASSUME NEW S, NEW s \in Seq(S)
  PROVE  SubSeq(s, 1, Len(s)) = s
<1>1. Len(s) \in 0 .. Len(s)
  OBVIOUS
<1>2. /\ SubSeq(s, 1, Len(s)) \in Seq(S) /\ Len(SubSeq(s, 1, Len(s))) = Len(s)
      /\ \A i \in 1 .. Len(s) : SubSeq(s, 1, Len(s))[i] = s[i]
  BY <1>1, Foremost
<1> QED
  BY <1>2, SeqEqual

LEMMA RegexpGoes ==
  ASSUME NEW l, NEW o, NEW t, NEW p, InRegexp(l, o, t, p), View(l, o, p), Rule, line \in Nat
  PROVE  Goes(l, o, t, p)
<1>1. PICK d, s : /\ Delimited(l, d, s) /\ delimiter = d
                  /\ o \in 2 .. 2 + Len(s) /\ literal = SubSeq(s, 1, o - 2)
  BY DEF InRegexp
<1>2. p = 0 /\ t = 0 /\ start = "REGEXP"
  BY DEF InRegexp
<1>3. /\ s \in Seq(CharacterKinds) /\ Len(s) \in Nat /\ Len(l.chars) = Len(s) + 3
      /\ l.chars[Len(s) + 3] = d /\ \A i \in 1 .. Len(s) : l.chars[2 + i] = s[i]
  BY <1>1, DelimitedChars
<1>4. o \in Nat /\ Len(l.chars) \in Nat
  BY <1>1, <1>3
<1>5. rest[1] = l.chars[o + 1]
  BY <1>2, <1>4, InView
<1>6. d \in {"bang", "quote"} /\ l.means = <<Token("REGEXP", s)>> /\ l.whole = TRUE
  BY <1>1 DEF Delimited
<1>7. CASE o = 2 + Len(s)
  <2>1. rest[1] = d /\ o + 1 = Len(l.chars)
    BY <1>3, <1>5, <1>7
  <2>2. CloseRegexp
    <3>1. CloseRegexp \/ NewlineInRegexp
      BY <1>1, <1>2, <2>1, OtherRules
    <3>2. ~NewlineInRegexp
      BY <1>6, <2>1, RuleGuards
    <3> QED
      BY <3>1, <3>2
  <2>3. Consumes(1) /\ ClosesLiteral("REGEXP")
    BY <2>2 DEF CloseRegexp
  <2>4. literal = s
    <3>1. o - 2 = Len(s)
      BY <1>3, <1>7
    <3> QED
      BY <1>1, <1>3, <3>1, WholeSeq
  <2>5. CASE Exits
    BY <2>5, StopsThere DEF Goes
  <2>6. CASE /\ AddStringLiteral("nul") /\ Returns(Token("REGEXP", literal)) /\ Begins("INITIAL")
             /\ UNCHANGED <<delimiter, line>>
    <3>1. Returns(l.means[0 + 1]) /\ 0 + 1 <= Len(l.means) /\ Len(l.means) = 1
      BY <1>6, <2>4, <2>6
    <3>2. AtItsEnd(l, o + 1, 0 + 1, 0)'
      BY <1>6, <2>1, <2>6, <3>1 DEF AtItsEnd, Begins
    <3>3. Within(l, o + 1, 0 + 1, 0)'
      BY <3>2 DEF Within
    <3>4. line' = line + (IF rest[1] \in Breaks THEN 1 ELSE 0)
      BY <1>6, <2>1, <2>6 DEF Breaks
    <3>5. Moves(l, o, 0, o + 1, 0) /\ o + 1 \in o .. Len(l.chars)
      BY <1>2, <1>4, <2>3, <3>4, OneOn
    <3> QED
      BY <1>2, <3>1, <3>3, <3>5, GoesReturning
  <2> QED
    BY <2>3, <2>5, <2>6 DEF ClosesLiteral
<1>8. CASE o # 2 + Len(s)
  <2>0. PICK k : k = o - 2
    OBVIOUS
  <2>1. k \in 0 .. Len(s) - 1 /\ k + 1 \in 1 .. Len(s) /\ o + 1 = 2 + (k + 1) /\ (o + 1) - 2 = k + 1
        /\ o + 1 \in 2 .. 2 + Len(s)
    BY <1>1, <1>3, <1>8, <2>0
  <2>2. rest[1] = s[k + 1]
    BY <1>3, <1>5, <2>1
  <2>3. s[k + 1] \in {"n", "bs", "hash", "quote", "bang"} \ {d}
    <3>1. s \in Seq({"n", "bs", "hash", "quote", "bang"} \ {d})
      BY <1>1 DEF Delimited
    <3> QED
      BY <2>1, <3>1
  <2>4. CharacterInRegexp
    BY <1>1, <1>2, <2>2, <2>3, OtherRules
  <2>5. /\ Consumes(1) /\ literal' = Append(literal, s[k + 1]) /\ start' = start
        /\ delimiter' = delimiter /\ line' = line /\ tokens' = tokens /\ compiling' = compiling
    BY <2>2, <2>4 DEF CharacterInRegexp, AddStringLiteral
  <2>6. literal' = SubSeq(s, 1, (o + 1) - 2)
    <3>1. Append(SubSeq(s, 1, k), s[k + 1]) = SubSeq(s, 1, k + 1)
      BY <1>3, <2>1, OneLetterMore
    <3> QED
      BY <1>1, <2>0, <2>1, <2>5, <3>1
  <2>7. InRegexp(l, o + 1, 0, 0)'
    <3>1. Delimited(l, d, s)' /\ delimiter' = d /\ start' = "REGEXP"
      BY <1>1, <1>2, <2>5 DEF Delimited
    <3> QED
      BY <2>1, <2>6, <3>1 DEF InRegexp
  <2>8. Within(l, o + 1, 0, 0)'
    BY <2>7 DEF Within
  <2>9. line' = line + (IF rest[1] \in Breaks THEN 1 ELSE 0)
    BY <2>2, <2>3, <2>5 DEF Breaks
  <2>10. Moves(l, o, 0, o + 1, 0) /\ o + 1 \in o .. Len(l.chars)
    BY <1>2, <1>4, <2>5, <2>9, OneOn
  <2> QED
    BY <1>2, <2>5, <2>8, <2>10, GoesOn
<1> QED
  BY <1>7, <1>8

\* Blanks
LEMMA BlankGoes ==
  ASSUME NEW l, NEW o \in Nat, NEW t, Len(l.chars) = o + 1, View(l, o, 0), Rule, line \in Nat,
         l.chars[o + 1] \in {"space"} \union Breaks, start = "INITIAL",
         t = Len(l.means), l.whole = TRUE
  PROVE  Goes(l, o, t, 0)
<1>1. Len(l.chars) \in Nat /\ o + 1 = Len(l.chars)
  OBVIOUS
<1>2. rest[1] = l.chars[o + 1] /\ Len(rest) > 0 /\ rest \in Seq(CharacterKinds)
  BY <1>1, InView DEF View
<1>3. Blank
  BY <1>2, InitialRule
<1>4. line' = line + (IF rest[1] \in Breaks THEN 1 ELSE 0) /\ Consumes(1) /\ start' = start
      /\ tokens' = tokens /\ compiling' = compiling
  BY <1>3, OneBreak DEF Blank
<1>5. Moves(l, o, 0, o + 1, 0) /\ o + 1 \in o .. Len(l.chars)
  BY <1>1, <1>4, OneOn
<1>6. AtItsEnd(l, o + 1, t, 0)'
  BY <1>1, <1>4 DEF AtItsEnd
<1>7. Within(l, o + 1, t, 0)'
  BY <1>6 DEF Within
<1> QED
  BY <1>4, <1>5, <1>7, GoesOn

LEMMA IdentifierGoes ==
  ASSUME NEW l, NEW o, NEW t, NEW p, AfterIdentifier(l, o, t, p), View(l, o, p), Rule, line \in Nat
  PROVE  Goes(l, o, t, p)
<1>1. l.chars = <<"n", "n", "space">> /\ Len(l.means) = 1 /\ l.whole = TRUE
      /\ o = 2 /\ t = 1 /\ p = 0 /\ start = "INITIAL"
  BY DEF AfterIdentifier, Lexeme
<1>2. o \in Nat /\ Len(l.chars) = o + 1 /\ l.chars[o + 1] = "space"
  BY <1>1
<1> QED
  BY <1>1, <1>2, BlankGoes

\* A row of letters n that something else ends
LEMMA RunOf ==
  ASSUME NEW S, NEW text \in Seq(S), NEW k \in Nat, k < Len(text),
         \A i \in 1 .. k : text[i] = "n", text[k + 1] # "n"
  PROVE  Run(text) = k
<1>1. /\ Run(text) \in 0 .. Len(text) /\ \A i \in 1 .. Run(text) : text[i] = "n"
      /\ Run(text) = Len(text) \/ text[Run(text) + 1] # "n"
  BY RunIs
<1>2. PICK r, n : r = Run(text) /\ n = Len(text)
  OBVIOUS
<1>3. r \in 0 .. n /\ n \in Nat /\ k < n /\ (\A i \in 1 .. r : text[i] = "n")
      /\ (r = n \/ text[r + 1] # "n")
  BY <1>1, <1>2
<1>4. ~(r > k)
  <2>1. r > k => k + 1 \in 1 .. r
    BY <1>3
  <2> QED
    BY <1>3, <2>1
<1>5. ~(r < k)
  <2>1. r < k => r + 1 \in 1 .. k /\ r # n
    BY <1>3
  <2> QED
    BY <1>3, <2>1
<1> QED
  BY <1>2, <1>3, <1>4, <1>5

LEMMA AllRun ==
  ASSUME NEW S, NEW text \in Seq(S), \A i \in 1 .. Len(text) : text[i] = "n"
  PROVE  Run(text) = Len(text)
<1>1. Run(text) \in 0 .. Len(text) /\ (Run(text) = Len(text) \/ text[Run(text) + 1] # "n")
  BY RunIs
<1>2. PICK r, n : r = Run(text) /\ n = Len(text)
  OBVIOUS
<1>3. r \in 0 .. n /\ n \in Nat /\ (\A i \in 1 .. n : text[i] = "n")
      /\ (r = n \/ text[r + 1] # "n")
  BY <1>1, <1>2
<1>4. r # n => r + 1 \in 1 .. n
  BY <1>3
<1> QED
  BY <1>2, <1>3, <1>4

\* What follows %%r when a newline does
LEMMA ModuloGoes ==
  ASSUME NEW l, NEW o, NEW t, NEW p, AfterModulo(l, o, t, p), View(l, o, p), Rule, line \in Nat
  PROVE  Goes(l, o, t, p)
<1>1. /\ l.chars = <<"pr", "nl">> /\ l.whole = TRUE
      /\ l.means = <<Token("MOD", <<>>), Token("semi", <<>>), Token("IDENTIFIER", <<"n">>)>>
      /\ l = Modulo /\ start = "INITIAL" /\ o = 1 /\ p \in 0 .. 2 /\ t = 3 - p
  BY DEF AfterModulo, Modulo, Lexeme
<1>2. Len(l.chars) = 2 /\ l.chars[2] = "nl" /\ Len(l.means) = 3
      /\ l.means[2] = Token("semi", <<>>) /\ l.means[3] = Token("IDENTIFIER", <<"n">>)
  BY <1>1
<1>3. rest \in Seq(CharacterKinds) /\ Len(rest) > 0 /\ Len(rest) \in Nat
  BY DEF View
<1>4. CASE p = 0
  <2>1. o \in Nat /\ Len(l.chars) = o + 1 /\ l.chars[o + 1] = "nl" /\ t = Len(l.means)
    BY <1>1, <1>2, <1>4
  <2> QED
    BY <1>1, <1>4, <2>1, BlankGoes DEF Breaks
<1>5. CASE p = 2
  <2>1. rest[1] = "semi"
    BY <1>5 DEF View
  <2>2. ScanOperator
    BY <1>1, <1>3, <2>1, InitialRule
  <2>3. Consumes(1) /\ Returns(Token("semi", <<>>)) /\ start' = start /\ line' = line
    BY <2>1, <2>2 DEF ScanOperator
  <2>4. t = 1 /\ t + 1 = 2 /\ t + 1 <= Len(l.means)
    BY <1>1, <1>2, <1>5
  <2>5. AfterModulo(l, o, t + 1, 1)'
    BY <1>1, <2>3, <2>4 DEF AfterModulo
  <2>6. Within(l, o, t + 1, 1)'
    BY <2>5 DEF Within
  <2>7. Moves(l, o, p, o, 1) /\ o \in o .. Len(l.chars)
    BY <1>1, <1>2, <1>5, <2>3 DEF Moves
  <2> QED
    BY <1>2, <2>3, <2>4, <2>6, <2>7, GoesReturning
<1>6. CASE p = 1
  <2>1. rest[1] = "n"
    BY <1>6 DEF View
  <2>2. Len(rest) > 1 /\ rest[2] = "nl"
    <3>1. PICK n : n = Len(rest)
      OBVIOUS
    <3>2. n = 1 => NeedsMore
      <4>1. ASSUME n = 1 PROVE Run(rest) = Len(rest)
        <5>1. \A i \in 1 .. Len(rest) : rest[i] = "n"
          BY <2>1, <3>1, <4>1
        <5> QED
          BY <1>3, <5>1, AllRun
      <4> QED
        BY <1>1, <4>1 DEF NeedsMore
    <3>3. NeedsMore => n >= 1 + 2 - 1
      BY <1>1, <1>2, <1>6, <3>1 DEF View
    <3>4. n > 1
      BY <1>3, <3>1, <3>2, <3>3
    <3>5. \A i \in 1 .. n - 1 : 1 + i <= 2 => rest[1 + i] = l.chars[1 + i]
      BY <1>1, <1>2, <1>6, <3>1 DEF View
    <3>6. 1 \in 1 .. n - 1 /\ 1 + 1 = 2
      BY <1>3, <3>1, <3>4
    <3> QED
      BY <1>2, <3>1, <3>4, <3>5, <3>6
  <2>3. Run(rest) = 1
    <3>1. \A i \in 1 .. 1 : rest[i] = "n"
      BY <2>1
    <3>2. rest[1 + 1] # "n" /\ 1 \in Nat /\ 1 < Len(rest)
      BY <2>2
    <3> QED
      BY <1>3, <3>1, <3>2, RunOf
  <2>4. ScanIdentifier
    BY <1>1, <1>3, <2>1, InitialRule
  <2>5. Consumes(1) /\ Returns(Token("IDENTIFIER", SubSeq(rest, 1, 1))) /\ start' = start
        /\ line' = line
    BY <2>3, <2>4 DEF ScanIdentifier
  <2>6. SubSeq(rest, 1, 1) = <<"n">>
    <3>1. 1 \in 0 .. Len(rest)
      BY <1>3
    <3>2. PICK x : x = SubSeq(rest, 1, 1)
      OBVIOUS
    <3>3. x \in Seq(CharacterKinds) /\ Len(x) = 1 /\ \A i \in 1 .. 1 : x[i] = rest[i]
      BY <1>3, <3>1, <3>2, Foremost
    <3>4. x[1] = "n"
      BY <2>1, <3>3
    <3>5. x = <<"n">>
      BY <3>3, <3>4
    <3> QED
      BY <3>2, <3>5
  <2>7. t = 2 /\ t + 1 = 3 /\ t + 1 <= Len(l.means) /\ Returns(l.means[t + 1])
    <3>1. t = 2 /\ t + 1 = 3 /\ t + 1 <= Len(l.means)
      BY <1>1, <1>2, <1>6
    <3>2. l.means[t + 1] = Token("IDENTIFIER", <<"n">>)
      BY <1>2, <3>1
    <3>3. Returns(Token("IDENTIFIER", <<"n">>))
      BY <2>5, <2>6
    <3> QED
      BY <3>1, <3>2, <3>3
  <2>8. AfterModulo(l, o, t + 1, 0)'
    BY <1>1, <2>5, <2>7 DEF AfterModulo
  <2>9. Within(l, o, t + 1, 0)'
    BY <2>8 DEF Within
  <2>10. Moves(l, o, p, o, 0) /\ o \in o .. Len(l.chars)
    BY <1>1, <1>2, <1>6, <2>5 DEF Moves
  <2> QED
    BY <2>7, <2>9, <2>10, GoesReturning
<1> QED
  BY <1>1, <1>4, <1>5, <1>6

\* What ends in the middle
LEMMA UnfinishedAre ==
  ASSUME NEW l \in Unfinished
  PROVE  /\ l.whole = FALSE /\ l.means = <<>> /\ Len(l.chars) \in Nat /\ Len(l.chars) > 1
         /\ \/ /\ l.chars[1] = "quote"
               /\ \A i \in 2 .. Len(l.chars) : l.chars[i] \in {"n", "lead", "nl"}
            \/ l.chars[1] = "hash" /\ \A i \in 2 .. Len(l.chars) : l.chars[i] = "n"
            \/ /\ l.chars[1] = "pr" /\ l.chars[2] = "bang" /\ Len(l.chars) > 2
               /\ \A i \in 3 .. Len(l.chars) : l.chars[i] \in {"n", "nl"}
            \/ l.chars[1] = "bs"
<1>1. l.whole = FALSE /\ l.means = <<>>
  BY DEF Unfinished, Lexeme
<1>2. \/ l.chars = <<"quote", "n">> \/ l.chars = <<"hash", "n">> \/ l.chars = <<"pr", "bang", "n">>
      \/ l.chars = <<"pr", "bang", "nl", "n">> \/ l.chars = <<"bs", "quote">>
      \/ l.chars = <<"quote", "lead", "nl">>
  BY DEF Unfinished, Lexeme
<1>3. CASE l.chars = <<"quote", "n">>
  BY <1>1, <1>3
<1>4. CASE l.chars = <<"hash", "n">>
  BY <1>1, <1>4
<1>5. CASE l.chars = <<"pr", "bang", "n">>
  BY <1>1, <1>5
<1>6. CASE l.chars = <<"pr", "bang", "nl", "n">>
  BY <1>1, <1>6
<1>7. CASE l.chars = <<"bs", "quote">>
  BY <1>1, <1>7
<1>8. CASE l.chars = <<"quote", "lead", "nl">>
  BY <1>1, <1>8
<1> QED
  BY <1>2, <1>3, <1>4, <1>5, <1>6, <1>7, <1>8

LEMMA UnfinishedGoes ==
  ASSUME NEW l, NEW o, NEW t, NEW p, InUnfinished(l, o, t, p), View(l, o, p), Rule, line \in Nat
  PROVE  Goes(l, o, t, p)
<1>1. l \in Unfinished /\ o \in 1 .. Len(l.chars) /\ t = 0 /\ p = 0
  BY DEF InUnfinished
<1>2. l.whole = FALSE /\ Len(l.chars) \in Nat /\ o \in Nat
  <2>1. l.whole = FALSE /\ Len(l.chars) \in Nat
    BY <1>1, UnfinishedAre
  <2>2. PICK n : n = Len(l.chars)
    OBVIOUS
  <2>3. n \in Nat /\ o \in 1 .. n
    BY <1>1, <2>1, <2>2
  <2>4. o \in Nat
    BY <2>3
  <2> QED
    BY <2>1, <2>4
<1>3. rest[1] = l.chars[o + 1] /\ o < Len(l.chars)
  BY <1>1, <1>2, InView
<1>4. /\ o + 1 \in 2 .. Len(l.chars) /\ o + 1 \in 1 .. Len(l.chars)
      /\ o >= 2 => o + 1 \in 3 .. Len(l.chars)
  BY <1>1, <1>2, <1>3
<1>5. ASSUME InUnfinished(l, o + 1, 0, 0)', Consumes(1), tokens' = tokens, compiling' = compiling
      PROVE  Goes(l, o, t, p)
  <2>1. Within(l, o + 1, 0, 0)'
    BY <1>5 DEF Within
  <2>2. Moves(l, o, 0, o + 1, 0) /\ o + 1 \in o .. Len(l.chars)
    BY <1>1, <1>2, <1>5, OneOn
  <2> QED
    BY <1>1, <1>5, <2>1, <2>2, GoesOn
<1>6. CASE start \in {"STRING", "SHIFT_JIS_2ND_CHAR"} /\ l.chars[1] = "quote"
  <2>1. rest[1] \in {"n", "lead", "nl"}
    BY <1>1, <1>3, <1>4, <1>6, UnfinishedAre
  <2>2. CharacterInString \/ SecondByte
    <3>1. start = "STRING" => CharacterInString
      BY <2>1, StringRule DEF IsEscape
    <3> QED
      BY <1>6, <3>1, OtherRules
  <2>3. /\ Consumes(1) /\ tokens' = tokens /\ compiling' = compiling
        /\ start' \in {"STRING", "SHIFT_JIS_2ND_CHAR"}
    BY <1>6, <2>2 DEF CharacterInString, SecondByte, Begins
  <2>4. InUnfinished(l, o + 1, 0, 0)'
    BY <1>1, <1>4, <1>6, <2>3 DEF InUnfinished
  <2> QED
    BY <1>5, <2>3, <2>4
<1>7. CASE start = "COMMENT" /\ l.chars[1] = "hash"
  <2>1. rest[1] = "n"
    BY <1>1, <1>3, <1>4, <1>7, UnfinishedAre
  <2>2. InComment
    BY <1>7, OtherRules
  <2>3. Consumes(1) /\ tokens' = tokens /\ compiling' = compiling /\ start' = "COMMENT"
    BY <2>1, <2>2 DEF InComment, Begins
  <2>4. InUnfinished(l, o + 1, 0, 0)'
    BY <1>1, <1>4, <1>7, <2>3 DEF InUnfinished
  <2> QED
    BY <1>5, <2>3, <2>4
<1>8. CASE start = "REGEXP" /\ l.chars[1] = "pr" /\ delimiter = "bang" /\ o >= 2
  <2>1. rest[1] \in {"n", "nl"}
    BY <1>1, <1>3, <1>4, <1>8, UnfinishedAre
  <2>2. CASE rest[1] = "nl"
    <3>1. NewlineInRegexp
      <4>1. NewlineInRegexp \/ CloseRegexp
        BY <1>8, <2>2, OtherRules
      <4>2. ~CloseRegexp
        BY <1>8, <2>2, RuleGuards
      <4> QED
        BY <4>1, <4>2
    <3> QED
      BY <3>1, StopsThere DEF NewlineInRegexp, Goes
  <2>3. CASE rest[1] = "n"
    <3>1. CharacterInRegexp
      BY <1>8, <2>3, OtherRules
    <3>2. Consumes(1) /\ tokens' = tokens /\ compiling' = compiling /\ start' = "REGEXP"
          /\ delimiter' = "bang"
      BY <1>8, <3>1 DEF CharacterInRegexp
    <3>3. InUnfinished(l, o + 1, 0, 0)'
      <4>1. o + 1 >= 2
        BY <1>2, <1>8
      <4> QED
        BY <1>1, <1>4, <1>8, <3>2, <4>1 DEF InUnfinished
    <3> QED
      BY <1>5, <3>2, <3>3
  <2> QED
    BY <2>1, <2>2, <2>3
<1> QED
  BY <1>6, <1>7, <1>8 DEF InUnfinished

\* The first characters of each kind of lexeme
LEMMA BeginString ==
  ASSUME NEW l, NEW s, NEW P, NEW R, Spelt(l, s, P, R), start = "INITIAL", View(l, 0, 0), Rule,
         line \in Nat
  PROVE  Goes(l, 0, 0, 0)
<1>1. Len(l.chars) \in Nat /\ l.chars[1] = "quote" /\ l.whole = TRUE
  <2>1. Len(P[Len(s)]) \in Nat /\ Len(l.chars) = Len(P[Len(s)]) + 2 /\ l.chars[1] = "quote"
    BY SpeltChars
  <2> QED
    BY <2>1 DEF Spelt
<1>2. rest[1] = "quote" /\ rest \in Seq(CharacterKinds) /\ Len(rest) > 0
  BY <1>1, InView DEF View
<1>3. OpenString
  BY <1>2, InitialRule
<1>4. /\ Consumes(1) /\ literal' = <<>> /\ start' = "STRING" /\ line' = line /\ tokens' = tokens
      /\ compiling' = compiling
  BY <1>3 DEF OpenString, OpenStringLiteral, Begins
<1>5. P[0] = <<>> /\ R[0] = <<>> /\ Len(s) \in Nat
  BY DEF Spelt, Sums
<1>6. InItem(s, P, R, 0, 1)'
  <2>1. 0 \in 0 .. Len(s) /\ 1 = 1 + Len(P[0])
    BY <1>5
  <2> QED
    BY <1>4, <1>5, <2>1 DEF InItem
<1>7. Moves(l, 0, 0, 1, 0) /\ 1 \in 0 .. Len(l.chars)
  <2>1. Moves(l, 0, 0, 0 + 1, 0) /\ 0 + 1 \in 0 .. Len(l.chars)
    BY <1>1, <1>2, <1>4, OneOn DEF Breaks
  <2> QED
    BY <2>1
<1> QED
  BY <1>4, <1>6, <1>7, GoesInString

LEMMA NoneBefore == ASSUME NEW S, NEW s \in Seq(S) PROVE SubSeq(s, 1, 0) = <<>>
<1>1. PICK x : x = SubSeq(s, 1, 0)
  OBVIOUS
<1>2. 0 \in 0 .. Len(s)
  OBVIOUS
<1>3. x \in Seq(S) /\ Len(x) = 0
  BY <1>1, <1>2, Foremost
<1> QED
  BY <1>1, <1>3

\* %%r and the character behind it
LEMMA RegexpOpens ==
  ASSUME NEW l, Len(l.chars) \in Nat, Len(l.chars) > 2, l.chars[1] = "pr", l.chars[2] # "nl",
         start = "INITIAL", View(l, 0, 0), Rule
  PROVE  /\ Consumes(2) /\ delimiter' = l.chars[2] /\ literal' = <<>> /\ start' = "REGEXP"
         /\ line' = line /\ tokens' = tokens /\ compiling' = compiling
         /\ Len(rest) \in Nat /\ Len(rest) > 1
<1>1. rest[1] = "pr" /\ rest \in Seq(CharacterKinds) /\ Len(rest) > 0 /\ Len(rest) \in Nat
  BY InView DEF View
<1>2. Len(rest) > 1 /\ rest[2] = l.chars[2]
  <2>1. Len(rest) = 1 => NeedsMore
    BY <1>1 DEF NeedsMore
  <2>2. 0 \in Nat /\ 0 + 1 < Len(l.chars)
    OBVIOUS
  <2>3. Len(rest) > 1 /\ rest[2] = l.chars[0 + 2]
    BY <2>1, <2>2, Delivered
  <2> QED
    BY <2>3
<1>3. OpenRegexp
  <2>1. IsDelimited
    BY <1>2 DEF IsDelimited
  <2> QED
    BY <1>1, <2>1, InitialRule
<1> QED
  BY <1>1, <1>2, <1>3 DEF OpenRegexp, OpenStringLiteral, Begins

LEMMA BeginRegexp ==
  ASSUME NEW l, NEW d, NEW s, Delimited(l, d, s), start = "INITIAL", View(l, 0, 0),
         Rule, line \in Nat
  PROVE  Goes(l, 0, 0, 0)
<1>1. /\ Len(s) \in Nat /\ Len(l.chars) = Len(s) + 3 /\ l.chars[1] = "pr" /\ l.chars[2] = d
      /\ d \in {"bang", "quote"} /\ s \in Seq(CharacterKinds)
  BY DelimitedChars DEF Delimited
<1>2. Len(l.chars) \in Nat /\ Len(l.chars) > 2
  BY <1>1
<1>3. /\ Consumes(2) /\ delimiter' = d /\ literal' = <<>> /\ start' = "REGEXP"
      /\ line' = line /\ tokens' = tokens /\ compiling' = compiling
      /\ Len(rest) \in Nat /\ Len(rest) > 1
  BY <1>1, <1>2, RegexpOpens
<1>4. SubSeq(s, 1, 2 - 2) = <<>>
  <2>1. 2 - 2 = 0
    OBVIOUS
  <2>2. SubSeq(s, 1, 0) = <<>>
    BY <1>1, NoneBefore
  <2> QED
    BY <2>1, <2>2
<1>5. InRegexp(l, 2, 0, 0)'
  <2>1. 2 \in 2 .. 2 + Len(s)
    BY <1>1
  <2> QED
    BY <1>3, <1>4, <2>1 DEF InRegexp
<1>6. Within(l, 2, 0, 0)'
  BY <1>5 DEF Within
<1>7. Moves(l, 0, 0, 2, 0) /\ 2 \in 0 .. Len(l.chars)
  <2>1. 2 - 0 = 2 /\ 2 - 0 \in 1 .. Len(rest) /\ 2 \in 0 .. Len(l.chars) /\ 0 + 2 = 2 /\ 0 + 1 = 1
    BY <1>2, <1>3
  <2>2. Consumes(2 - 0)
    BY <1>3, <2>1
  <2>3. Counts(l, 0, 2)
    BY <1>1, <1>3, <2>1 DEF Counts, Breaks
  <2> QED
    BY <2>1, <2>2, <2>3 DEF Moves
<1> QED
  BY <1>3, <1>6, <1>7, GoesOn

LEMMA HashOpens ==
  ASSUME NEW l, Len(l.chars) \in Nat, l.chars[1] = "hash", start = "INITIAL", View(l, 0, 0), Rule,
         line \in Nat
  PROVE  /\ start' = "COMMENT" /\ tokens' = tokens /\ compiling' = compiling
         /\ Moves(l, 0, 0, 1, 0) /\ 1 \in 0 .. Len(l.chars)
<1>1. rest[1] = "hash" /\ rest \in Seq(CharacterKinds) /\ Len(rest) > 0
  BY InView DEF View
<1>2. OpenComment
  BY <1>1, InitialRule
<1>3. /\ Consumes(1) /\ start' = "COMMENT" /\ line' = line /\ tokens' = tokens
      /\ compiling' = compiling
  BY <1>2 DEF OpenComment, Begins
<1>4. Moves(l, 0, 0, 0 + 1, 0) /\ 0 + 1 \in 0 .. Len(l.chars)
  BY <1>1, <1>3, OneOn DEF Breaks
<1> QED
  BY <1>3, <1>4

LEMMA BeginComment ==
  ASSUME NEW l, NEW s, Commented(l, s), start = "INITIAL", View(l, 0, 0), Rule, line \in Nat
  PROVE  Goes(l, 0, 0, 0)
<1>1. Len(s) \in Nat /\ Len(l.chars) = Len(s) + 2 /\ l.chars[1] = "hash"
  BY CommentedChars
<1>2. /\ start' = "COMMENT" /\ tokens' = tokens /\ compiling' = compiling
      /\ Moves(l, 0, 0, 1, 0) /\ 1 \in 0 .. Len(l.chars)
  <2>1. Len(l.chars) \in Nat
    BY <1>1
  <2> QED
    BY <1>1, <2>1, HashOpens
<1>3. AfterHash(l, 1, 0, 0)'
  <2>1. 1 \in 1 .. Len(s) + 1
    BY <1>1
  <2> QED
    BY <1>2, <2>1 DEF AfterHash
<1>4. Within(l, 1, 0, 0)'
  BY <1>3 DEF Within
<1> QED
  BY <1>2, <1>4, GoesOn

LEMMA BeginOperator ==
  ASSUME NEW l, NEW x \in {"semi", "bang"},
         l.chars = <<x>>, l.means = <<Token(x, <<>>)>>, l.whole = TRUE,
         start = "INITIAL", View(l, 0, 0), Rule, line \in Nat
  PROVE  Goes(l, 0, 0, 0)
<1>1. l.whole = TRUE
  OBVIOUS
<1>2. /\ Len(l.chars) = 1 /\ Len(l.means) = 1 /\ l.chars[1] = x /\ l.means[1] = Token(x, <<>>)
  <2>1. PICK c, m, y : c = l.chars /\ m = l.means /\ y = Token(x, <<>>)
    OBVIOUS
  <2>2. c = <<x>> /\ m = <<y>>
    BY <2>1
  <2>3. Len(c) = 1 /\ c[1] = x /\ Len(m) = 1 /\ m[1] = y
    BY <2>2
  <2> QED
    BY <2>1, <2>3
<1>3. rest[1] = x /\ rest \in Seq(CharacterKinds) /\ Len(rest) > 0
  <2>1. rest[1] = l.chars[0 + 1]
    BY <1>2, InView
  <2> QED
    BY <1>2, <2>1 DEF View
<1>4. ScanOperator
  BY <1>3, InitialRule
<1>5. Consumes(1) /\ Returns(Token(x, <<>>)) /\ start' = start /\ line' = line
  BY <1>3, <1>4 DEF ScanOperator
<1>6. AtItsEnd(l, 1, 0 + 1, 0)'
  BY <1>1, <1>2, <1>5 DEF AtItsEnd
<1>7. Within(l, 1, 0 + 1, 0)'
  BY <1>6 DEF Within
<1>8. Moves(l, 0, 0, 1, 0) /\ 1 \in 0 .. Len(l.chars)
  <2>1. 0 \in Nat /\ Len(l.chars) \in Nat
    BY <1>2
  <2>2. line' = line + (IF rest[1] \in Breaks THEN 1 ELSE 0)
    BY <1>3, <1>5 DEF Breaks
  <2>3. Moves(l, 0, 0, 0 + 1, 0) /\ 0 + 1 \in 0 .. Len(l.chars)
    BY <1>5, <2>1, <2>2, OneOn
  <2> QED
    BY <2>3
<1>9. 0 + 1 <= Len(l.means) /\ Returns(l.means[0 + 1])
  BY <1>2, <1>5
<1> QED
  BY <1>7, <1>8, <1>9, GoesReturning

LEMMA BeginIdentifier ==
  ASSUME NEW l, l.chars = <<"n", "n", "space">>, l.means = <<Token("IDENTIFIER", <<"n", "n">>)>>,
         l = Lexeme(<<"n", "n", "space">>, <<Token("IDENTIFIER", <<"n", "n">>)>>, TRUE),
         l.whole = TRUE, start = "INITIAL", View(l, 0, 0), Rule, line \in Nat
  PROVE  Goes(l, 0, 0, 0)
<1>1. /\ Len(l.chars) = 3 /\ l.chars[1] = "n" /\ l.chars[2] = "n" /\ l.chars[3] = "space"
      /\ Len(l.means) = 1 /\ l.means[1] = Token("IDENTIFIER", <<"n", "n">>)
  <2>1. PICK c, m, y : c = l.chars /\ m = l.means /\ y = Token("IDENTIFIER", <<"n", "n">>)
    OBVIOUS
  <2>2. c = <<"n", "n", "space">> /\ m = <<y>>
    BY <2>1
  <2>3. Len(c) = 3 /\ c[1] = "n" /\ c[2] = "n" /\ c[3] = "space" /\ Len(m) = 1 /\ m[1] = y
    BY <2>2
  <2> QED
    BY <2>1, <2>3
<1>2. PICK n : n = Len(rest)
  OBVIOUS
<1>3. rest \in Seq(CharacterKinds) /\ n > 0 /\ n \in Nat /\ (NeedsMore => n >= 0 + 3 - 0)
  BY <1>1, <1>2 DEF View
<1>4. \A i \in 1 .. n : i <= 3 => rest[i] = l.chars[i]
  <2>1. \A i \in 1 .. n - 0 : 0 + i <= 3 => rest[0 + i] = l.chars[0 + i]
    BY <1>1, <1>2 DEF View
  <2> QED
    BY <1>3, <2>1
<1>5. n > 2
  <2>1. ASSUME ~(n > 2) PROVE FALSE
    <3>1. \A i \in 1 .. n : i = 1 \/ i = 2
      BY <1>3, <2>1
    <3>2. \A i \in 1 .. Len(rest) : rest[i] = "n"
      BY <1>1, <1>2, <1>4, <3>1
    <3>3. Run(rest) = Len(rest)
      BY <1>3, <3>2, AllRun
    <3>4. NeedsMore
      BY <3>3 DEF NeedsMore
    <3> QED
      BY <1>3, <2>1, <3>4
  <2> QED
    BY <2>1
<1>6. rest[1] = "n" /\ rest[2] = "n" /\ rest[3] = "space"
  <2>1. 1 \in 1 .. n /\ 2 \in 1 .. n /\ 3 \in 1 .. n
    BY <1>3, <1>5
  <2> QED
    BY <1>1, <1>4, <2>1
<1>7. Run(rest) = 2
  <2>1. \A i \in 1 .. 2 : rest[i] = "n"
    <3>1. \A i \in 1 .. 2 : i = 1 \/ i = 2
      OBVIOUS
    <3> QED
      BY <1>6, <3>1
  <2>2. rest[2 + 1] # "n" /\ 2 \in Nat /\ 2 < Len(rest)
    BY <1>2, <1>3, <1>5, <1>6
  <2> QED
    BY <1>3, <2>1, <2>2, RunOf
<1>8. ScanIdentifier
  BY <1>2, <1>3, <1>6, InitialRule
<1>9. Consumes(2) /\ Returns(Token("IDENTIFIER", SubSeq(rest, 1, 2))) /\ start' = start
      /\ line' = line
  BY <1>7, <1>8 DEF ScanIdentifier
<1>10. SubSeq(rest, 1, 2) = <<"n", "n">>
  <2>1. 2 \in 0 .. Len(rest)
    BY <1>2, <1>3, <1>5
  <2>2. PICK x : x = SubSeq(rest, 1, 2)
    OBVIOUS
  <2>3. x \in Seq(CharacterKinds) /\ Len(x) = 2 /\ \A i \in 1 .. 2 : x[i] = rest[i]
    BY <1>3, <2>1, <2>2, Foremost
  <2>4. x[1] = "n" /\ x[2] = "n"
    BY <1>6, <2>3
  <2>5. x = <<"n", "n">>
    BY <2>3, <2>4
  <2> QED
    BY <2>2, <2>5
<1>11. AfterIdentifier(l, 2, 0 + 1, 0)'
  BY <1>9 DEF AfterIdentifier
<1>12. Within(l, 2, 0 + 1, 0)'
  BY <1>11 DEF Within
<1>13. Moves(l, 0, 0, 2, 0) /\ 2 \in 0 .. Len(l.chars)
  <2>1. 2 - 0 = 2 /\ 2 - 0 \in 1 .. Len(rest) /\ 2 \in 0 .. Len(l.chars) /\ 0 + 2 = 2 /\ 0 + 1 = 1
    BY <1>1, <1>2, <1>3, <1>5
  <2>2. Consumes(2 - 0)
    BY <1>9, <2>1
  <2>3. Counts(l, 0, 2)
    BY <1>1, <1>9, <2>1 DEF Counts, Breaks
  <2> QED
    BY <2>1, <2>2, <2>3 DEF Moves
<1>14. 0 + 1 <= Len(l.means) /\ Returns(l.means[0 + 1])
  <2>1. 0 + 1 = 1 /\ 0 + 1 <= Len(l.means)
    BY <1>1
  <2>2. Returns(Token("IDENTIFIER", <<"n", "n">>))
    BY <1>9, <1>10
  <2> QED
    BY <1>1, <2>1, <2>2
<1> QED
  BY <1>12, <1>13, <1>14, GoesReturning

LEMMA BeginModulo ==
  ASSUME NEW l, l = Modulo, start = "INITIAL", View(l, 0, 0), Rule, line \in Nat
  PROVE  Goes(l, 0, 0, 0)
<1>1. /\ l.chars = <<"pr", "nl">> /\ l.whole = TRUE
      /\ l.means = <<Token("MOD", <<>>), Token("semi", <<>>), Token("IDENTIFIER", <<"n">>)>>
  BY DEF Modulo, Lexeme
<1>2. /\ Len(l.chars) = 2 /\ l.chars[1] = "pr" /\ l.chars[2] = "nl" /\ Len(l.means) = 3
      /\ l.means[1] = Token("MOD", <<>>)
  BY <1>1
<1>3. rest[1] = "pr" /\ rest \in Seq(CharacterKinds) /\ Len(rest) > 0 /\ Len(rest) \in Nat
  <2>1. rest[1] = l.chars[0 + 1]
    BY <1>2, InView
  <2> QED
    BY <1>2, <2>1 DEF View
<1>4. rest[2] = "nl"
  <2>1. Len(rest) = 1 => NeedsMore
    BY <1>3 DEF NeedsMore
  <2>2. 0 \in Nat /\ 0 + 1 < Len(l.chars) /\ Len(l.chars) \in Nat
    BY <1>2
  <2>3. rest[2] = l.chars[0 + 2]
    BY <2>1, <2>2, Delivered
  <2> QED
    BY <1>2, <2>3
<1>5. ModMod
  <2>1. ~IsDelimited
    BY <1>4 DEF IsDelimited
  <2> QED
    BY <1>3, <2>1, InitialRule
<1>6. /\ rest' = <<"semi", "n">> \o Tail(rest) /\ Returns(Token("MOD", <<>>)) /\ start' = start
      /\ line' = line
  BY <1>5 DEF ModMod
<1>7. AfterModulo(l, 1, 0 + 1, 2)'
  BY <1>6 DEF AfterModulo
<1>8. Within(l, 1, 0 + 1, 2)'
  BY <1>7 DEF Within
<1>9. Moves(l, 0, 0, 1, 2) /\ 1 \in 0 .. Len(l.chars)
  BY <1>2, <1>6 DEF Moves, Breaks
<1>10. 0 + 1 <= Len(l.means) /\ Returns(l.means[0 + 1])
  BY <1>2, <1>6
<1> QED
  BY <1>8, <1>9, <1>10, GoesReturning

LEMMA BeginSimple ==
  ASSUME NEW l \in Simple, start = "INITIAL", View(l, 0, 0), Rule, line \in Nat
  PROVE  Goes(l, 0, 0, 0)
<1>1. CASE l = Lexeme(<<"semi">>, <<Token("semi", <<>>)>>, TRUE)
  <2>1. l.chars = <<"semi">> /\ l.means = <<Token("semi", <<>>)>> /\ l.whole = TRUE
    BY <1>1 DEF Lexeme
  <2> QED
    BY <2>1, BeginOperator
<1>2. CASE l = Lexeme(<<"bang">>, <<Token("bang", <<>>)>>, TRUE)
  <2>1. l.chars = <<"bang">> /\ l.means = <<Token("bang", <<>>)>> /\ l.whole = TRUE
    BY <1>2 DEF Lexeme
  <2> QED
    BY <2>1, BeginOperator
<1>3. CASE l = Lexeme(<<"n", "n", "space">>, <<Token("IDENTIFIER", <<"n", "n">>)>>, TRUE)
  <2>1. /\ l.chars = <<"n", "n", "space">> /\ l.means = <<Token("IDENTIFIER", <<"n", "n">>)>>
        /\ l.whole = TRUE
    BY <1>3 DEF Lexeme
  <2> QED
    BY <1>3, <2>1, BeginIdentifier
<1>4. CASE l = Lexeme(<<"nl">>, <<>>, TRUE)
  <2>1. l.chars = <<"nl">> /\ l.means = <<>> /\ l.whole = TRUE
    BY <1>4 DEF Lexeme
  <2>2. /\ 0 \in Nat /\ Len(l.chars) = 0 + 1 /\ 0 = Len(l.means)
        /\ l.chars[0 + 1] \in {"space"} \union Breaks
    BY <2>1 DEF Breaks
  <2> QED
    BY <2>1, <2>2, BlankGoes
<1>6. CASE l = Lexeme(<<"cr">>, <<>>, TRUE)
  <2>1. l.chars = <<"cr">> /\ l.means = <<>> /\ l.whole = TRUE
    BY <1>6 DEF Lexeme
  <2>2. /\ 0 \in Nat /\ Len(l.chars) = 0 + 1 /\ 0 = Len(l.means)
        /\ l.chars[0 + 1] \in {"space"} \union Breaks
    BY <2>1 DEF Breaks
  <2> QED
    BY <2>1, <2>2, BlankGoes
<1>5. CASE l = Modulo
  BY <1>5, BeginModulo
<1> QED
  BY <1>1, <1>2, <1>3, <1>4, <1>5, <1>6 DEF Simple, Modulo

LEMMA BeginUnfinished ==
  ASSUME NEW l \in Unfinished, start = "INITIAL", View(l, 0, 0), Rule, line \in Nat
  PROVE  Goes(l, 0, 0, 0)
<1>1. l.whole = FALSE /\ Len(l.chars) \in Nat /\ Len(l.chars) > 1
  BY UnfinishedAre
<1>2. rest[1] = l.chars[1] /\ rest \in Seq(CharacterKinds) /\ Len(rest) > 0 /\ Len(rest) \in Nat
  <2>1. rest[1] = l.chars[0 + 1]
    BY <1>1, InView
  <2> QED
    BY <2>1 DEF View
<1>3. CASE l.chars[1] = "quote"
  <2>1. OpenString
    BY <1>2, <1>3, InitialRule
  <2>2. Consumes(1) /\ start' = "STRING" /\ tokens' = tokens /\ compiling' = compiling
    BY <2>1 DEF OpenString, Begins
  <2>3. Moves(l, 0, 0, 1, 0) /\ 1 \in 0 .. Len(l.chars)
    <3>1. Moves(l, 0, 0, 0 + 1, 0) /\ 0 + 1 \in 0 .. Len(l.chars)
      BY <1>1, <2>2, OneOn
    <3> QED
      BY <3>1
  <2>4. InUnfinished(l, 1, 0, 0)'
    <3>1. 1 \in 1 .. Len(l.chars)
      BY <1>1
    <3> QED
      BY <1>3, <2>2, <3>1 DEF InUnfinished
  <2>5. Within(l, 1, 0, 0)'
    BY <2>4 DEF Within
  <2> QED
    BY <2>2, <2>3, <2>5, GoesOn
<1>4. CASE l.chars[1] = "hash"
  <2>1. /\ start' = "COMMENT" /\ tokens' = tokens /\ compiling' = compiling
        /\ Moves(l, 0, 0, 1, 0) /\ 1 \in 0 .. Len(l.chars)
    BY <1>1, <1>4, HashOpens
  <2>2. InUnfinished(l, 1, 0, 0)'
    <3>1. 1 \in 1 .. Len(l.chars)
      BY <1>1
    <3> QED
      BY <1>4, <2>1, <3>1 DEF InUnfinished
  <2>3. Within(l, 1, 0, 0)'
    BY <2>2 DEF Within
  <2> QED
    BY <2>1, <2>3, GoesOn
<1>5. CASE l.chars[1] = "pr" /\ l.chars[2] = "bang" /\ Len(l.chars) > 2
  <2>1. /\ Consumes(2) /\ delimiter' = "bang" /\ start' = "REGEXP"
        /\ tokens' = tokens /\ compiling' = compiling /\ Len(rest) \in Nat /\ Len(rest) > 1
    BY <1>1, <1>5, RegexpOpens
  <2>2. Moves(l, 0, 0, 2, 0) /\ 2 \in 0 .. Len(l.chars)
    <3>1. 2 - 0 = 2 /\ 2 - 0 \in 1 .. Len(rest) /\ 2 \in 0 .. Len(l.chars)
      BY <1>1, <1>5, <2>1
    <3>2. Consumes(2 - 0)
      BY <2>1, <3>1
    <3> QED
      BY <1>1, <3>1, <3>2 DEF Moves
  <2>3. InUnfinished(l, 2, 0, 0)'
    <3>1. 2 \in 1 .. Len(l.chars) /\ 2 >= 2
      BY <1>1, <1>5
    <3> QED
      BY <1>5, <2>1, <3>1 DEF InUnfinished
  <2>4. Within(l, 2, 0, 0)'
    BY <2>3 DEF Within
  <2> QED
    BY <2>1, <2>2, <2>4, GoesOn
<1>6. CASE l.chars[1] = "bs"
  <2>1. InvalidCharacter
    BY <1>2, <1>6, InitialRule
  <2> QED
    BY <2>1, StopsThere DEF InvalidCharacter, Goes
<1> QED
  BY <1>3, <1>4, <1>5, <1>6, UnfinishedAre

LEMMA BeginGoes ==
  ASSUME NEW l, NEW o, NEW t, NEW p, LexemeIs(l), AtBegin(l, o, t, p), View(l, o, p),
         Rule, line \in Nat
  PROVE  Goes(l, o, t, p)
<1>1. o = 0 /\ t = 0 /\ p = 0 /\ start = "INITIAL"
  BY DEF AtBegin
<1>2. View(l, 0, 0)
  BY <1>1
<1>3. Goes(l, 0, 0, 0)
  BY <1>1, <1>2, BeginString, BeginRegexp, BeginComment, BeginSimple, BeginUnfinished DEF LexemeIs
<1> QED
  BY <1>1, <1>3

\* Every rule takes the scanner on in the lexeme.
LEMMA KindsGoes ==
  ASSUME NEW l, NEW o, NEW t, NEW p, LexemeIs(l), Within(l, o, t, p), View(l, o, p),
         Rule, line \in Nat
  PROVE  Goes(l, o, t, p)
<1>1. ~AtItsEnd(l, o, t, p)
  <2>1. LexemeTyped(l)
    BY LexemesTyped
  <2>2. AtItsEnd(l, o, t, p) => o = Len(l.chars) /\ o < Len(l.chars) /\ Len(l.chars) \in Nat
    BY <2>1 DEF AtItsEnd, View, LexemeTyped
  <2> QED
    BY <2>2
<1> QED
  BY <1>1, BeginGoes, StringGoes, RegexpGoes, CommentGoes, IdentifierGoes, ModuloGoes,
     UnfinishedGoes
     DEF Within

-----------------------------------------------------------------------------
\* The lexeme l of w has b characters and c tokens in front of it.
Covered(w, l, b, c) ==
  \/ Single(w, l) /\ b = 0 /\ c = 0
  \/ (\E m : Pair(w, l, m)) /\ b = 0 /\ c = 0
  \/ \E k : Pair(w, k, l) /\ b = Len(k.chars) /\ c = Len(k.means)

\* x has the sequence y behind its first b entries
Holds(x, b, y) ==
  b \in Nat /\ Len(y) \in Nat /\ Len(x) \in Nat /\ b + Len(y) <= Len(x)
  /\ \A i \in 1 .. Len(y) : x[b + i] = y[i]

LEMMA HoldsParts ==
  ASSUME NEW S, NEW x \in Seq(S), NEW y \in Seq(S)
  PROVE  Holds(x, 0, x) /\ Holds(x \o y, 0, x) /\ Holds(x \o y, Len(x), y)
<1>1. PICK z, m, n : z = x \o y /\ m = Len(x) /\ n = Len(y)
  OBVIOUS
<1>2. /\ m \in Nat /\ n \in Nat /\ z \in Seq(S) /\ Len(z) = m + n
      /\ \A i \in 1 .. m + n : z[i] = IF i <= m THEN x[i] ELSE y[i - m]
  BY <1>1, ConcatProperties
<1>3. \A i \in 1 .. m : i \in 1 .. m + n /\ i <= m
  BY <1>2
<1>4. \A i \in 1 .. n : m + i \in 1 .. m + n /\ ~(m + i <= m) /\ m + i - m = i
  BY <1>2
<1>5. \A i \in 1 .. m : z[i] = x[i]
  BY <1>2, <1>3
<1>6. \A i \in 1 .. n : z[m + i] = y[i]
  BY <1>2, <1>4
<1>7. Holds(z, 0, x)
  <2>1. 0 \in Nat /\ 0 + m <= m + n /\ (\A i \in 1 .. m : 0 + i = i)
    BY <1>2
  <2> QED
    BY <1>1, <1>2, <1>5, <2>1 DEF Holds
<1>8. Holds(z, m, y)
  <2>1. m + n <= m + n
    BY <1>2
  <2> QED
    BY <1>1, <1>2, <1>6, <2>1 DEF Holds
<1>9. Holds(x, 0, x)
  <2>1. 0 \in Nat /\ 0 + m <= m /\ (\A i \in 1 .. m : 0 + i = i)
    BY <1>2
  <2> QED
    BY <1>1, <1>2, <2>1 DEF Holds
<1> QED
  BY <1>1, <1>7, <1>8, <1>9

LEMMA WhereCovered ==
  ASSUME NEW w, NEW l, NEW b, NEW c, Covered(w, l, b, c)
  PROVE  /\ LexemeIs(l) /\ LexemeTyped(l)
         /\ Holds(SourceText(w), b, l.chars) /\ Holds(MeaningOf(w), c, l.means)
<1>1. CASE Single(w, l) /\ b = 0 /\ c = 0
  <2>1. SourceText(w) = l.chars /\ MeaningOf(w) = l.means
    BY <1>1, SingleText
  <2>2. LexemeIs(l) /\ LexemeTyped(l)
    BY <1>1, LexemesTyped DEF Single
  <2>3. Holds(l.chars, 0, l.chars) /\ Holds(l.means, 0, l.means)
    BY <2>2, HoldsParts DEF LexemeTyped
  <2> QED
    BY <1>1, <2>1, <2>2, <2>3
<1>2. ASSUME NEW k, NEW m, Pair(w, k, m)
      PROVE  /\ LexemeIs(k) /\ LexemeTyped(k) /\ LexemeIs(m) /\ LexemeTyped(m)
             /\ Holds(SourceText(w), 0, k.chars) /\ Holds(MeaningOf(w), 0, k.means)
             /\ Holds(SourceText(w), Len(k.chars), m.chars)
             /\ Holds(MeaningOf(w), Len(k.means), m.means)
  <2>1. SourceText(w) = k.chars \o m.chars /\ MeaningOf(w) = k.means \o m.means
    BY <1>2, PairText
  <2>2. LexemeIs(k) /\ LexemeIs(m)
    BY <1>2 DEF Pair
  <2>3. LexemeTyped(k) /\ LexemeTyped(m)
    BY <2>2, LexemesTyped
  <2>4. /\ k.chars \in Seq(CharacterKinds) /\ m.chars \in Seq(CharacterKinds)
        /\ k.means \in Seq(TokenSet) /\ m.means \in Seq(TokenSet)
    BY <2>3 DEF LexemeTyped
  <2>5. Holds(k.chars \o m.chars, 0, k.chars) /\ Holds(k.chars \o m.chars, Len(k.chars), m.chars)
    BY <2>4, HoldsParts
  <2>6. Holds(k.means \o m.means, 0, k.means) /\ Holds(k.means \o m.means, Len(k.means), m.means)
    BY <2>4, HoldsParts
  <2> QED
    BY <2>1, <2>2, <2>3, <2>5, <2>6
<1>3. CASE (\E m : Pair(w, l, m)) /\ b = 0 /\ c = 0
  BY <1>2, <1>3
<1>4. CASE \E k : Pair(w, k, l) /\ b = Len(k.chars) /\ c = Len(k.means)
  BY <1>2, <1>4
<1> QED
  BY <1>1, <1>3, <1>4 DEF Covered

LEMMA LexemeWhole == ASSUME NEW l, LexemeIs(l) PROVE l.whole = TRUE \/ l.whole = FALSE
<1>1. l \in Simple => l.whole = TRUE
  BY DEF Simple, Lexeme
<1>2. l \in Unfinished => l.whole = FALSE
  BY UnfinishedAre
<1> QED
  BY <1>1, <1>2 DEF LexemeIs, Spelt, Delimited, Commented

\* What is in front of the last lexeme, and what is when nothing is behind it
LEMMA CoveredNext ==
  ASSUME NEW w, NEW l, NEW b, NEW c, Covered(w, l, b, c)
  PROVE  \/ /\ Len(SourceText(w)) = b + Len(l.chars) /\ Len(MeaningOf(w)) = c + Len(l.means)
            /\ (\E k \in DOMAIN w : ~w[k].whole) <=> l.whole # TRUE
         \/ l.whole /\ \E m : Covered(w, m, b + Len(l.chars), c + Len(l.means))
<1>1. CASE Single(w, l) /\ b = 0 /\ c = 0
  <2>1. SourceText(w) = l.chars /\ MeaningOf(w) = l.means
    BY <1>1, SingleText
  <2>2. LexemeTyped(l)
    BY <1>1, LexemesTyped DEF Single
  <2>3. Len(l.chars) \in Nat /\ Len(l.means) \in Nat
    BY <2>2 DEF LexemeTyped
  <2>4. DOMAIN w = {1} /\ w[1] = l
    BY <1>1 DEF Single
  <2>5. (\E k \in DOMAIN w : ~w[k].whole) <=> l.whole # TRUE
    <3>1. l.whole = TRUE \/ l.whole = FALSE
      BY <1>1, LexemeWhole DEF Single
    <3> QED
      BY <2>4, <3>1
  <2>6. Len(SourceText(w)) = b + Len(l.chars) /\ Len(MeaningOf(w)) = c + Len(l.means)
    BY <1>1, <2>1, <2>3
  <2> QED
    BY <2>5, <2>6
<1>2. CASE (\E m : Pair(w, l, m)) /\ b = 0 /\ c = 0
  <2>1. PICK m : Pair(w, l, m)
    BY <1>2
  <2>2. LexemeTyped(l)
    BY <2>1, LexemesTyped DEF Pair
  <2>3. 0 + Len(l.chars) = Len(l.chars) /\ 0 + Len(l.means) = Len(l.means)
    BY <2>2 DEF LexemeTyped
  <2> QED
    <3>1. l.whole
      BY <2>1 DEF Pair
    <3>2. Covered(w, m, Len(l.chars), Len(l.means))
      BY <2>1 DEF Covered
    <3>3. Covered(w, m, b + Len(l.chars), c + Len(l.means))
      BY <1>2, <2>3, <3>2
    <3> QED
      BY <3>1, <3>3
<1>3. CASE \E k : Pair(w, k, l) /\ b = Len(k.chars) /\ c = Len(k.means)
  <2>1. PICK k : Pair(w, k, l) /\ b = Len(k.chars) /\ c = Len(k.means)
    BY <1>3
  <2>2. SourceText(w) = k.chars \o l.chars /\ MeaningOf(w) = k.means \o l.means
    BY <2>1, PairText
  <2>3. LexemeTyped(k) /\ LexemeTyped(l)
    BY <2>1, LexemesTyped DEF Pair
  <2>4. /\ k.chars \in Seq(CharacterKinds) /\ l.chars \in Seq(CharacterKinds)
        /\ k.means \in Seq(TokenSet) /\ l.means \in Seq(TokenSet)
    BY <2>3 DEF LexemeTyped
  <2>5. Len(SourceText(w)) = b + Len(l.chars) /\ Len(MeaningOf(w)) = c + Len(l.means)
    BY <2>1, <2>2, <2>4, ConcatProperties
  <2>6. DOMAIN w = {1, 2} /\ w[1] = k /\ w[2] = l /\ k.whole
    BY <2>1 DEF Pair
  <2> QED
    BY <2>5, <2>6
<1> QED
  BY <1>1, <1>2, <1>3 DEF Covered

\* One character more, and the ends of lines among them
Lines(x, q) == Cardinality({k \in 1 .. q : x[k] \in Breaks})
LEMMA LinesAre ==
  ASSUME NEW x, NEW q \in Nat
  PROVE  /\ Lines(x, q) \in Nat
         /\ Lines(x, q + 1) = Lines(x, q) + (IF x[q + 1] \in Breaks THEN 1 ELSE 0)
<1>1. PICK A, B : A = {k \in 1 .. q : x[k] \in Breaks} /\ B = {k \in 1 .. q + 1 : x[k] \in Breaks}
  OBVIOUS
<1>2. IsFiniteSet(1 .. q) /\ A \subseteq 1 .. q
  BY <1>1, FS_Interval
<1>3. IsFiniteSet(A) /\ Cardinality(A) \in Nat
  BY <1>2, FS_Subset, FS_CardinalityType
<1>4. q + 1 \notin A /\ 1 .. q + 1 = (1 .. q) \union {q + 1}
  BY <1>2
<1>5. CASE x[q + 1] \in Breaks
  <2>1. B = A \union {q + 1}
    BY <1>1, <1>4, <1>5
  <2>2. Cardinality(A \union {q + 1}) = Cardinality(A) + 1
    BY <1>3, <1>4, FS_AddElement
  <2> QED
    BY <1>1, <1>3, <1>5, <2>1, <2>2 DEF Lines
<1>6. CASE x[q + 1] \notin Breaks
  <2>1. B = A
    BY <1>1, <1>4, <1>6
  <2>2. Lines(x, q + 1) = Lines(x, q) /\ Lines(x, q) \in Nat
    BY <1>1, <1>3, <2>1 DEF Lines
  <2>3. Lines(x, q) = Lines(x, q) + 0
    BY <2>2
  <2> QED
    BY <1>6, <2>2, <2>3
<1> QED
  BY <1>5, <1>6

LEMMA LinesNone == ASSUME NEW x PROVE Lines(x, 0) = 0
<1>1. {k \in 1 .. 0 : x[k] \in Breaks} = {}
  OBVIOUS
<1> QED
  BY <1>1, FS_EmptySet DEF Lines

LEMMA LinesAll == ASSUME NEW S, NEW x \in Seq(S) PROVE LineBreaks(x) = Lines(x, Len(x))
<1>1. DOMAIN x = 1 .. Len(x)
  OBVIOUS
<1> QED
  BY <1>1 DEF Lines, LineBreaks

\* Of the text x, q characters are behind the scanner, r without the p that are put back is ahead,
\* and s is not delivered.
Placed(x, q, p, r, s) ==
  /\ q \in Nat /\ p \in 0 .. 2 /\ p <= Len(r) /\ q + (Len(r) - p) + Len(s) = Len(x)
  /\ \A i \in 1 .. Len(r) - p : r[p + i] = x[q + i]
  /\ \A i \in 1 .. Len(s) : s[i] = x[q + (Len(r) - p) + i]
  /\ p = 2 => r[1] = "semi" /\ r[2] = "n"
  /\ p = 1 => r[1] = "n"

LEMMA PlacedBehind ==
  ASSUME NEW x, NEW q, NEW r \in Seq(CharacterKinds), NEW s \in Seq(CharacterKinds),
         Placed(x, q, 0, r, s), NEW k \in 1 .. Len(r)
  PROVE  Placed(x, q + k, 0, SubSeq(r, k + 1, Len(r)), s)
<1>1. PICK m, n, z, a : m = Len(r) /\ n = Len(s) /\ z = Len(x) /\ a = SubSeq(r, k + 1, Len(r))
  OBVIOUS
<1>2. m \in Nat /\ n \in Nat /\ k \in 1 .. m /\ k \in 0 .. m
  BY <1>1
<1>3. Len(a) = m - k /\ \A i \in 1 .. m - k : a[i] = r[k + i]
  BY <1>1, <1>2, Behind
<1>4. /\ q \in Nat /\ q + (m - 0) + n = z
      /\ \A i \in 1 .. m - 0 : r[0 + i] = x[q + i]
      /\ \A i \in 1 .. n : s[i] = x[q + (m - 0) + i]
  BY <1>1 DEF Placed
<1>5. q + k \in Nat /\ 0 \in 0 .. 2 /\ 0 <= m - k /\ (q + k) + ((m - k) - 0) + n = z
  BY <1>2, <1>4
<1>6. ASSUME NEW i \in 1 .. (m - k) - 0 PROVE a[0 + i] = x[(q + k) + i]
  <2>1. /\ i \in 1 .. m - k /\ k + i \in 1 .. m - 0 /\ 0 + i = i /\ 0 + (k + i) = k + i
        /\ q + (k + i) = (q + k) + i
    BY <1>2, <1>4
  <2>2. r[k + i] = x[q + (k + i)]
    BY <1>4, <2>1
  <2> QED
    BY <1>3, <2>1, <2>2
<1>7. ASSUME NEW i \in 1 .. n PROVE s[i] = x[(q + k) + ((m - k) - 0) + i]
  <2>1. (q + k) + ((m - k) - 0) + i = q + (m - 0) + i
    BY <1>2, <1>4
  <2> QED
    BY <1>4, <2>1
<1>8. PICK p : p = 0
  OBVIOUS
<1>9. \A i \in 1 .. Len(a) - p : a[p + i] = x[(q + k) + i]
  BY <1>3, <1>6, <1>8
<1>10. \A i \in 1 .. Len(s) : s[i] = x[(q + k) + (Len(a) - p) + i]
  BY <1>1, <1>3, <1>7, <1>8
<1>11. /\ q + k \in Nat /\ p \in 0 .. 2 /\ p <= Len(a) /\ p # 1 /\ p # 2
       /\ (q + k) + (Len(a) - p) + Len(s) = Len(x)
  BY <1>1, <1>3, <1>5, <1>8, SMTT(30)
<1>12. Placed(x, q + k, p, a, s)
  BY <1>9, <1>10, <1>11 DEF Placed
<1> QED
  BY <1>1, <1>8, <1>12

LEMMA PlacedBack ==
  ASSUME NEW x, NEW q, NEW r \in Seq(CharacterKinds), NEW s \in Seq(CharacterKinds),
         Placed(x, q, 0, r, s), Len(r) > 0
  PROVE  Placed(x, q + 1, 2, <<"semi", "n">> \o Tail(r), s)
<1>1. PICK m, n, z, a, t : /\ m = Len(r) /\ n = Len(s) /\ z = Len(x) /\ t = Tail(r)
                           /\ a = <<"semi", "n">> \o Tail(r)
  OBVIOUS
<1>2. m \in Nat /\ n \in Nat /\ m > 0
  BY <1>1
<1>3. t \in Seq(CharacterKinds) /\ Len(t) = m - 1 /\ \A i \in 1 .. m - 1 : t[i] = r[i + 1]
  <2>1. r # <<>>
    BY <1>1, <1>2
  <2> QED
    BY <1>1, <2>1, HeadTailProperties
<1>4. Len(a) = m + 1 /\ a[1] = "semi" /\ a[2] = "n" /\ \A i \in 1 .. m - 1 : a[2 + i] = t[i]
  <2>1. PICK b : b = <<"semi", "n">>
    OBVIOUS
  <2>2. b \in Seq(CharacterKinds) /\ Len(b) = 2 /\ b[1] = "semi" /\ b[2] = "n"
    BY <2>1 DEF CharacterKinds
  <2>3. /\ Len(b \o t) = Len(b) + Len(t)
        /\ \A i \in 1 .. Len(b) + Len(t) : (b \o t)[i] = IF i <= Len(b) THEN b[i] ELSE t[i - Len(b)]
    BY <1>3, <2>2, ConcatProperties
  <2>4. /\ Len(a) = 2 + (m - 1)
        /\ \A i \in 1 .. 2 + (m - 1) : a[i] = IF i <= 2 THEN b[i] ELSE t[i - 2]
    BY <1>1, <1>3, <2>1, <2>2, <2>3
  <2>5. 1 \in 1 .. 2 + (m - 1) /\ 2 \in 1 .. 2 + (m - 1) /\ 2 + (m - 1) = m + 1
    BY <1>2
  <2>6. ASSUME NEW i \in 1 .. m - 1 PROVE a[2 + i] = t[i]
    <3>1. 2 + i \in 1 .. 2 + (m - 1) /\ ~(2 + i <= 2) /\ 2 + i - 2 = i
      BY <1>2
    <3> QED
      BY <2>4, <3>1
  <2> QED
    BY <2>2, <2>4, <2>5, <2>6
<1>5. /\ q \in Nat /\ q + (m - 0) + n = z
      /\ \A i \in 1 .. m - 0 : r[0 + i] = x[q + i]
      /\ \A i \in 1 .. n : s[i] = x[q + (m - 0) + i]
  BY <1>1 DEF Placed
<1>6. q + 1 \in Nat /\ 2 \in 0 .. 2 /\ 2 <= m + 1 /\ (q + 1) + ((m + 1) - 2) + n = z
  <2>1. q \in Nat /\ q + (m - 0) + n = z
    BY <1>5
  <2> QED
    BY <1>2, <2>1
<1>7. ASSUME NEW i \in 1 .. (m + 1) - 2 PROVE a[2 + i] = x[(q + 1) + i]
  <2>1. /\ i \in 1 .. m - 1 /\ i + 1 \in 1 .. m - 0 /\ 0 + (i + 1) = i + 1
        /\ q + (i + 1) = (q + 1) + i
    BY <1>2, <1>5
  <2>2. r[i + 1] = x[q + (i + 1)]
    BY <1>5, <2>1
  <2> QED
    BY <1>3, <1>4, <2>1, <2>2
<1>8. ASSUME NEW i \in 1 .. n PROVE s[i] = x[(q + 1) + ((m + 1) - 2) + i]
  <2>1. (q + 1) + ((m + 1) - 2) + i = q + (m - 0) + i
    BY <1>2, <1>5
  <2> QED
    BY <1>5, <2>1
<1> QED
  BY <1>1, <1>4, <1>6, <1>7, <1>8 DEF Placed

LEMMA PlacedAgain ==
  ASSUME NEW x, NEW q, NEW p \in 1 .. 2, NEW r \in Seq(CharacterKinds),
         NEW s \in Seq(CharacterKinds), Placed(x, q, p, r, s)
  PROVE  Placed(x, q, p - 1, SubSeq(r, 1 + 1, Len(r)), s)
<1>1. PICK m, n, z, a : m = Len(r) /\ n = Len(s) /\ z = Len(x) /\ a = SubSeq(r, 1 + 1, Len(r))
  OBVIOUS
<1>2. m \in Nat /\ n \in Nat
  BY <1>1
<1>3. /\ q \in Nat /\ q + (m - p) + n = z /\ p <= m
      /\ \A i \in 1 .. m - p : r[p + i] = x[q + i]
      /\ \A i \in 1 .. n : s[i] = x[q + (m - p) + i]
      /\ (p = 2 => r[2] = "n")
  BY <1>1 DEF Placed
<1>4. 1 \in 0 .. m /\ m > 0
  BY <1>2, <1>3
<1>5. Len(a) = m - 1 /\ \A i \in 1 .. m - 1 : a[i] = r[1 + i]
  BY <1>1, <1>4, Behind
<1>6. p - 1 \in 0 .. 2 /\ p - 1 <= m - 1 /\ q + ((m - 1) - (p - 1)) + n = z
  BY <1>2, <1>3
<1>7. ASSUME NEW i \in 1 .. (m - 1) - (p - 1) PROVE a[p - 1 + i] = x[q + i]
  <2>1. i \in 1 .. m - p /\ p - 1 + i \in 1 .. m - 1 /\ 1 + (p - 1 + i) = p + i
    BY <1>2, <1>3
  <2> QED
    BY <1>3, <1>5, <2>1
<1>8. ASSUME NEW i \in 1 .. n PROVE s[i] = x[q + ((m - 1) - (p - 1)) + i]
  <2>1. q + ((m - 1) - (p - 1)) + i = q + (m - p) + i
    BY <1>2, <1>3
  <2> QED
    BY <1>3, <2>1
<1>9. p - 1 = 1 => a[1] = "n"
  <2>1. p - 1 = 1 => p = 2 /\ 1 \in 1 .. m - 1 /\ 1 + 1 = 2
    BY <1>2, <1>3
  <2> QED
    BY <1>3, <1>5, <2>1
<1>10. p - 1 # 2
  OBVIOUS
<1> QED
  BY <1>1, <1>3, <1>5, <1>6, <1>7, <1>8, <1>9, <1>10 DEF Placed

LEMMA PlacedMore ==
  ASSUME NEW x, NEW q, NEW p, NEW r \in Seq(CharacterKinds), NEW s \in Seq(CharacterKinds),
         Placed(x, q, p, r, s), NEW k \in 1 .. Len(s)
  PROVE  Placed(x, q, p, r \o SubSeq(s, 1, k), SubSeq(s, k + 1, Len(s)))
<1>1. PICK m, n, z, a, b, f : /\ m = Len(r) /\ n = Len(s) /\ z = Len(x)
                              /\ f = SubSeq(s, 1, k) /\ a = r \o SubSeq(s, 1, k)
                              /\ b = SubSeq(s, k + 1, Len(s))
  OBVIOUS
<1>2. m \in Nat /\ n \in Nat /\ k \in 1 .. n /\ k \in 0 .. n
  BY <1>1
<1>3. /\ q \in Nat /\ p \in 0 .. 2 /\ q + (m - p) + n = z /\ p <= m
      /\ \A i \in 1 .. m - p : r[p + i] = x[q + i]
      /\ \A i \in 1 .. n : s[i] = x[q + (m - p) + i]
      /\ (p = 2 => r[1] = "semi" /\ r[2] = "n") /\ (p = 1 => r[1] = "n")
  BY <1>1 DEF Placed
<1>4. f \in Seq(CharacterKinds) /\ Len(f) = k /\ \A i \in 1 .. k : f[i] = s[i]
  BY <1>1, <1>2, Foremost
<1>5. Len(b) = n - k /\ \A i \in 1 .. n - k : b[i] = s[k + i]
  BY <1>1, <1>2, Behind
<1>6. Len(a) = m + k /\ \A i \in 1 .. m + k : a[i] = IF i <= m THEN r[i] ELSE f[i - m]
  BY <1>1, <1>4, ConcatProperties
<1>7. p <= m + k /\ q + ((m + k) - p) + (n - k) = z
  BY <1>2, <1>3
<1>8. ASSUME NEW i \in 1 .. (m + k) - p PROVE a[p + i] = x[q + i]
  <2>1. p + i \in 1 .. m + k
    BY <1>2, <1>3
  <2>2. CASE p + i <= m
    <3>1. i \in 1 .. m - p
      BY <1>2, <1>3, <2>2
    <3> QED
      BY <1>3, <1>6, <2>1, <2>2, <3>1
  <2>3. CASE ~(p + i <= m)
    <3>1. PICK j : j = p + i - m
      OBVIOUS
    <3>2. j \in 1 .. k /\ j \in 1 .. n /\ q + (m - p) + j = q + i
      BY <1>2, <1>3, <2>1, <2>3, <3>1
    <3>3. a[p + i] = f[j]
      <4>1. PICK h : h = p + i
        OBVIOUS
      <4>2. h \in 1 .. m + k /\ ~(h <= m) /\ h - m = j
        BY <1>2, <1>3, <2>1, <2>3, <3>1, <4>1
      <4>3. a[h] = f[h - m]
        BY <1>6, <4>2
      <4> QED
        BY <4>1, <4>2, <4>3
    <3> QED
      BY <1>3, <1>4, <3>2, <3>3
  <2> QED
    BY <2>2, <2>3
<1>9. ASSUME NEW i \in 1 .. n - k PROVE b[i] = x[q + ((m + k) - p) + i]
  <2>1. k + i \in 1 .. n /\ q + (m - p) + (k + i) = q + ((m + k) - p) + i
    BY <1>2, <1>3
  <2> QED
    BY <1>3, <1>5, <2>1
<1>10. (p = 2 => a[1] = "semi" /\ a[2] = "n") /\ (p = 1 => a[1] = "n")
  <2>1. (p = 2 => 1 \in 1 .. m + k /\ 2 \in 1 .. m + k /\ 1 <= m /\ 2 <= m)
        /\ (p = 1 => 1 \in 1 .. m + k /\ 1 <= m)
    BY <1>2, <1>3
  <2> QED
    BY <1>3, <1>6, <2>1
<1> QED
  BY <1>1, <1>3, <1>5, <1>6, <1>7, <1>8, <1>9, <1>10 DEF Placed

\* s is what the first n of m are.
Told(m, n, s) == Len(s) = n /\ n <= Len(m) /\ \A i \in 1 .. n : s[i] = m[i]

LEMMA ToldPrefix ==
  ASSUME NEW S, NEW m \in Seq(S), NEW s \in Seq(S), NEW n, Told(m, n, s)
  PROVE  IsPrefix(s, m)
<1>1. PICK k : k = Len(m)
  OBVIOUS
<1>2. k \in Nat /\ n \in Nat /\ n <= k /\ Len(s) = n /\ \A i \in 1 .. n : s[i] = m[i]
  BY <1>1 DEF Told
<1>3. n \in 0 .. Len(s) /\ n \in 0 .. Len(m)
  BY <1>1, <1>2
<1>4. PICK a, b : a = SubSeq(s, 1, n) /\ b = SubSeq(m, 1, n)
  OBVIOUS
<1>5. a \in Seq(S) /\ Len(a) = n /\ \A i \in 1 .. n : a[i] = s[i]
  BY <1>3, <1>4, Foremost
<1>6. b \in Seq(S) /\ Len(b) = n /\ \A i \in 1 .. n : b[i] = m[i]
  BY <1>3, <1>4, Foremost
<1>7. a = b
  BY <1>2, <1>5, <1>6, SeqEqual
<1> QED
  BY <1>1, <1>2, <1>4, <1>7 DEF IsPrefix

LEMMA ToldAll ==
  ASSUME NEW S, NEW m \in Seq(S), NEW s \in Seq(S), Told(m, Len(m), s)
  PROVE  s = m
<1>1. Len(s) = Len(m) /\ \A i \in 1 .. Len(m) : s[i] = m[i]
  BY DEF Told
<1> QED
  BY <1>1, SeqEqual

LEMMA ToldMore ==
  ASSUME NEW S, NEW m \in Seq(S), NEW s \in Seq(S), NEW n \in Nat, Told(m, n, s), n + 1 <= Len(m),
         NEW x \in S, x = m[n + 1]
  PROVE  Told(m, n + 1, Append(s, x))
<1>1. Len(s) = n /\ \A i \in 1 .. n : s[i] = m[i]
  BY DEF Told
<1>2. PICK a : a = Append(s, x)
  OBVIOUS
<1>3. Len(a) = n + 1 /\ (\A i \in 1 .. n : a[i] = s[i]) /\ a[n + 1] = x
  BY <1>1, <1>2, AppendProperties
<1>4. ASSUME NEW i \in 1 .. n + 1 PROVE a[i] = m[i]
  <2>1. i \in 1 .. n \/ i = n + 1
    OBVIOUS
  <2> QED
    BY <1>1, <1>3, <2>1
<1> QED
  BY <1>2, <1>3, <1>4 DEF Told

\* Where the scanner is in the source, and what it has done
Reading(l, b, c, o, t, p) ==
  /\ Covered(written, l, b, c) /\ Within(l, o, t, p)
  /\ o \in 0 .. Len(l.chars) /\ t \in 0 .. Len(l.means)
  /\ Placed(SourceText(written), b + o, p, rest, source)
  /\ Told(MeaningOf(written), c + t, tokens)
  /\ l.whole = TRUE => line = 1 + Lines(SourceText(written), b + o)

\* Where a lexeme ends
LEMMA AtTheEnd ==
  ASSUME NEW l, LexemeIs(l), LexemeTyped(l), NEW t, Within(l, Len(l.chars), t, 0)
  PROVE  \/ l.whole = TRUE /\ t = Len(l.means) /\ start = "INITIAL"
         \/ l.whole = FALSE /\ t = Len(l.means) /\ start # "INITIAL"
<1>1. PICK n : n = Len(l.chars)
  OBVIOUS
<1>2. n \in Nat \ {0}
  BY <1>1 DEF LexemeTyped
<1>3. ~AtBegin(l, n, t, 0)
  BY <1>2 DEF AtBegin
<1>4. ~InString(l, n, t, 0)
  <2>1. ASSUME NEW s, NEW P, NEW R, Spelt(l, s, P, R), NEW j, InItem(s, P, R, j, n) PROVE FALSE
    <3>1. Len(P[Len(s)]) \in Nat /\ n = Len(P[Len(s)]) + 2
      BY <1>1, <2>1, SpeltChars
    <3>2. Len(s) \in Nat /\ j \in 0 .. Len(s)
      BY <2>1 DEF Spelt, InItem
    <3>3. CASE j = Len(s)
      <4>1. n = 1 + Len(P[j])
        BY <2>1, <3>2, <3>3 DEF InItem
      <4> QED
        BY <3>1, <3>3, <4>1
    <3>4. CASE j # Len(s)
      <4>1. j \in 0 .. Len(s) - 1
        BY <3>2, <3>4
      <4>2. PICK x : x = s[j + 1]
        OBVIOUS
      <4>3. Ahead(l, P, R, j, x)
        BY <2>1, <4>1, <4>2, ItemAt
      <4>4. /\ Len(P[j]) \in Nat /\ Len(x.chars) \in Nat /\ Len(P[j]) + Len(x.chars) + 2 <= n
        BY <1>1, <4>3 DEF Ahead
      <4>5. n = 1 + Len(P[j]) \/ (n = 2 + Len(P[j]) /\ Len(x.chars) = 2)
        BY <2>1, <4>2 DEF InItem, LoneItem, TwoByteItem
      <4>6. PICK a, k : a = Len(P[j]) /\ k = Len(x.chars)
        OBVIOUS
      <4>7. a \in Nat /\ k \in Nat /\ a + k + 2 <= n
        BY <4>4, <4>6
      <4>8. n = 1 + a \/ (n = 2 + a /\ k = 2)
        BY <4>5, <4>6
      <4> QED
        BY <4>7, <4>8
    <3> QED
      BY <3>3, <3>4
  <2> QED
    BY <2>1 DEF InString
<1>5. ~InRegexp(l, n, t, 0)
  <2>1. ASSUME NEW d, NEW s, Delimited(l, d, s), n \in 2 .. 2 + Len(s) PROVE FALSE
    <3>1. Len(s) \in Nat /\ n = Len(s) + 3
      BY <1>1, <2>1, DelimitedChars
    <3> QED
      BY <2>1, <3>1
  <2> QED
    BY <2>1 DEF InRegexp
<1>6. ~AfterHash(l, n, t, 0)
  <2>1. ASSUME NEW s, Commented(l, s), n \in 1 .. Len(s) + 1 PROVE FALSE
    <3>1. Len(s) \in Nat /\ n = Len(s) + 2
      BY <1>1, <2>1, CommentedChars
    <3> QED
      BY <2>1, <3>1
  <2> QED
    BY <2>1 DEF AfterHash
<1>7. ~AfterIdentifier(l, n, t, 0)
  <2>1. AfterIdentifier(l, n, t, 0) => l.chars = <<"n", "n", "space">> /\ n = 2
    BY DEF AfterIdentifier, Lexeme
  <2>2. l.chars = <<"n", "n", "space">> => Len(l.chars) = 3
    OBVIOUS
  <2> QED
    BY <1>1, <2>1, <2>2
<1>8. ~AfterModulo(l, n, t, 0)
  <2>1. AfterModulo(l, n, t, 0) => l.chars = <<"pr", "nl">> /\ n = 1
    BY DEF AfterModulo, Modulo, Lexeme
  <2> QED
    BY <1>1, <2>1
<1>9. CASE AtItsEnd(l, n, t, 0)
  BY <1>9 DEF AtItsEnd
<1>10. CASE InUnfinished(l, n, t, 0)
  <2>1. l \in Unfinished /\ t = 0 /\ start # "INITIAL"
    BY <1>10 DEF InUnfinished
  <2>2. l.whole = FALSE /\ l.means = <<>>
    BY <2>1, UnfinishedAre
  <2> QED
    BY <2>1, <2>2
<1> QED
  BY <1>1, <1>3, <1>4, <1>5, <1>6, <1>7, <1>8, <1>9, <1>10 DEF Within

\* What is ahead is the lexeme the scanner is in, or the one behind it.
LEMMA ReadingOn ==
  ASSUME ScannerTyped, NEW l, NEW b, NEW c, NEW o, NEW t, NEW p, Reading(l, b, c, o, t, p),
         rest # <<>>
  PROVE  \E m, d, e, q, u : Reading(m, d, e, q, u, p) /\ (p = 0 => q < Len(m.chars))
<1>1. CASE ~(p = 0 /\ o = Len(l.chars))
  <2>1. LexemeTyped(l)
    BY WhereCovered DEF Reading
  <2>2. p = 0 => o < Len(l.chars)
    BY <1>1, <2>1 DEF LexemeTyped, Reading
  <2> QED
    BY <2>2
<1>2. CASE p = 0 /\ o = Len(l.chars)
  <2>1. /\ Covered(written, l, b, c) /\ Within(l, Len(l.chars), t, 0)
        /\ Placed(SourceText(written), b + Len(l.chars), 0, rest, source)
        /\ Told(MeaningOf(written), c + t, tokens)
        /\ l.whole = TRUE => line = 1 + Lines(SourceText(written), b + Len(l.chars))
    BY <1>2 DEF Reading
  <2>2. LexemeIs(l) /\ LexemeTyped(l)
    BY <2>1, WhereCovered
  <2>3. \/ l.whole = TRUE /\ t = Len(l.means) /\ start = "INITIAL"
        \/ l.whole = FALSE /\ t = Len(l.means) /\ start # "INITIAL"
    BY <2>1, <2>2, AtTheEnd
  <2>4. Len(SourceText(written)) # b + Len(l.chars)
    <3>1. PICK n, x, k : n = Len(rest) /\ x = Len(SourceText(written)) /\ k = b + Len(l.chars)
      OBVIOUS
    <3>2. n \in Nat /\ n > 0 /\ Len(source) \in Nat
      BY <3>1 DEF ScannerTyped
    <3>3. k \in Nat /\ k + (n - 0) + Len(source) = x
      BY <2>1, <3>1 DEF Placed
    <3> QED
      BY <3>1, <3>2, <3>3
  <2>5. l.whole /\ \E m : Covered(written, m, b + Len(l.chars), c + Len(l.means))
    BY <2>1, <2>4, CoveredNext
  <2>6. PICK m : Covered(written, m, b + Len(l.chars), c + Len(l.means))
    BY <2>5
  <2>7. LexemeTyped(m)
    BY <2>6, WhereCovered
  <2>8. PICK d, e : d = b + Len(l.chars) /\ e = c + Len(l.means)
    OBVIOUS
  <2>9. d \in Nat /\ e \in Nat
    BY <2>6, <2>8, WhereCovered DEF Holds
  <2>10. d + 0 = d /\ e + 0 = e
    BY <2>9
  <2>11. Within(m, 0, 0, 0)
    BY <2>3, <2>5 DEF Within, AtBegin
  <2>12. /\ Placed(SourceText(written), d + 0, 0, rest, source)
         /\ Told(MeaningOf(written), e + 0, tokens)
         /\ line = 1 + Lines(SourceText(written), d + 0)
    BY <2>1, <2>3, <2>5, <2>8, <2>10
  <2>13. 0 \in 0 .. Len(m.chars) /\ 0 \in 0 .. Len(m.means) /\ 0 < Len(m.chars)
    BY <2>7 DEF LexemeTyped
  <2>14. Reading(m, d, e, 0, 0, 0)
    BY <2>6, <2>8, <2>11, <2>12, <2>13 DEF Reading
  <2> QED
    BY <1>2, <2>13, <2>14
<1> QED
  BY <1>1, <1>2

LEMMA ReadingView ==
  ASSUME ScannerTyped, NEW l, NEW b, NEW c, NEW o, NEW t, NEW p, Reading(l, b, c, o, t, p),
         p = 0 => o < Len(l.chars), Rule
  PROVE  View(l, o, p)
<1>1. PICK n, z, k, x : /\ n = Len(rest) /\ z = Len(source) /\ k = Len(l.chars)
                        /\ x = SourceText(written)
  OBVIOUS
<1>2. rest \in Seq(CharacterKinds) /\ rest # <<>> /\ source \in Seq(CharacterKinds)
      /\ (NeedsMore => source = <<>>)
  BY RuleScans DEF ScannerTyped
<1>3. n \in Nat /\ n > 0 /\ z \in Nat /\ (NeedsMore => z = 0)
  BY <1>1, <1>2
<1>4. /\ b \in Nat /\ k \in Nat /\ Len(x) \in Nat /\ b + k <= Len(x)
      /\ \A i \in 1 .. k : x[b + i] = l.chars[i]
  <2>1. Covered(written, l, b, c)
    BY ONLY Reading(l, b, c, o, t, p) DEF Reading
  <2>2. Holds(SourceText(written), b, l.chars)
    BY ONLY <2>1, WhereCovered
  <2>3. Holds(x, b, l.chars)
    BY ONLY <1>1, <2>2
  <2> QED
    BY ONLY <1>1, <2>3 DEF Holds
<1>5. /\ p \in 0 .. 2 /\ p <= n /\ b + o + (n - p) + z = Len(x) /\ o \in 0 .. k
      /\ \A i \in 1 .. n - p : rest[p + i] = x[b + o + i]
      /\ (p = 2 => rest[1] = "semi" /\ rest[2] = "n") /\ (p = 1 => rest[1] = "n")
  BY <1>1 DEF Reading, Placed
<1>6. ASSUME NEW i \in 1 .. n - p, o + i <= k PROVE rest[p + i] = l.chars[o + i]
  <2>1. o + i \in 1 .. k /\ b + (o + i) = b + o + i
    BY <1>3, <1>4, <1>5, <1>6
  <2> QED
    BY <1>4, <1>5, <2>1
<1>7. NeedsMore => n >= p + k - o
  BY <1>3, <1>4, <1>5
<1> QED
  BY <1>1, <1>2, <1>3, <1>5, <1>6, <1>7 DEF View

\* A rule takes the scanner from one place of the source to another.
LEMMA ReadingStep ==
  ASSUME ScannerTyped, NEW l, NEW b, NEW c, NEW o, NEW t, NEW p, Reading(l, b, c, o, t, p),
         p = 0 => o < Len(l.chars), Rule,
         NEW e, NEW u, NEW r, Within(l, e, u, r)', e \in o .. Len(l.chars),
         Moves(l, o, p, e, r), Emits(l, t, u)
  PROVE  Reading(l, b, c, e, u, r)'
<1>1. PICK x, m, k, j : /\ x = SourceText(written) /\ m = MeaningOf(written)
                        /\ k = Len(l.chars) /\ j = Len(l.means)
  OBVIOUS
<1>2. View(l, o, p)
  BY ReadingView
<1>3. written' = written /\ source' = source /\ compiling = "scanning" /\ rest # <<>>
  BY RuleScans
<1>4. /\ rest \in Seq(CharacterKinds) /\ source \in Seq(CharacterKinds) /\ line \in Nat
      /\ tokens \in Seq(TokenSet)
  BY DEF ScannerTyped
<1>5. /\ b \in Nat /\ k \in Nat /\ (\A i \in 1 .. k : x[b + i] = l.chars[i])
      /\ c \in Nat /\ j \in Nat /\ Len(m) \in Nat /\ c + j <= Len(m)
      /\ \A i \in 1 .. j : m[c + i] = l.means[i]
  <2>1. Covered(written, l, b, c)
    BY ONLY Reading(l, b, c, o, t, p) DEF Reading
  <2>2. Holds(SourceText(written), b, l.chars) /\ Holds(MeaningOf(written), c, l.means)
    BY ONLY <2>1, WhereCovered
  <2>3. Holds(x, b, l.chars) /\ Holds(m, c, l.means)
    BY ONLY <1>1, <2>2
  <2>4. b \in Nat /\ k \in Nat /\ (\A i \in 1 .. k : x[b + i] = l.chars[i])
    BY ONLY <1>1, <2>3 DEF Holds
  <2>5. /\ c \in Nat /\ j \in Nat /\ Len(m) \in Nat /\ c + j <= Len(m)
        /\ \A i \in 1 .. j : m[c + i] = l.means[i]
    BY ONLY <1>1, <2>3 DEF Holds
  <2> QED
    BY ONLY <2>4, <2>5
<1>6. /\ o \in 0 .. k /\ t \in 0 .. j /\ Placed(x, b + o, p, rest, source)
      /\ Told(m, c + t, tokens) /\ (l.whole = TRUE => line = 1 + Lines(x, b + o))
      /\ Covered(written, l, b, c) /\ p \in 0 .. 2
  BY <1>1 DEF Reading, Placed
<1>7. e \in 0 .. k /\ b + o \in Nat
  BY <1>1, <1>5, <1>6
<1>8. Placed(x, b + e, r, rest', source')
  <2>1. CASE p = 0 /\ r = 0 /\ Consumes(e - o) /\ e - o \in 1 .. Len(rest)
    <3>1. PICK f : f = e - o
      OBVIOUS
    <3>2. f \in 1 .. Len(rest) /\ rest' = SubSeq(rest, f + 1, Len(rest)) /\ b + o + f = b + e
      BY <1>5, <1>6, <1>7, <2>1, <3>1 DEF Consumes
    <3>3. Placed(x, b + o, 0, rest, source)
      BY <1>6, <2>1
    <3>4. Placed(x, b + o + f, 0, SubSeq(rest, f + 1, Len(rest)), source)
      BY <1>4, <3>2, <3>3, PlacedBehind
    <3> QED
      BY <1>3, <2>1, <3>2, <3>4
  <2>2. CASE p = 0 /\ r = 2 /\ e = o + 1 /\ rest' = <<"semi", "n">> \o Tail(rest)
    <3>1. Placed(x, b + o, 0, rest, source) /\ Len(rest) > 0
      BY <1>3, <1>4, <1>6, <2>2
    <3>2. Placed(x, b + o + 1, 2, <<"semi", "n">> \o Tail(rest), source)
      BY <1>4, <3>1, PlacedBack
    <3>3. b + o + 1 = b + e
      BY <1>5, <1>6, <2>2
    <3> QED
      BY <1>3, <2>2, <3>2, <3>3
  <2>3. CASE p > 0 /\ r = p - 1 /\ e = o /\ Consumes(1)
    <3>1. p \in 1 .. 2
      BY <1>6, <2>3
    <3>2. Placed(x, b + o, p - 1, SubSeq(rest, 1 + 1, Len(rest)), source)
      BY <1>4, <1>6, <3>1, PlacedAgain
    <3> QED
      BY <1>3, <2>3, <3>2 DEF Consumes
  <2> QED
    BY <2>1, <2>2, <2>3 DEF Moves
<1>9. u \in 0 .. j /\ Told(m, c + u, tokens')
  <2>1. CASE u = t /\ tokens' = tokens
    BY <1>6, <2>1
  <2>2. CASE u = t + 1 /\ u <= Len(l.means) /\ tokens' = Append(tokens, l.means[u])
    <3>1. /\ u \in 1 .. j /\ c + t \in Nat /\ c + u = c + t + 1
          /\ c + t + 1 <= Len(m) /\ c + u \in 1 .. Len(m)
      BY <1>1, <1>5, <1>6, <2>2, SMTT(30)
    <3>2. m[c + t + 1] = l.means[u]
      <4>1. m[c + u] = l.means[u]
        BY <1>5, <3>1
      <4> QED
        BY <3>1, <4>1
    <3>3. m \in Seq(TokenSet)
      <4>1. WrittenIs(written)
        BY <1>3 DEF ScannerTyped
      <4> QED
        BY <1>1, <4>1, TextTyped
    <3>4. PICK y : y = m[c + t + 1]
      OBVIOUS
    <3>5. y \in TokenSet
      BY <3>1, <3>3, <3>4
    <3>6. Told(m, c + t + 1, Append(tokens, y))
      BY <1>4, <1>6, <3>1, <3>3, <3>4, <3>5, ToldMore
    <3> QED
      BY <2>2, <3>1, <3>2, <3>4, <3>6
  <2> QED
    BY <2>1, <2>2 DEF Emits
<1>10. l.whole = TRUE => line' = 1 + Lines(x, b + e)
  <2> SUFFICES ASSUME l.whole = TRUE PROVE line' = 1 + Lines(x, b + e)
    OBVIOUS
  <2>1. line = 1 + Lines(x, b + o) /\ Lines(x, b + o) \in Nat
        /\ Lines(x, b + o + 1) = Lines(x, b + o) + (IF x[b + o + 1] \in Breaks THEN 1 ELSE 0)
    BY <1>6, <1>7, LinesAre
  <2>2. CASE e = o + 1 /\ line' = line + (IF l.chars[o + 1] \in Breaks THEN 1 ELSE 0)
    <3>1. o + 1 \in 1 .. k /\ b + (o + 1) = b + o + 1 /\ b + e = b + o + 1
      BY <1>5, <1>6, <1>7, <2>2
    <3>2. x[b + o + 1] = l.chars[o + 1]
      BY <1>5, <3>1
    <3> QED
      BY <2>1, <2>2, <3>1, <3>2
  <2>3. CASE /\ e = o + 2 /\ line' = line
             /\ l.chars[o + 1] \notin Breaks /\ l.chars[o + 2] \notin Breaks
    <3>1. /\ o + 1 \in 1 .. k /\ b + (o + 1) = b + o + 1 /\ o + 2 \in 1 .. k
          /\ b + (o + 2) = b + o + 1 + 1 /\ b + e = b + o + 1 + 1 /\ b + o + 1 \in Nat
      BY <1>5, <1>6, <1>7, <2>3
    <3>2. x[b + o + 1] \notin Breaks /\ x[b + o + 1 + 1] \notin Breaks
      <4>1. x[b + (o + 1)] = l.chars[o + 1] /\ x[b + (o + 2)] = l.chars[o + 2]
        BY <1>5, <3>1
      <4> QED
        BY <2>3, <3>1, <4>1
    <3>3. Lines(x, b + o + 1 + 1)
            = Lines(x, b + o + 1) + (IF x[b + o + 1 + 1] \in Breaks THEN 1 ELSE 0)
      BY <3>1, LinesAre
    <3> QED
      BY <2>1, <2>3, <3>1, <3>2, <3>3
  <2>4. CASE e = o + 1 /\ line' = line /\ l.chars[o + 1] \notin Breaks
    BY <2>2, <2>4, <1>4
  <2>5. CASE e = o /\ line' = line
    BY <2>1, <2>5
  <2> QED
    BY <2>2, <2>3, <2>4, <2>5 DEF Moves, Counts
<1>11. SourceText(written') = x /\ MeaningOf(written') = m
  BY <1>1, <1>3
<1> QED
  BY <1>1, <1>3, <1>6, <1>7, <1>8, <1>9, <1>10, <1>11 DEF Reading

Somewhere == \E l, b, c, o, t, p : Reading(l, b, c, o, t, p)

\* The inductive invariant
ScannerReads ==
  /\ ScannerTyped /\ TokensAreWritten
  /\ clean /\ compiling \in {"scanning", "parsing"} => Somewhere

LEMMA ScannerReadsInit == ScannerInit => ScannerReads
<1>1. ScannerInit => ScannerTyped
  BY ScannerTypedInit
<1> QED
  BY <1>1 DEF ScannerInit, ScannerReads, TokensAreWritten

\* A source that nothing is read of
LEMMA BeginReads ==
  ASSUME ScannerTyped, BeginCompile, clean'
  PROVE  Somewhere'
<1>1. /\ written' \in Sources /\ source' = SourceText(written')
      /\ rest' = <<>> /\ start' = "INITIAL"
      /\ line' = 1 /\ tokens' = <<>>
  BY DEF BeginCompile
<1>2. PICK w : w = written'
  OBVIOUS
<1>3. WrittenIs(w)
  <2>1. w \in Sources
    BY <1>1, <1>2
  <2> QED
    BY <2>1, SourcesAre
<1>4. PICK l : Covered(w, l, 0, 0)
  BY <1>3 DEF WrittenIs, Covered
<1>5. LexemeTyped(l)
  BY <1>4, WhereCovered
<1>6. PICK x, m : x = SourceText(w) /\ m = MeaningOf(w)
  OBVIOUS
<1>7. x \in Seq(CharacterKinds) /\ m \in Seq(TokenSet)
  BY <1>3, <1>6, TextTyped
<1>8. Within(l, 0, 0, 0)'
  BY <1>1 DEF Within, AtBegin
<1>9. 0 \in 0 .. Len(l.chars) /\ 0 \in 0 .. Len(l.means)
  BY <1>5 DEF LexemeTyped
<1>10. Placed(x, 0 + 0, 0, <<>>, x)
  <2>1. PICK r, n, a, z : r = <<>> /\ n = Len(x) /\ a = Len(r) /\ z = 0
    OBVIOUS
  <2>2. n \in Nat /\ a = 0 /\ z = 0
    BY <1>7, <2>1
  <2>3. z + z \in Nat /\ z \in 0 .. 2 /\ z <= a /\ z + z + (a - z) + n = n /\ 1 .. a - z = {}
        /\ z # 1 /\ z # 2 /\ \A i \in 1 .. n : z + z + (a - z) + i = i
    BY <2>2
  <2>4. \A i \in 1 .. n : x[i] = x[z + z + (a - z) + i]
    BY <2>3
  <2>5. Placed(x, z + z, z, r, x)
    BY <2>1, <2>3, <2>4 DEF Placed
  <2> QED
    BY <2>1, <2>5
<1>11. Told(m, 0 + 0, <<>>)
  <2>1. PICK n : n = Len(m)
    OBVIOUS
  <2>2. n \in Nat /\ 0 + 0 = 0 /\ Len(<<>>) = 0 /\ 0 <= n /\ 1 .. 0 = {}
    BY <1>7, <2>1
  <2> QED
    BY <2>1, <2>2 DEF Told
<1>12. 1 = 1 + Lines(x, 0 + 0)
  BY LinesNone
<1>13. Reading(l, 0, 0, 0, 0, 0)'
  BY <1>1, <1>2, <1>4, <1>6, <1>8, <1>9, <1>10, <1>11, <1>12 DEF Reading
<1> QED
  BY <1>13 DEF Somewhere

\* A place within a lexeme, for who does not touch what the rules have begun
LEMMA SameWithin ==
  ASSUME NEW l, NEW o, NEW t, NEW p, Within(l, o, t, p), UNCHANGED <<start, delimiter, literal>>
  PROVE  Within(l, o, t, p)'
<1>0. start' = start /\ delimiter' = delimiter /\ literal' = literal
  OBVIOUS
<1>1. CASE AtBegin(l, o, t, p)
  <2>1. AtBegin(l, o, t, p)'
    BY ONLY <1>0, <1>1 DEF AtBegin
  <2> QED
    BY ONLY <2>1 DEF Within
<1>2. CASE AtItsEnd(l, o, t, p)
  <2>1. AtItsEnd(l, o, t, p)'
    BY ONLY <1>0, <1>2 DEF AtItsEnd
  <2> QED
    BY ONLY <2>1 DEF Within
<1>3. CASE InString(l, o, t, p)
  <2>1. PICK s, P, R : Spelt(l, s, P, R) /\ \E j : InItem(s, P, R, j, o)
    BY ONLY <1>3 DEF InString
  <2>2. PICK j : InItem(s, P, R, j, o)
    BY ONLY <2>1
  <2>3. InItem(s, P, R, j, o)'
    BY ONLY <1>0, <2>2 DEF InItem
  <2>4. InString(l, o, t, p)'
    BY ONLY <1>3, <2>1, <2>3 DEF InString
  <2> QED
    BY ONLY <2>4 DEF Within
<1>4. CASE InRegexp(l, o, t, p)
  <2>1. InRegexp(l, o, t, p)'
    BY ONLY <1>0, <1>4 DEF InRegexp
  <2> QED
    BY ONLY <2>1 DEF Within
<1>5. CASE AfterHash(l, o, t, p)
  <2>1. AfterHash(l, o, t, p)'
    BY ONLY <1>0, <1>5 DEF AfterHash
  <2> QED
    BY ONLY <2>1 DEF Within
<1>6. CASE AfterIdentifier(l, o, t, p)
  <2>1. AfterIdentifier(l, o, t, p)'
    BY ONLY <1>0, <1>6 DEF AfterIdentifier
  <2> QED
    BY ONLY <2>1 DEF Within
<1>7. CASE AfterModulo(l, o, t, p)
  <2>1. AfterModulo(l, o, t, p)'
    BY ONLY <1>0, <1>7 DEF AfterModulo
  <2> QED
    BY ONLY <2>1 DEF Within
<1>8. CASE InUnfinished(l, o, t, p)
  <2>1. InUnfinished(l, o, t, p)'
    BY ONLY <1>0, <1>8 DEF InUnfinished
  <2> QED
    BY ONLY <2>1 DEF Within
<1> QED
  BY ONLY Within(l, o, t, p), <1>1, <1>2, <1>3, <1>4, <1>5, <1>6, <1>7, <1>8 DEF Within

LEMMA DeliveryReads ==
  ASSUME ScannerTyped, YyInput, NEW l, NEW b, NEW c, NEW o, NEW t, NEW p, Reading(l, b, c, o, t, p)
  PROVE  Reading(l, b, c, o, t, p)'
<1>1. PICK k, x : k = Chunk /\ x = SourceText(written)
  OBVIOUS
<1>2. rest \in Seq(CharacterKinds) /\ source \in Seq(CharacterKinds) /\ source # <<>>
  BY DEF ScannerTyped, YyInput
<1>3. k \in 1 .. Len(source)
  BY <1>1, <1>2, LineEnds
<1>4. /\ rest' = rest \o SubSeq(source, 1, k) /\ source' = SubSeq(source, k + 1, Len(source))
      /\ UNCHANGED <<start, delimiter, literal, line, tokens, written>>
  BY <1>1 DEF YyInput, buffer
<1>5. Placed(x, b + o, p, rest, source)
  BY <1>1 DEF Reading
<1>6. Placed(x, b + o, p, rest', source')
  BY <1>2, <1>3, <1>4, <1>5, PlacedMore
<1>7. Within(l, o, t, p)'
  <2>1. Within(l, o, t, p)
    BY DEF Reading
  <2> QED
    BY <1>4, <2>1, SameWithin
<1> QED
  BY <1>1, <1>4, <1>6, <1>7 DEF Reading

\* The end of the source
LEMMA AcceptReads ==
  ASSUME ScannerTyped, AtEnd, NEW l, NEW b, NEW c, NEW o, NEW t, NEW p, Reading(l, b, c, o, t, p)
  PROVE  LET cut == \E k \in DOMAIN written : ~written[k].whole
         IN /\ tokens = MeaningOf(written)
            /\ ~cut => start = "INITIAL" /\ line = 1 + LineBreaks(SourceText(written))
            /\ cut => start # "INITIAL"
<1> DEFINE cut == \E k \in DOMAIN written : ~written[k].whole
<1>1. PICK x, m : x = SourceText(written) /\ m = MeaningOf(written)
  OBVIOUS
<1>2. x \in Seq(CharacterKinds) /\ m \in Seq(TokenSet) /\ tokens \in Seq(TokenSet)
  <2>1. WrittenIs(written)
    BY DEF ScannerTyped, AtEnd
  <2> QED
    BY <1>1, <2>1, TextTyped DEF ScannerTyped
<1>3. PICK n, k : n = Len(x) /\ k = Len(l.chars)
  OBVIOUS
<1>4. /\ Covered(written, l, b, c) /\ Within(l, o, t, p) /\ o \in 0 .. k
      /\ Placed(x, b + o, p, rest, source) /\ Told(m, c + t, tokens)
      /\ (l.whole = TRUE => line = 1 + Lines(x, b + o))
  BY <1>1, <1>3 DEF Reading
<1>5. LexemeIs(l) /\ LexemeTyped(l) /\ b \in Nat /\ k \in Nat /\ n \in Nat
  BY <1>1, <1>2, <1>3, <1>4, WhereCovered DEF Holds
<1>6. p = 0 /\ b + o = n
  <2>1. Len(rest) = 0 /\ Len(source) = 0
    BY DEF AtEnd
  <2>2. p \in 0 .. 2 /\ p <= 0 /\ b + o + (0 - p) + 0 = n
    BY <1>3, <1>4, <2>1 DEF Placed
  <2> QED
    BY <1>4, <1>5, <2>2
<1>7. /\ n = b + k /\ Len(m) = c + Len(l.means) /\ (cut <=> l.whole # TRUE)
  <2>1. \/ n = b + k /\ Len(m) = c + Len(l.means) /\ (cut <=> l.whole # TRUE)
        \/ \E y : Covered(written, y, b + k, c + Len(l.means))
    BY <1>1, <1>3, <1>4, CoveredNext
  <2>2. ASSUME NEW y, Covered(written, y, b + k, c + Len(l.means)) PROVE FALSE
    <3>1. LexemeTyped(y) /\ Holds(x, b + k, y.chars)
      BY <1>1, <2>2, WhereCovered
    <3>2. PICK z : z = Len(y.chars)
      OBVIOUS
    <3>3. z \in Nat \ {0} /\ b + k + z <= n
      BY <1>3, <3>1, <3>2 DEF LexemeTyped, Holds
    <3> QED
      BY <1>4, <1>5, <1>6, <3>3
  <2> QED
    BY <2>1, <2>2
<1>8. o = k
  BY <1>4, <1>5, <1>6, <1>7
<1>9. \/ l.whole = TRUE /\ t = Len(l.means) /\ start = "INITIAL"
      \/ l.whole = FALSE /\ t = Len(l.means) /\ start # "INITIAL"
  BY <1>3, <1>4, <1>5, <1>6, <1>8, AtTheEnd
<1>10. tokens = m
  <2>1. Told(m, Len(m), tokens)
    BY <1>4, <1>7, <1>9
  <2> QED
    BY <1>2, <2>1, ToldAll
<1>11. l.whole = TRUE => line = 1 + LineBreaks(x)
  BY <1>2, <1>3, <1>4, <1>6, LinesAll
<1> QED
  BY <1>1, <1>7, <1>9, <1>10, <1>11

\* What has been told is a beginning of what is meant.
LEMMA ReadingPrefix ==
  ASSUME ScannerTyped, compiling # "idle",
         NEW l, NEW b, NEW c, NEW o, NEW t, NEW p, Reading(l, b, c, o, t, p)
  PROVE  IsPrefix(tokens, MeaningOf(written))
<1>1. Told(MeaningOf(written), c + t, tokens)
  BY DEF Reading
<1>2. MeaningOf(written) \in Seq(TokenSet) /\ tokens \in Seq(TokenSet)
  BY TextTyped DEF ScannerTyped
<1> QED
  BY <1>1, <1>2, ToldPrefix

LEMMA SomewherePrefix ==
  ScannerTyped /\ compiling # "idle" /\ Somewhere => IsPrefix(tokens, MeaningOf(written))
BY ReadingPrefix DEF Somewhere

LEMMA SomewhereNext ==
  ASSUME ScannerTyped', compiling' \in {"scanning", "parsing"}, Somewhere'
  PROVE  TokensAreWritten'
<1>1. (ScannerTyped /\ compiling # "idle" /\ Somewhere => IsPrefix(tokens, MeaningOf(written)))'
  BY SomewherePrefix, PTL
<1> QED
  BY <1>1 DEF TokensAreWritten

LEMMA RuleReads ==
  ASSUME ScannerReads, Rule, clean
  PROVE  \/ compiling' = "exited" /\ tokens' = tokens /\ written' = written
         \/ compiling' \in {"scanning", "parsing"} /\ Somewhere'
<1>1. compiling = "scanning" /\ rest # <<>> /\ written' = written
  BY RuleScans
<1>2. ScannerTyped /\ Somewhere
  BY <1>1 DEF ScannerReads
<1>3. PICK l, b, c, o, t, p : Reading(l, b, c, o, t, p)
  BY <1>2 DEF Somewhere
<1>4. PICK m, d, e, q, u : Reading(m, d, e, q, u, p) /\ (p = 0 => q < Len(m.chars))
  BY <1>1, <1>2, <1>3, ReadingOn
<1>5. View(m, q, p)
  BY <1>2, <1>4, ReadingView
<1>6. LexemeIs(m) /\ Within(m, q, u, p)
  BY <1>4, WhereCovered DEF Reading
<1>7. Goes(m, q, u, p)
  BY <1>2, <1>5, <1>6, KindsGoes DEF ScannerTyped
<1>8. CASE compiling' = "exited" /\ tokens' = tokens
  BY <1>1, <1>8
<1>9. ASSUME NEW f, NEW v, NEW r, Within(m, f, v, r)', f \in q .. Len(m.chars),
             Moves(m, q, p, f, r), Emits(m, u, v)
      PROVE  compiling' \in {"scanning", "parsing"} /\ Somewhere'
  <2>1. Reading(m, d, e, f, v, r)'
    BY <1>2, <1>4, <1>9, ReadingStep
  <2>2. compiling' \in {"scanning", "parsing"}
    BY <1>1, <1>9 DEF Emits
  <2> QED
    BY <2>1, <2>2 DEF Somewhere
<1> QED
  BY <1>7, <1>8, <1>9 DEF Goes

\* What is not disturbed while the parser goes on
LEMMA SameReading ==
  ASSUME Somewhere, UNCHANGED <<rest, source, start, delimiter, literal, line, tokens, written>>
  PROVE  Somewhere'
<1>1. PICK l, b, c, o, t, p : Reading(l, b, c, o, t, p)
  BY DEF Somewhere
<1>2. Within(l, o, t, p)'
  <2>1. Within(l, o, t, p)
    BY <1>1 DEF Reading
  <2> QED
    BY <2>1, SameWithin
<1>3. Reading(l, b, c, o, t, p)'
  BY <1>1, <1>2 DEF Reading
<1> QED
  BY <1>3 DEF Somewhere

LEMMA ScannerReadsStep == ScannerReads /\ [ScannerNext]_scannerVars => ScannerReads'
<1> SUFFICES ASSUME ScannerReads, [ScannerNext]_scannerVars PROVE ScannerReads'
  OBVIOUS
<1>1. ScannerTyped'
  BY ScannerTypedStep DEF ScannerReads
<1>2. ASSUME compiling' \in {"scanning", "parsing"}, clean' => Somewhere' PROVE ScannerReads'
  <2>1. TokensAreWritten'
    BY <1>1, <1>2, SomewhereNext DEF TokensAreWritten
  <2> QED
    BY <1>1, <1>2, <2>1 DEF ScannerReads
<1>3. ASSUME compiling' \in {"exited", "raised"}, compiling # "idle",
             clean' = clean, tokens' = tokens, written' = written
      PROVE  ScannerReads'
  <2>1. clean => IsPrefix(tokens, MeaningOf(written))
    BY <1>3 DEF ScannerReads, TokensAreWritten
  <2>2. TokensAreWritten'
    BY <1>3, <2>1 DEF TokensAreWritten
  <2> QED
    BY <1>1, <1>3, <2>2 DEF ScannerReads
<1>4. CASE BeginCompile
  <2>1. compiling' = "scanning"
    BY <1>4 DEF BeginCompile
  <2>2. clean' => Somewhere'
    BY <1>4, BeginReads DEF ScannerReads
  <2> QED
    BY <1>2, <2>1, <2>2
<1>5. CASE YyInput
  <2>1. compiling = "scanning" /\ compiling' = "scanning" /\ clean' = clean
    BY <1>5 DEF YyInput
  <2>2. clean => Somewhere'
    <3>1. ASSUME NEW l, NEW b, NEW c, NEW o, NEW t, NEW p, Reading(l, b, c, o, t, p)
          PROVE  Reading(l, b, c, o, t, p)'
      BY <1>5, <3>1, DeliveryReads DEF ScannerReads
    <3> QED
      BY <2>1, <3>1 DEF ScannerReads, Somewhere
  <2> QED
    BY <1>2, <2>1, <2>2
<1>6. CASE CompileEnds
  <2>1. compiling' = "idle"
    BY <1>6 DEF CompileEnds
  <2> QED
    BY <1>1, <2>1 DEF ScannerReads, TokensAreWritten
<1>7. CASE UNCHANGED scannerVars
  <2>1. /\ UNCHANGED <<rest, source, start, delimiter, literal, line, tokens, written>>
        /\ compiling' = compiling /\ clean' = clean
    BY <1>7 DEF scannerVars, input, buffer
  <2>2. Somewhere => Somewhere'
    BY <2>1, SameReading
  <2>3. TokensAreWritten'
    BY <2>1 DEF ScannerReads, TokensAreWritten
  <2> QED
    BY <1>1, <2>1, <2>2, <2>3 DEF ScannerReads
<1>8. CASE Exited
  BY <1>7, <1>8 DEF Exited
<1>9. CASE Shift
  <2>1. /\ UNCHANGED <<rest, source, start, delimiter, literal, line, tokens, written>>
        /\ compiling' = "scanning" /\ compiling \in {"scanning", "parsing"} /\ clean' = clean
    BY <1>9 DEF Shift, Parses, AtEnd, input, buffer
  <2>2. clean => Somewhere'
    BY <2>1, SameReading DEF ScannerReads
  <2> QED
    BY <1>2, <2>1, <2>2
<1>10. CASE ParseError \/ FoldingRaises
  <2>1. /\ compiling' \in {"exited", "raised"} /\ compiling # "idle"
        /\ clean' = clean /\ tokens' = tokens /\ written' = written
    BY <1>10 DEF ParseError, FoldingRaises, Parses, AtEnd, Finishes
  <2> QED
    BY <1>3, <2>1
<1>11. CASE Accept
  <2>1. /\ AtEnd /\ compiling = "scanning" /\ compiling' = "accepted" /\ rest = <<>>
        /\ UNCHANGED <<rest, start, line, tokens, written, clean>>
    BY <1>11 DEF Accept, Parses, AtEnd, Finishes
  <2>2. ASSUME clean
        PROVE  /\ IsPrefix(tokens, MeaningOf(written))
               /\ LET cut == \E k \in DOMAIN written : ~written[k].whole
                  IN /\ tokens = MeaningOf(written)
                     /\ ~cut => start = "INITIAL" /\ line = 1 + LineBreaks(SourceText(written))
                     /\ cut => start # "INITIAL"
    <3>1. PICK l, b, c, o, t, p : Reading(l, b, c, o, t, p)
      BY <2>1, <2>2 DEF ScannerReads, Somewhere
    <3>2. ScannerTyped /\ compiling # "idle"
      BY <2>1 DEF ScannerReads
    <3> QED
      BY <2>1, <3>1, <3>2, ReadingPrefix, AcceptReads
  <2>3. TokensAreWritten'
    BY <2>1, <2>2 DEF TokensAreWritten
  <2> QED
    BY <1>1, <2>1, <2>3 DEF ScannerReads
<1>12. CASE Rule
  <2>1. clean' = clean /\ compiling = "scanning" /\ written' = written
    BY <1>12, RuleScans
  <2>2. CASE clean
    <3>1. \/ compiling' = "exited" /\ tokens' = tokens /\ written' = written
          \/ compiling' \in {"scanning", "parsing"} /\ Somewhere'
      BY <1>12, <2>2, RuleReads
    <3> QED
      BY <1>2, <1>3, <2>1, <3>1
  <2>3. CASE ~clean
    BY <1>1, <2>1, <2>3 DEF ScannerReads, TokensAreWritten
  <2> QED
    BY <2>2, <2>3
<1> QED
  BY <1>4, <1>5, <1>6, <1>7, <1>8, <1>9, <1>10, <1>11, <1>12 DEF ScannerNext, Rule

\* A compilation that begins where nothing is left of an earlier one hands the parser the tokens
\* that are written, one lexeme or two, of any length (crowbar.l:103-244).
THEOREM TokensWritten == ScannerSpec => []TokensAreWritten
<1>1. ScannerInit => ScannerReads
  BY ScannerReadsInit
<1>2. ScannerReads /\ [ScannerNext]_scannerVars => ScannerReads'
  BY ScannerReadsStep
<1>3. ScannerReads => TokensAreWritten
  BY DEF ScannerReads
<1> QED
  BY <1>1, <1>2, <1>3, PTL DEF ScannerSpec

-----------------------------------------------------------------------------
(* Stack traces (Traces).                                                  *)

Called == FunctionNames \union {Anonymous}
ChainLinks == [function : Called, caller_line : LineNumbers, begun : BOOLEAN]
TraceLines == [function : Called \union {TopLevel}, line : Nat]

\* How many of the first k environments have begun
Rank(chain, k) == Cardinality({j \in 1 .. k : chain[j].begun})

\* The activations are those of the environments that have begun, below them that of the top
\* level; each has come to the line from which the next one was called.
Corresponds(chain, acts) ==
  /\ Len(acts) = Rank(chain, Len(chain)) + 1
  /\ acts[1].function = TopLevel
  /\ \A j \in 1 .. Len(chain) :
       chain[j].begun => /\ acts[Rank(chain, j) + 1].function = chain[j].function
                         /\ acts[Rank(chain, j)].line = chain[j].caller_line

\* While create runs, its environment is on top of those that correspond to activations.
CreateIsOnTop ==
  /\ environment # <<>>
  /\ Last(environment).begun
  /\ Corresponds(Front(environment), activations)
  /\ Last(activations).line = Last(environment).caller_line
  /\ expected = activations

TracesInv ==
  /\ environment \in Seq(ChainLinks)
  /\ activations \in Seq(TraceLines)
  /\ trace \in Seq(TraceLines)
  /\ raising \in {"no", "error", "created", "thrown"}
  /\ trace # <<>> => Last(trace).function = TopLevel
  /\ raising \in {"no", "thrown"} => Depth <= MaxCalls /\ Corresponds(environment, activations)
  /\ raising \in {"error", "created"} => Depth <= MaxCalls + 1 /\ CreateIsOnTop

LEMMA RankStep ==
  ASSUME NEW chain
  PROVE  /\ Rank(chain, 0) = 0
         /\ \A k \in Nat : Rank(chain, k) \in Nat
         /\ \A k \in Nat : Rank(chain, k + 1) =
              Rank(chain, k) + (IF chain[k + 1].begun THEN 1 ELSE 0)
<1> DEFINE R(k) == {j \in 1 .. k : chain[j].begun}
<1>1. ASSUME NEW k \in Nat PROVE IsFiniteSet(R(k)) /\ Cardinality(R(k)) \in Nat
  <2>1. IsFiniteSet(1 .. k)
    BY FS_Interval
  <2>2. IsFiniteSet(R(k))
    BY <2>1, FS_Subset
  <2> QED
    BY <2>2, FS_CardinalityType
<1>2. R(0) = {}
  OBVIOUS
<1>3. ASSUME NEW k \in Nat
      PROVE  Cardinality(R(k + 1)) = Cardinality(R(k)) + (IF chain[k + 1].begun THEN 1 ELSE 0)
  <2>1. k + 1 \notin R(k)
    OBVIOUS
  <2>2. CASE chain[k + 1].begun
    <3>1. R(k + 1) = R(k) \union {k + 1}
      BY <2>2
    <3> HIDE DEF R
    <3> QED
      BY <1>1, <2>1, <2>2, <3>1, FS_AddElement
  <2>3. CASE ~chain[k + 1].begun
    <3>1. R(k + 1) = R(k)
      BY <2>3
    <3> HIDE DEF R
    <3> QED
      BY <1>1, <2>3, <3>1
  <2> QED
    BY <2>2, <2>3
<1> QED
  BY <1>1, <1>2, <1>3, FS_EmptySet DEF Rank

LEMMA RankGrows ==
  ASSUME NEW chain, NEW j \in Nat, NEW k \in Nat, j <= k
  PROVE  Rank(chain, j) <= Rank(chain, k)
<1> DEFINE R(n) == {i \in 1 .. n : chain[i].begun}
<1>1. R(j) \subseteq R(k)
  OBVIOUS
<1>2. IsFiniteSet(R(k))
  <2>1. IsFiniteSet(1 .. k)
    BY FS_Interval
  <2> QED
    BY <2>1, FS_Subset
<1> HIDE DEF R
<1>3. Cardinality(R(j)) <= Cardinality(R(k))
  BY <1>1, <1>2, FS_Subset
<1> QED
  BY <1>3 DEF Rank, R

\* The environments that have begun are at different ranks.
LEMMA RankOfBegun ==
  ASSUME NEW chain, NEW k \in Nat \ {0}, chain[k].begun
  PROVE  /\ Rank(chain, k) \in Nat \ {0} /\ Rank(chain, k - 1) = Rank(chain, k) - 1
         /\ \A j \in 0 .. k - 1 : Rank(chain, j) <= Rank(chain, k) - 1
<1>1. k - 1 \in Nat /\ (k - 1) + 1 = k
  OBVIOUS
<1>2. Rank(chain, k) = Rank(chain, k - 1) + 1 /\ Rank(chain, k - 1) \in Nat
  BY <1>1, RankStep
<1>3. ASSUME NEW j \in 0 .. k - 1 PROVE Rank(chain, j) <= Rank(chain, k - 1)
  BY <1>1, RankGrows
<1> QED
  BY <1>2, <1>3

LEMMA SameRank ==
  ASSUME NEW chain, NEW chain2, NEW k \in Nat, \A j \in 1 .. k : chain2[j].begun = chain[j].begun
  PROVE  \A j \in 0 .. k : Rank(chain2, j) = Rank(chain, j)
<1> SUFFICES ASSUME NEW j \in 0 .. k PROVE Rank(chain2, j) = Rank(chain, j)
  OBVIOUS
<1>1. {i \in 1 .. j : chain2[i].begun} = {i \in 1 .. j : chain[i].begun}
  OBVIOUS
<1> QED
  BY <1>1 DEF Rank

LEMMA RankOfAll ==
  ASSUME NEW chain, NEW k \in Nat, \A j \in 1 .. k : chain[j].begun
  PROVE  Rank(chain, k) = k
<1>1. {j \in 1 .. k : chain[j].begun} = 1 .. k
  OBVIOUS
<1>2. Cardinality(1 .. k) = k
  BY FS_Interval
<1> QED
  BY <1>1, <1>2 DEF Rank

\* Corresponds without the length: what a function with that many activations has to say.
LEMMA CorrespondsIf ==
  ASSUME NEW chain \in Seq(ChainLinks), NEW acts \in Seq(TraceLines),
         NEW chain2 \in Seq(ChainLinks), NEW acts2 \in Seq(TraceLines),
         Corresponds(chain, acts), Len(chain2) <= Len(chain),
         \A j \in 1 .. Len(chain2) : chain2[j] = chain[j],
         Len(acts2) = Rank(chain, Len(chain2)) + 1,
         \A i \in 1 .. Len(acts2) : acts2[i].function = acts[i].function,
         \A i \in 1 .. Len(acts2) - 1 : acts2[i].line = acts[i].line
  PROVE  Corresponds(chain2, acts2)
<1>1. Len(chain2) \in Nat /\ Len(chain) \in Nat
  BY LenProperties
<1>2. \A j \in 0 .. Len(chain2) : Rank(chain2, j) = Rank(chain, j)
  BY <1>1, SameRank
<1>3. Rank(chain, Len(chain2)) \in Nat
  BY <1>1, RankStep
<1>4. ASSUME NEW j \in 1 .. Len(chain2), chain2[j].begun
      PROVE  /\ acts2[Rank(chain2, j) + 1].function = chain2[j].function
             /\ acts2[Rank(chain2, j)].line = chain2[j].caller_line
  <2>1. chain[j] = chain2[j] /\ j \in 1 .. Len(chain) /\ j \in Nat \ {0}
    BY <1>1
  <2>2. Rank(chain, j) \in Nat \ {0} /\ Rank(chain, j) <= Rank(chain, Len(chain2))
    BY <1>1, <1>4, <2>1, RankOfBegun, RankGrows
  <2>3. Rank(chain2, j) = Rank(chain, j)
    BY <1>2
  <2> DEFINE r == Rank(chain, j)
  <2>4. r \in 1 .. Len(acts2) - 1 /\ r + 1 \in 1 .. Len(acts2)
    BY <1>3, <2>2
  <2>5. acts[r + 1].function = chain[j].function /\ acts[r].line = chain[j].caller_line
    BY <1>4, <2>1 DEF Corresponds
  <2> HIDE DEF r
  <2>6. acts2[r + 1].function = chain2[j].function /\ acts2[r].line = chain2[j].caller_line
    BY <2>1, <2>4, <2>5
  <2> QED
    BY <2>3, <2>6 DEF r
<1>5. Len(acts2) = Rank(chain2, Len(chain2)) + 1
  BY <1>1, <1>2
<1>6. acts2[1].function = TopLevel
  BY <1>3 DEF Corresponds
<1> QED
  BY <1>4, <1>5, <1>6 DEF Corresponds

LEMMA ReachesLine ==
  ASSUME activations \in Seq(TraceLines), NEW chain \in Seq(ChainLinks),
         Corresponds(chain, activations), NEW n \in Nat
  PROVE  /\ Reaches(n) \in Seq(TraceLines)
         /\ Len(Reaches(n)) = Len(activations) /\ Len(activations) \in Nat \ {0}
         /\ Last(Reaches(n)).line = n
         /\ Corresponds(chain, Reaches(n))
<1>1. Len(chain) \in Nat /\ Len(activations) \in Nat
  BY LenProperties
<1>2. Len(activations) \in Nat \ {0}
  BY <1>1, RankStep DEF Corresponds
<1> DEFINE last == activations[Len(activations)]
<1>3. last \in TraceLines
  BY <1>2, ElementOfSeq
<1>4. Reaches(n) = [activations EXCEPT ![Len(activations)] = [last EXCEPT !.line = n]]
  BY DEF Reaches
<1>5. [last EXCEPT !.line = n] \in TraceLines /\ [last EXCEPT !.line = n].line = n
      /\ [last EXCEPT !.line = n].function = last.function
  BY <1>3 DEF TraceLines
<1>6. /\ Reaches(n) \in Seq(TraceLines) /\ Len(Reaches(n)) = Len(activations)
      /\ \A j \in 1 .. Len(activations) :
           Reaches(n)[j] = IF j = Len(activations) THEN [last EXCEPT !.line = n] ELSE activations[j]
  BY <1>2, <1>4, <1>5, ExceptSeq
<1>7. \A j \in 1 .. Len(activations) : Reaches(n)[j].function = activations[j].function
  BY <1>5, <1>6
<1>8. \A j \in 1 .. Len(activations) - 1 : Reaches(n)[j].line = activations[j].line
  BY <1>1, <1>6
<1>9. Corresponds(chain, Reaches(n))
  <2>1. Len(Reaches(n)) = Rank(chain, Len(chain)) + 1
    BY <1>6 DEF Corresponds
  <2> QED
    BY <1>1, <1>6, <1>7, <1>8, <2>1, CorrespondsIf, SMTT(30)
<1>10. Last(Reaches(n)).line = n
  <2>1. Reaches(n)[Len(activations)] = [last EXCEPT !.line = n]
    BY <1>2, <1>6
  <2> QED
    BY <1>5, <1>6, <2>1 DEF Last
<1> HIDE DEF last
<1> QED
  BY <1>2, <1>6, <1>9, <1>10

\* The environments above k are gone, and the activations above it with them.
LEMMA CorrespondsCut ==
  ASSUME NEW chain \in Seq(ChainLinks), NEW acts \in Seq(TraceLines), Corresponds(chain, acts),
         NEW k \in 0 .. Len(chain)
  PROVE  /\ SubSeq(chain, 1, k) \in Seq(ChainLinks) /\ Len(SubSeq(chain, 1, k)) = k
         /\ SubSeq(acts, 1, Rank(chain, k) + 1) \in Seq(TraceLines)
         /\ Corresponds(SubSeq(chain, 1, k), SubSeq(acts, 1, Rank(chain, k) + 1))
<1> DEFINE chain2 == SubSeq(chain, 1, k)
           m == Rank(chain, k) + 1
           acts2 == SubSeq(acts, 1, m)
<1>1. Len(chain) \in Nat /\ k \in Nat
  BY LenProperties
<1>2. Rank(chain, k) \in Nat /\ Rank(chain, k) <= Rank(chain, Len(chain))
        /\ Rank(chain, Len(chain)) \in Nat
  BY <1>1, RankStep, RankGrows
<1>3. m \in 1 .. Len(acts) /\ m \in Int
  BY <1>2 DEF Corresponds
<1>4. \A i \in 1 .. k : chain[i] \in ChainLinks
  BY <1>1, ElementOfSeq
<1>5. \A i \in 1 .. m : acts[i] \in TraceLines
  BY <1>3, ElementOfSeq, LenProperties
<1> HIDE DEF m
<1>6. /\ chain2 \in Seq(ChainLinks) /\ Len(chain2) = k
      /\ \A i \in 1 .. k : chain2[i] = chain[i]
  <2>1. /\ chain2 \in Seq(ChainLinks) /\ Len(chain2) = IF 1 <= k THEN k - 1 + 1 ELSE 0
        /\ \A i \in 1 .. k - 1 + 1 : chain2[i] = chain[1 + i - 1]
    BY ONLY <1>4, k \in Int, 1 \in Int, <1>1, SubSeqProperties
  <2> QED
    BY <1>1, <2>1
<1>7. /\ acts2 \in Seq(TraceLines) /\ Len(acts2) = m
      /\ \A i \in 1 .. m : acts2[i] = acts[i]
  <2>1. /\ acts2 \in Seq(TraceLines) /\ Len(acts2) = IF 1 <= m THEN m - 1 + 1 ELSE 0
        /\ \A i \in 1 .. m - 1 + 1 : acts2[i] = acts[1 + i - 1]
    BY ONLY <1>5, <1>3, 1 \in Int, SubSeqProperties
  <2> QED
    BY <1>3, <2>1
<1> HIDE DEF chain2, acts2
<1>8. Corresponds(chain2, acts2)
  <2>1. Len(chain2) <= Len(chain) /\ \A j \in 1 .. Len(chain2) : chain2[j] = chain[j]
    BY <1>1, <1>6
  <2>2. Len(acts2) = Rank(chain, Len(chain2)) + 1
    BY <1>6, <1>7 DEF m
  <2>3. /\ \A i \in 1 .. Len(acts2) : acts2[i].function = acts[i].function
        /\ \A i \in 1 .. Len(acts2) - 1 : acts2[i].line = acts[i].line
    BY <1>3, <1>7
  <2> QED
    BY <1>6, <1>7, <2>1, <2>2, <2>3, CorrespondsIf
<1> QED
  BY <1>6, <1>7, <1>8 DEF chain2, acts2, m

\* A call makes an environment; until it begins there is no activation.
LEMMA CorrespondsCall ==
  ASSUME NEW chain \in Seq(ChainLinks), NEW acts \in Seq(TraceLines), Corresponds(chain, acts),
         NEW e \in ChainLinks, ~e.begun
  PROVE  Corresponds(Append(chain, e), acts)
<1> DEFINE chain2 == Append(chain, e)
<1>1. /\ Len(chain) \in Nat /\ chain2 \in Seq(ChainLinks) /\ Len(chain2) = Len(chain) + 1
      /\ \A i \in 1 .. Len(chain) : chain2[i] = chain[i]
      /\ chain2[Len(chain) + 1] = e
  BY AppendProperties, LenProperties
<1> HIDE DEF chain2
<1>2. \A j \in 0 .. Len(chain) : Rank(chain2, j) = Rank(chain, j)
  BY <1>1, SameRank
<1>3. Rank(chain2, Len(chain2)) = Rank(chain, Len(chain))
  <2>1. Rank(chain2, Len(chain) + 1) = Rank(chain2, Len(chain)) + 0
    BY <1>1, RankStep
  <2>2. Rank(chain2, Len(chain)) \in Nat
    BY <1>1, RankStep
  <2> QED
    BY <1>1, <1>2, <2>1, <2>2
<1>4. ASSUME NEW j \in 1 .. Len(chain2), chain2[j].begun
      PROVE  /\ acts[Rank(chain2, j) + 1].function = chain2[j].function
             /\ acts[Rank(chain2, j)].line = chain2[j].caller_line
  <2>1. j \in 1 .. Len(chain)
    BY <1>1, <1>4
  <2> QED
    BY <1>1, <1>2, <1>4, <2>1 DEF Corresponds
<1>5. Corresponds(chain2, acts)
  BY <1>3, <1>4 DEF Corresponds
<1> QED
  BY <1>5 DEF chain2

\* The function of the newest environment begins.
LEMMA CorrespondsBegin ==
  ASSUME NEW chain \in Seq(ChainLinks), NEW acts \in Seq(TraceLines), Corresponds(chain, acts),
         chain # <<>>, ~Last(chain).begun, acts[Len(acts)].line = Last(chain).caller_line,
         NEW a \in TraceLines, a.function = Last(chain).function
  PROVE  /\ [chain EXCEPT ![Len(chain)].begun = TRUE] \in Seq(ChainLinks)
         /\ Corresponds([chain EXCEPT ![Len(chain)].begun = TRUE], Append(acts, a))
<1> DEFINE d == Len(chain)
           begins == [chain[d] EXCEPT !.begun = TRUE]
           chain2 == [chain EXCEPT ![d] = begins]
           acts2 == Append(acts, a)
<1>1. d \in Nat \ {0} /\ d - 1 \in Nat /\ (d - 1) + 1 = d /\ chain[d] \in ChainLinks
      /\ d = Len(chain)
  BY EmptySeq, ElementOfSeq
<1>2. /\ begins \in ChainLinks /\ begins.begun /\ begins.function = chain[d].function
      /\ begins.caller_line = chain[d].caller_line
  BY <1>1 DEF ChainLinks
<1> HIDE DEF begins
<1>3. /\ chain2 \in Seq(ChainLinks) /\ Len(chain2) = d
      /\ chain2[d] = begins /\ \A j \in 1 .. d - 1 : chain2[j] = chain[j]
  <2>1. /\ chain2 \in Seq(ChainLinks) /\ Len(chain2) = d
        /\ \A j \in 1 .. d : chain2[j] = IF j = d THEN begins ELSE chain[j]
    BY <1>1, <1>2, ExceptSeq
  <2> HIDE DEF chain2, d
  <2>2. d \in Nat \ {0}
    BY <1>1
  <2>3. d \in 1 .. d /\ \A j \in 1 .. d - 1 : j \in 1 .. d /\ j # d
    BY ONLY <2>2
  <2> QED
    BY <2>1, <2>3
<1>4. /\ Len(acts) \in Nat /\ acts2 \in Seq(TraceLines) /\ Len(acts2) = Len(acts) + 1
      /\ \A i \in 1 .. Len(acts) : acts2[i] = acts[i]
      /\ acts2[Len(acts) + 1] = a
  BY AppendProperties, LenProperties
<1> HIDE DEF chain2, acts2, d
<1>5. \A j \in 0 .. d - 1 : Rank(chain2, j) = Rank(chain, j)
  <2>1. \A j \in 1 .. d - 1 : chain2[j].begun = chain[j].begun
    BY <1>1, <1>3
  <2> QED
    BY <1>1, <2>1, SameRank
<1>6. /\ Rank(chain, d) = Rank(chain, d - 1) /\ Rank(chain, d - 1) \in Nat
      /\ Rank(chain2, d) = Rank(chain, d) + 1
  <2>1. /\ Rank(chain, d) = Rank(chain, d - 1) + (IF chain[d].begun THEN 1 ELSE 0)
        /\ Rank(chain2, d) = Rank(chain2, d - 1) + (IF chain2[d].begun THEN 1 ELSE 0)
        /\ Rank(chain, d - 1) \in Nat
    BY <1>1, RankStep
  <2>2. ~chain[d].begun /\ chain2[d].begun
    BY <1>1, <1>2, <1>3 DEF Last
  <2> QED
    BY <1>1, <1>5, <2>1, <2>2
<1>7. Len(acts) = Rank(chain, d) + 1
  BY <1>1 DEF Corresponds
<1> DEFINE fits(j) == /\ acts2[Rank(chain2, j) + 1].function = chain2[j].function
                      /\ acts2[Rank(chain2, j)].line = chain2[j].caller_line
<1>8. fits(d)
  BY <1>1, <1>2, <1>3, <1>4, <1>6, <1>7 DEF Last
<1>9. ASSUME NEW j \in 1 .. d - 1, chain2[j].begun PROVE fits(j)
  <2>1. chain2[j] = chain[j] /\ Rank(chain2, j) = Rank(chain, j)
    BY <1>1, <1>3, <1>5
  <2>2. /\ acts[Rank(chain, j) + 1].function = chain[j].function
        /\ acts[Rank(chain, j)].line = chain[j].caller_line
    BY <1>1, <1>9, <2>1 DEF Corresponds
  <2>3. Rank(chain, j) \in 1 .. Rank(chain, d)
    <3>1. j \in Nat \ {0} /\ d \in Nat /\ j <= d
      BY <1>1
    <3>2. chain[j].begun
      BY <1>9, <2>1
    <3>3. Rank(chain, j) \in Nat \ {0} /\ Rank(chain, j) <= Rank(chain, d)
      BY <3>1, <3>2, RankOfBegun, RankGrows
    <3> QED
      BY <1>6, <3>3
  <2> QED
    BY <1>4, <1>6, <1>7, <2>1, <2>2, <2>3
<1>10. Corresponds(chain2, acts2)
  <2>1. Len(acts2) = Rank(chain2, Len(chain2)) + 1
    BY <1>3, <1>4, <1>6, <1>7
  <2>2. acts2[1].function = TopLevel
    BY <1>4, <1>6, <1>7 DEF Corresponds
  <2> QED
    BY <1>1, <1>3, <1>8, <1>9, <2>1, <2>2 DEF Corresponds
<1>11. chain2 = [chain EXCEPT ![Len(chain)].begun = TRUE]
  BY DEF chain2, begins, d
<1> QED
  BY <1>3, <1>10, <1>11 DEF acts2

LEMMA StackTraceLines ==
  ASSUME NEW chain \in Seq(ChainLinks), NEW k \in 0 .. Len(chain), NEW n \in Nat
  PROVE  /\ StackTrace(chain, k, n) \in Seq(TraceLines)
         /\ Len(StackTrace(chain, k, n)) = k + 1
         /\ \A i \in 1 .. k + 1 :
              StackTrace(chain, k, n)[i] =
                TraceLine(IF i <= k THEN chain[k + 1 - i].function ELSE TopLevel,
                          IF i = 1 THEN n ELSE chain[k + 2 - i].caller_line)
         /\ StackTrace(chain, k, n)[k + 1].function = TopLevel
<1> DEFINE entry(i) == TraceLine(IF i <= k THEN chain[k + 1 - i].function ELSE TopLevel,
                                IF i = 1 THEN n ELSE chain[k + 2 - i].caller_line)
           lines == StackTrace(chain, k, n)
<1>1. k \in Nat /\ Len(chain) \in Nat
  BY LenProperties
<1>2. ASSUME NEW i \in 1 .. k + 1 PROVE entry(i) \in TraceLines
  <2>1. i <= k => chain[k + 1 - i] \in ChainLinks
    <3>1. i <= k => k + 1 - i \in 1 .. Len(chain)
      BY <1>1
    <3> QED
      BY <3>1, ElementOfSeq
  <2>2. i # 1 => chain[k + 2 - i] \in ChainLinks
    <3>1. i # 1 => k + 2 - i \in 1 .. Len(chain)
      BY <1>1
    <3> QED
      BY <3>1, ElementOfSeq
  <2>3. (IF i <= k THEN chain[k + 1 - i].function ELSE TopLevel) \in Called \union {TopLevel}
    BY <2>1 DEF ChainLinks
  <2>4. (IF i = 1 THEN n ELSE chain[k + 2 - i].caller_line) \in Nat
    BY <2>2, TracesAssumption DEF ChainLinks
  <2> QED
    BY <2>3, <2>4 DEF TraceLine, TraceLines
<1>3. lines = [i \in 1 .. k + 1 |-> entry(i)]
  BY DEF StackTrace
<1>4. \A i \in 1 .. k + 1 : lines[i] = entry(i)
  BY <1>3
<1> HIDE DEF entry
<1>5. lines \in [1 .. k + 1 -> TraceLines] /\ k + 1 \in Nat
  BY <1>1, <1>2, <1>3
<1> HIDE DEF lines
<1>6. lines \in Seq(TraceLines)
  BY <1>5, SeqDef
<1>7. Len(lines) = k + 1
  BY <1>5, <1>6, LenProperties
<1>8. lines[k + 1].function = TopLevel
  <2>1. lines[k + 1] = entry(k + 1)
    BY <1>1, <1>4
  <2> QED
    BY <1>1, <2>1 DEF entry, TraceLine
<1> QED
  BY <1>4, <1>6, <1>7, <1>8 DEF lines, entry

LEMMA ReverseLines ==
  ASSUME NEW acts \in Seq(TraceLines)
  PROVE  /\ Reverse(acts) \in Seq(TraceLines) /\ Len(Reverse(acts)) = Len(acts)
         /\ \A i \in 1 .. Len(acts) : Reverse(acts)[i] = acts[Len(acts) - i + 1]
<1> DEFINE n == Len(acts)
           s == Reverse(acts)
<1>1. n \in Nat /\ \A i \in 1 .. n : acts[i] \in TraceLines
  BY LenProperties, ElementOfSeq
<1>2. s = [i \in 1 .. n |-> acts[n - i + 1]]
  BY DEF Reverse
<1>3. \A i \in 1 .. n : n - i + 1 \in 1 .. n
  BY <1>1
<1> HIDE DEF n, s
<1>4. s \in [1 .. n -> TraceLines] /\ \A i \in 1 .. n : s[i] = acts[n - i + 1]
  BY <1>1, <1>2, <1>3
<1>5. s \in Seq(TraceLines)
  BY <1>1, <1>4, SeqDef
<1>6. Len(s) = n
  BY <1>1, <1>4, <1>5, LenProperties
<1> QED
  BY <1>4, <1>5, <1>6 DEF n, s

LEMMA SameLine ==
  ASSUME NEW r \in TraceLines, NEW s \in TraceLines, r.function = s.function, r.line = s.line
  PROVE  r = s
BY DEF TraceLines

\* What the lines of a trace have to be, to name the activations from the newest on.
LinesOf(chain, d, n, lines) ==
  /\ d = Len(chain) /\ Len(lines) = d + 1
  /\ \A j \in 1 .. d : chain[j].begun
  /\ \A i \in 1 .. d : lines[i].function = chain[d + 1 - i].function
  /\ lines[d + 1].function = TopLevel
  /\ lines[1].line = n
  /\ \A i \in 2 .. d + 1 : lines[i].line = chain[d + 2 - i].caller_line

LEMMA TraceOfActivations ==
  ASSUME NEW chain \in Seq(ChainLinks), NEW acts \in Seq(TraceLines), Corresponds(chain, acts),
         NEW lines \in Seq(TraceLines), NEW d, LinesOf(chain, d, Last(acts).line, lines)
  PROVE  lines = Reverse(acts)
<1>0. /\ d = Len(chain) /\ Len(lines) = d + 1
      /\ \A j \in 1 .. d : chain[j].begun
      /\ \A i \in 1 .. d : lines[i].function = chain[d + 1 - i].function
      /\ lines[d + 1].function = TopLevel
      /\ lines[1].line = Last(acts).line
      /\ \A i \in 2 .. d + 1 : lines[i].line = chain[d + 2 - i].caller_line
  BY DEF LinesOf
<1>1. d \in Nat
  BY <1>0, LenProperties
<1>2. \A j \in 0 .. d : Rank(chain, j) = j
  <2> SUFFICES ASSUME NEW j \in 0 .. d PROVE Rank(chain, j) = j
    OBVIOUS
  <2>1. j \in Nat /\ \A i \in 1 .. j : chain[i].begun
    BY <1>0, <1>1
  <2> QED
    BY <2>1, RankOfAll
<1>3. Len(acts) = d + 1
  <2>1. Len(acts) = Rank(chain, Len(chain)) + 1
    BY ONLY Corresponds(chain, acts) DEF Corresponds
  <2>2. Len(chain) = d /\ d \in 0 .. d
    BY ONLY <1>0, <1>1
  <2> QED
    BY ONLY <1>2, <2>1, <2>2
<1>4. ASSUME NEW j \in 1 .. d
      PROVE  acts[j + 1].function = chain[j].function /\ acts[j].line = chain[j].caller_line
  <2>1. j \in 0 .. d /\ chain[j].begun /\ j \in 1 .. Len(chain)
    BY <1>0, <1>1
  <2>2. Rank(chain, j) = j
    BY <1>2, <2>1
  <2>3. /\ acts[Rank(chain, j) + 1].function = chain[j].function
        /\ acts[Rank(chain, j)].line = chain[j].caller_line
    BY <2>1 DEF Corresponds
  <2> QED
    BY <2>2, <2>3
<1>5. ASSUME NEW i \in 1 .. d + 1 PROVE lines[i] = acts[(d + 1) - i + 1]
  <2> DEFINE m == (d + 1) - i + 1
  <2>1. m \in 1 .. d + 1 /\ i \in Nat /\ m \in Nat /\ m = d + 2 - i
    BY <1>1
  <2>2. lines[i] \in TraceLines /\ acts[m] \in TraceLines
    BY <1>0, <1>3, <2>1, ElementOfSeq
  <2>3. lines[i].function = acts[m].function
    <3>1. CASE i = d + 1
      <4>1. m = 1
        BY <1>1, <3>1
      <4> QED
        BY <1>0, <3>1, <4>1 DEF Corresponds
    <3>2. CASE i # d + 1
      <4>1. i \in 1 .. d /\ d + 1 - i \in 1 .. d /\ (d + 1 - i) + 1 = m
        BY <1>1, <3>2
      <4> QED
        BY <1>0, <1>4, <4>1
    <3> QED
      BY <3>1, <3>2
  <2>4. lines[i].line = acts[m].line
    <3>1. CASE i = 1
      <4>1. m = Len(acts)
        BY <1>1, <1>3, <3>1
      <4> QED
        BY <1>0, <3>1, <4>1 DEF Last
    <3>2. CASE i # 1
      <4>1. i \in 2 .. d + 1 /\ m \in 1 .. d /\ m = d + 2 - i
        BY <1>1, <3>2
      <4> HIDE DEF m
      <4> QED
        BY <1>0, <1>4, <4>1
    <3> QED
      BY <3>1, <3>2
  <2> HIDE DEF m
  <2>5. lines[i] = acts[m]
    BY ONLY <2>2, <2>3, <2>4, SameLine
  <2> QED
    BY <2>5 DEF m
<1>6. /\ Reverse(acts) \in Seq(TraceLines) /\ Len(Reverse(acts)) = d + 1
      /\ \A i \in 1 .. d + 1 : Reverse(acts)[i] = acts[(d + 1) - i + 1]
  BY <1>3, ReverseLines
<1>7. \A i \in 1 .. Len(lines) : lines[i] = Reverse(acts)[i]
  BY <1>0, <1>5, <1>6
<1> QED
  BY <1>0, <1>6, <1>7, SeqEqual

\* An exception that is made where the newest environment has begun
LEMMA TraceHere ==
  ASSUME NEW chain \in Seq(ChainLinks), NEW acts \in Seq(TraceLines), Corresponds(chain, acts),
         \A j \in 1 .. Len(chain) : chain[j].begun
  PROVE  StackTrace(chain, Len(chain), Last(acts).line) = Reverse(acts)
<1> DEFINE d == Len(chain)
           n == Last(acts).line
           lines == StackTrace(chain, d, n)
<1>1. d \in Nat /\ d \in 0 .. Len(chain)
  BY LenProperties
<1>2. n \in Nat
  <2>1. Len(acts) \in Nat \ {0}
    BY <1>1, RankStep DEF Corresponds
  <2>2. Last(acts) \in TraceLines
    BY <2>1, ElementOfSeq DEF Last
  <2> QED
    BY <2>2 DEF TraceLines
<1> HIDE DEF n
<1>3. /\ lines \in Seq(TraceLines) /\ Len(lines) = d + 1 /\ lines[d + 1].function = TopLevel
      /\ \A i \in 1 .. d + 1 :
              lines[i] = TraceLine(IF i <= d THEN chain[d + 1 - i].function ELSE TopLevel,
                                   IF i = 1 THEN n ELSE chain[d + 2 - i].caller_line)
  <2>1. lines = StackTrace(chain, d, n)
    OBVIOUS
  <2> HIDE DEF d, lines
  <2>2. /\ StackTrace(chain, d, n) \in Seq(TraceLines)
        /\ Len(StackTrace(chain, d, n)) = d + 1
        /\ StackTrace(chain, d, n)[d + 1].function = TopLevel
        /\ \A i \in 1 .. d + 1 :
              StackTrace(chain, d, n)[i] =
                TraceLine(IF i <= d THEN chain[d + 1 - i].function ELSE TopLevel,
                          IF i = 1 THEN n ELSE chain[d + 2 - i].caller_line)
    BY ONLY <1>1, <1>2, chain \in Seq(ChainLinks), StackTraceLines
  <2> QED
    BY ONLY <2>1, <2>2
<1> HIDE DEF lines
<1>4. /\ \A i \in 1 .. d : lines[i].function = chain[d + 1 - i].function
      /\ lines[1].line = n
      /\ \A i \in 2 .. d + 1 : lines[i].line = chain[d + 2 - i].caller_line
  BY <1>1, <1>3 DEF TraceLine
<1>5. lines[1].line = Last(acts).line
  BY <1>4 DEF n
<1>6. d = Len(chain) /\ \A j \in 1 .. Len(chain) : chain[j].begun
  OBVIOUS
<1> HIDE DEF d
<1>7. lines = Reverse(acts)
  <2>1. LinesOf(chain, d, Last(acts).line, lines)
    BY ONLY <1>3, <1>4, <1>5, <1>6 DEF LinesOf
  <2> QED
    BY ONLY chain \in Seq(ChainLinks), acts \in Seq(TraceLines), Corresponds(chain, acts),
            <1>3, <2>1, TraceOfActivations
<1> QED
  BY <1>7 DEF lines, n, d

\* An exception that is made by create, which takes its own line off
LEMMA TraceWithoutCreate ==
  ASSUME NEW chain \in Seq(ChainLinks), NEW acts \in Seq(TraceLines), chain # <<>>,
         Corresponds(Front(chain), acts), Last(acts).line = Last(chain).caller_line,
         \A j \in 1 .. Len(chain) : chain[j].begun
  PROVE  /\ WithoutCreate(StackTrace(chain, Len(chain), NewExceptionLine)) = Reverse(acts)
         /\ WithoutCreate(StackTrace(chain, Len(chain), NewExceptionLine)) \in Seq(TraceLines)
<1> DEFINE d == Len(chain) - 1
           front == Front(chain)
           whole == StackTrace(chain, d + 1, NewExceptionLine)
           lines == Tail(whole)
<1>1. Len(chain) \in Nat \ {0} /\ d \in Nat /\ Len(chain) = d + 1
  BY EmptySeq
<1>2. /\ front \in Seq(ChainLinks) /\ Len(front) = d
      /\ \A j \in 1 .. d : front[j] = chain[j]
  <2>1. \A i \in 1 .. d : chain[i] \in ChainLinks
    BY <1>1, ElementOfSeq
  <2>2. /\ SubSeq(chain, 1, d) \in Seq(ChainLinks)
        /\ Len(SubSeq(chain, 1, d)) = IF 1 <= d THEN d - 1 + 1 ELSE 0
        /\ \A i \in 1 .. d - 1 + 1 : SubSeq(chain, 1, d)[i] = chain[1 + i - 1]
    BY ONLY <2>1, 1 \in Int, <1>1, SubSeqProperties
  <2> QED
    BY <1>1, <2>2 DEF Front
<1> HIDE DEF d, front
<1>3. NewExceptionLine \in Nat /\ d + 1 \in 0 .. Len(chain)
  BY <1>1 DEF NewExceptionLine
<1> DEFINE k == d + 1
<1>0. k = d + 1 /\ k \in 0 .. Len(chain) /\ k + 1 = d + 2
  BY <1>1, <1>3
<1>4. /\ whole \in Seq(TraceLines) /\ Len(whole) = d + 2 /\ whole[d + 2].function = TopLevel
      /\ \A i \in 1 .. d + 2 :
           whole[i] = TraceLine(IF i <= d + 1 THEN chain[(d + 1) + 1 - i].function ELSE TopLevel,
                                IF i = 1 THEN NewExceptionLine
                                  ELSE chain[(d + 1) + 2 - i].caller_line)
  <2> HIDE DEF k
  <2>1. whole = StackTrace(chain, k, NewExceptionLine)
    BY <1>0
  <2> HIDE DEF whole
  <2> DEFINE n == NewExceptionLine
  <2>4. n \in Nat
    BY <1>3
  <2> HIDE DEF n
  <2>3. /\ StackTrace(chain, k, n) \in Seq(TraceLines)
         /\ Len(StackTrace(chain, k, n)) = k + 1
         /\ StackTrace(chain, k, n)[k + 1].function = TopLevel
         /\ \A i \in 1 .. k + 1 :
              StackTrace(chain, k, n)[i] =
                TraceLine(IF i <= k THEN chain[k + 1 - i].function ELSE TopLevel,
                          IF i = 1 THEN n ELSE chain[k + 2 - i].caller_line)
    <3>1. k \in 0 .. Len(chain)
      BY <1>0
    <3> QED
      BY ONLY <2>4, <3>1, chain \in Seq(ChainLinks), StackTraceLines, ZenonT(30)
  <2>2. /\ whole \in Seq(TraceLines) /\ Len(whole) = k + 1 /\ whole[k + 1].function = TopLevel
        /\ \A i \in 1 .. k + 1 :
             whole[i] = TraceLine(IF i <= k THEN chain[k + 1 - i].function ELSE TopLevel,
                                  IF i = 1 THEN NewExceptionLine ELSE chain[k + 2 - i].caller_line)
    BY <2>1, <2>3 DEF n
  <2> QED
    BY ONLY <1>0, <2>2
<1> HIDE DEF whole, k
<1>5. /\ lines \in Seq(TraceLines) /\ Len(lines) = d + 1
      /\ \A i \in 1 .. d + 1 : lines[i] = whole[i + 1]
  <2>1. whole # <<>>
    BY <1>1, <1>4
  <2>2. /\ Tail(whole) \in Seq(TraceLines) /\ Len(Tail(whole)) = Len(whole) - 1
        /\ \A i \in 1 .. Len(Tail(whole)) : Tail(whole)[i] = whole[i + 1]
    BY ONLY <1>4, <2>1, HeadTailProperties
  <2>3. Len(whole) - 1 = d + 1 /\ lines = Tail(whole)
    BY <1>1, <1>4
  <2> QED
    BY ONLY <2>2, <2>3
<1> HIDE DEF lines
<1>6. ASSUME NEW i \in 1 .. d PROVE lines[i].function = front[d + 1 - i].function
  <2>1. i + 1 \in 1 .. d + 2 /\ i + 1 <= d + 1 /\ (d + 1) + 1 - (i + 1) = d + 1 - i
        /\ d + 1 - i \in 1 .. d /\ i \in 1 .. d + 1
    BY <1>1
  <2>2. lines[i].function = chain[d + 1 - i].function
    <3>1. lines[i] = whole[i + 1]
      BY ONLY <1>5, <2>1
    <3>2. PICK v : whole[i + 1] = TraceLine(chain[(d + 1) + 1 - (i + 1)].function, v)
      BY ONLY <1>4, <2>1
    <3>3. whole[i + 1].function = chain[(d + 1) + 1 - (i + 1)].function
      BY ONLY <3>2 DEF TraceLine
    <3> QED
      BY ONLY <2>1, <3>1, <3>3
  <2> QED
    BY <1>2, <2>1, <2>2
<1>7. ASSUME NEW i \in 2 .. d + 1 PROVE lines[i].line = front[d + 2 - i].caller_line
  <2>1. i + 1 \in 1 .. d + 2 /\ i + 1 # 1 /\ (d + 1) + 2 - (i + 1) = d + 2 - i
        /\ d + 2 - i \in 1 .. d /\ i \in 1 .. d + 1
    BY <1>1
  <2>2. lines[i].line = chain[d + 2 - i].caller_line
    <3>1. lines[i] = whole[i + 1]
      BY ONLY <1>5, <2>1
    <3>2. PICK v : whole[i + 1] = TraceLine(v, chain[(d + 1) + 2 - (i + 1)].caller_line)
      BY ONLY <1>4, <2>1
    <3>3. whole[i + 1].line = chain[(d + 1) + 2 - (i + 1)].caller_line
      BY ONLY <3>2 DEF TraceLine
    <3> QED
      BY ONLY <2>1, <3>1, <3>3
  <2> QED
    BY <1>2, <2>1, <2>2
<1>8. lines[1].line = Last(acts).line /\ lines[d + 1].function = TopLevel
  <2>1. 1 \in 1 .. d + 1 /\ d + 1 \in 1 .. d + 1 /\ (d + 1) + 1 = d + 2 /\ 1 + 1 = 2
          /\ 2 \in 1 .. d + 2
        /\ (d + 1) + 2 - 2 = d + 1
    BY <1>1
  <2>2. lines[1] = whole[2] /\ lines[d + 1] = whole[d + 2]
    BY <1>5, <2>1
  <2>3. whole[2].line = chain[d + 1].caller_line
    <3>1. whole[2] = TraceLine(IF 2 <= d + 1 THEN chain[(d + 1) + 1 - 2].function ELSE TopLevel,
                               IF 2 = 1 THEN NewExceptionLine
                                 ELSE chain[(d + 1) + 2 - 2].caller_line)
      BY ONLY <1>4, <2>1
    <3>2. (IF 2 = 1 THEN NewExceptionLine ELSE chain[(d + 1) + 2 - 2].caller_line)
            = chain[d + 1].caller_line
      BY ONLY <2>1
    <3> QED
      BY ONLY <3>1, <3>2 DEF TraceLine
  <2> QED
    BY <1>1, <1>4, <2>2, <2>3 DEF Last
<1>9. \A j \in 1 .. Len(front) : front[j].begun
  <2>1. \A j \in 1 .. d : front[j] = chain[j] /\ j \in 1 .. Len(chain)
    BY <1>1, <1>2
  <2> QED
    BY <1>2, <2>1
<1>10. lines = Reverse(acts)
  <2>1. Corresponds(front, acts)
    BY DEF front
  <2>2. d = Len(front)
    BY <1>2
  <2>3. front \in Seq(ChainLinks) /\ lines \in Seq(TraceLines) /\ Len(lines) = d + 1
    BY <1>2, <1>5
  <2> QED
    <3>1. LinesOf(front, d, Last(acts).line, lines)
      BY ONLY <1>6, <1>7, <1>8, <1>9, <2>2, <2>3 DEF LinesOf
    <3> QED
      BY ONLY acts \in Seq(TraceLines), <2>1, <2>3, <3>1, TraceOfActivations
<1> QED
  BY <1>1, <1>5, <1>10 DEF WithoutCreate, lines, whole

LEMMA Largest ==
  ASSUME NEW d \in Nat, NEW B \in SUBSET (1 .. d), B # {}
  PROVE  \E m \in B : \A j \in B : j <= m
<1> DEFINE T == {d - k : k \in B}
<1>1. \A k \in B : k \in Nat /\ d - k \in Nat
  OBVIOUS
<1>2. T \in SUBSET Nat /\ T # {}
  BY <1>1
<1>3. PICK x \in T : \A y \in T : x <= y
  <2> HIDE DEF T
  <2> QED
    BY <1>2, Least
<1>4. PICK m \in B : x = d - m
  BY <1>3
<1>5. ASSUME NEW j \in B PROVE j <= m
  <2>1. d - m <= d - j
    BY <1>3, <1>4
  <2> QED
    BY <1>1, <2>1
<1> QED
  BY <1>5

\* CurrentEnvironment is the newest one that has begun.
LEMMA CurrentIsNewest ==
  ASSUME environment \in Seq(ChainLinks)
  PROVE  CurrentEnvironment \in 0 .. Depth /\ (Begun = 1 .. Depth => CurrentEnvironment = Depth)
<1>1. Depth \in Nat /\ Begun \in SUBSET (1 .. Depth)
  BY LenProperties DEF Depth, Begun
<1>2. CASE Begun = {}
  BY <1>1, <1>2 DEF CurrentEnvironment
<1>3. CASE Begun # {}
  <2>1. \E m \in Begun : \A j \in Begun : j <= m
    BY <1>1, <1>3, Largest
  <2> DEFINE c == CHOOSE k \in Begun : \A j \in Begun : j <= k
  <2>2. c \in Begun /\ \A j \in Begun : j <= c
    BY <2>1
  <2>3. CurrentEnvironment = c
    BY <1>3 DEF CurrentEnvironment
  <2> HIDE DEF c
  <2>4. c \in 1 .. Depth
    BY <1>1, <2>2
  <2>5. Begun = 1 .. Depth => c = Depth
    <3> SUFFICES ASSUME Begun = 1 .. Depth PROVE c = Depth
      OBVIOUS
    <3>1. Depth \in 1 .. Depth
      BY <1>1, <2>4
    <3>2. Depth <= c
      BY <2>2, <3>1
    <3> QED
      BY <1>1, <2>4, <3>2
  <2> QED
    BY <1>1, <2>3, <2>4, <2>5
<1> QED
  BY <1>2, <1>3

LEMMA FrontLinks ==
  ASSUME NEW chain \in Seq(ChainLinks), chain # <<>>
  PROVE  /\ Front(chain) \in Seq(ChainLinks) /\ Len(Front(chain)) = Len(chain) - 1
         /\ Len(chain) \in Nat \ {0}
         /\ Front(chain) = SubSeq(chain, 1, Len(chain) - 1)
         /\ \A j \in 1 .. Len(chain) - 1 : Front(chain)[j] = chain[j]
         /\ Last(chain) = chain[Len(chain)] /\ Last(chain) \in ChainLinks
<1>1. Len(chain) \in Nat \ {0}
  BY EmptySeq
<1> DEFINE d == Len(chain) - 1
<1>2. d \in Nat /\ \A i \in 1 .. d : chain[i] \in ChainLinks
  BY <1>1, ElementOfSeq
<1>3. /\ SubSeq(chain, 1, d) \in Seq(ChainLinks)
      /\ Len(SubSeq(chain, 1, d)) = IF 1 <= d THEN d - 1 + 1 ELSE 0
      /\ \A i \in 1 .. d - 1 + 1 : SubSeq(chain, 1, d)[i] = chain[1 + i - 1]
  BY ONLY <1>2, 1 \in Int, d \in Int, SubSeqProperties
<1>4. Last(chain) = chain[Len(chain)] /\ Last(chain) \in ChainLinks
  BY <1>1, ElementOfSeq DEF Last
<1>5. Front(chain) = SubSeq(chain, 1, d)
  BY DEF Front
<1> HIDE DEF d
<1>6. /\ Front(chain) \in Seq(ChainLinks) /\ Len(Front(chain)) = d
      /\ \A j \in 1 .. d : Front(chain)[j] = chain[j]
  BY <1>2, <1>3, <1>5
<1> QED
  BY <1>1, <1>4, <1>5, <1>6 DEF d

LEMMA TracesInitInvariant == TracesInit => TracesInv
<1> SUFFICES ASSUME TracesInit PROVE TracesInv
  OBVIOUS
<1>1. environment = <<>> /\ environment \in Seq(ChainLinks) /\ Depth = 0
  BY DEF TracesInit, Depth
<1>2. TraceLine(TopLevel, 0) \in TraceLines
  BY DEF TraceLine, TraceLines
<1>3. activations = <<TraceLine(TopLevel, 0)>>
  BY DEF TracesInit
<1>4. /\ activations \in Seq(TraceLines) /\ Len(activations) = 1
      /\ activations[1] = TraceLine(TopLevel, 0)
  BY <1>2, <1>3
<1>5. Corresponds(environment, activations)
  <2>1. Rank(environment, 0) = 0
    BY RankStep
  <2>2. Len(environment) = 0
    BY <1>1
  <2>3. activations[1].function = TopLevel
    BY <1>4 DEF TraceLine
  <2> QED
    BY <1>4, <2>1, <2>2, <2>3 DEF Corresponds
<1>6. trace = <<>> /\ trace \in Seq(TraceLines) /\ raising = "no"
  BY DEF TracesInit
<1>7. Depth <= MaxCalls
  BY <1>1, TracesAssumption
<1> QED
  BY <1>1, <1>4, <1>5, <1>6, <1>7 DEF TracesInv

\* Going on: the exceptions and the traces are as before.
LEMMA Calling ==
  ASSUME TracesInv, CallFunction
  PROVE  TracesInv'
<1>1. PICK name \in Called, n \in LineNumbers :
        /\ environment' = Append(environment, Environment(name, n, FALSE))
        /\ activations' = Reaches(n)
  BY DEF CallFunction, Called
<1> DEFINE e == Environment(name, n, FALSE)
<1>2. /\ environment \in Seq(ChainLinks) /\ activations \in Seq(TraceLines)
      /\ Corresponds(environment, activations) /\ Len(environment) \in Nat
  BY LenProperties DEF TracesInv, CallFunction, Executing
<1>3. n \in Nat /\ e \in ChainLinks /\ ~e.begun
  BY TracesAssumption DEF Environment, ChainLinks
<1> HIDE DEF e
<1>4. Reaches(n) \in Seq(TraceLines) /\ Corresponds(environment, Reaches(n))
  BY <1>2, <1>3, ReachesLine
<1>5. Append(environment, e) \in Seq(ChainLinks)
        /\ Len(Append(environment, e)) = Len(environment) + 1
  BY <1>2, <1>3, AppendProperties
<1>6. Corresponds(Append(environment, e), Reaches(n))
  BY <1>2, <1>3, <1>4, CorrespondsCall
<1>7. environment' = Append(environment, e) /\ activations' = Reaches(n)
  BY <1>1 DEF e
<1>8. environment' \in Seq(ChainLinks) /\ activations' \in Seq(TraceLines) /\ Depth' <= MaxCalls
  <2>1. Len(environment) < MaxCalls
    BY DEF CallFunction, Depth
  <2>2. Depth' = Len(environment) + 1
    BY <1>5, <1>7 DEF Depth
  <2> QED
    BY <1>2, <1>4, <1>5, <1>7, <2>1, <2>2, TracesAssumption
<1>9. Corresponds(environment', activations')
  BY <1>6, <1>7
<1>10. raising = "no" /\ raising' = raising /\ trace' = trace
  BY DEF CallFunction, Executing
<1> QED
  BY <1>8, <1>9, <1>10 DEF TracesInv

LEMMA Beginning ==
  ASSUME TracesInv, BeginFunction
  PROVE  TracesInv'
<1> DEFINE n == Last(environment).caller_line
           a == TraceLine(Last(environment).function, 0)
<1>1. /\ environment \in Seq(ChainLinks) /\ activations \in Seq(TraceLines)
      /\ Corresponds(environment, activations) /\ environment # <<>> /\ ~Last(environment).begun
  BY DEF TracesInv, BeginFunction, Executing
<1>2. Last(environment) \in ChainLinks /\ Len(environment) \in Nat \ {0}
  BY <1>1, FrontLinks
<1>3. n \in Nat /\ a \in TraceLines /\ a.function = Last(environment).function
  BY <1>2, TracesAssumption DEF ChainLinks, TraceLine, TraceLines
<1>4. /\ environment' = [environment EXCEPT ![Len(environment)].begun = TRUE]
      /\ activations' = Append(Reaches(n), a)
  BY DEF BeginFunction, Depth
<1> HIDE DEF a
<1>5. /\ Reaches(n) \in Seq(TraceLines) /\ Corresponds(environment, Reaches(n))
      /\ Last(Reaches(n)).line = n
  BY <1>1, <1>3, ReachesLine
<1>6. Reaches(n)[Len(Reaches(n))].line = Last(environment).caller_line
  BY <1>5 DEF Last
<1>7. Append(Reaches(n), a) \in Seq(TraceLines)
  BY <1>3, <1>5, AppendProperties
<1> HIDE DEF n
<1>8. /\ [environment EXCEPT ![Len(environment)].begun = TRUE] \in Seq(ChainLinks)
      /\ Corresponds([environment EXCEPT ![Len(environment)].begun = TRUE], Append(Reaches(n), a))
  BY <1>1, <1>3, <1>5, <1>6, CorrespondsBegin
<1>9. Len(environment') = Len(environment)
  <2>1. environment' = [i \in 1 .. Len(environment) |->
                          IF i = Len(environment) THEN [environment[i] EXCEPT !.begun = TRUE]
                          ELSE environment[i]]
    BY <1>1, <1>4, LenProperties
  <2>2. DOMAIN environment' = 1 .. Len(environment)
    BY <2>1
  <2>3. environment' \in Seq(ChainLinks)
    BY <1>4, <1>8
  <2>4. Len(environment') \in Nat /\ DOMAIN environment' = 1 .. Len(environment')
    BY <2>3, LenProperties
  <2> QED
    BY <1>2, <2>2, <2>4
<1>10. environment' \in Seq(ChainLinks) /\ activations' \in Seq(TraceLines) /\ Depth' <= MaxCalls
  <2>1. Len(environment) <= MaxCalls
    BY DEF TracesInv, BeginFunction, Executing, Depth
  <2> QED
    BY <1>4, <1>7, <1>8, <1>9, <2>1 DEF Depth
<1>11. Corresponds(environment', activations')
  BY <1>4, <1>8
<1>12. raising = "no" /\ raising' = raising /\ trace' = trace
  BY DEF BeginFunction, Executing
<1> QED
  BY <1>10, <1>11, <1>12 DEF TracesInv

LEMMA Returning ==
  ASSUME TracesInv, FunctionReturns
  PROVE  TracesInv'
<1> DEFINE k == Len(environment) - 1
<1>1. /\ environment \in Seq(ChainLinks) /\ activations \in Seq(TraceLines)
      /\ Corresponds(environment, activations) /\ environment # <<>> /\ Last(environment).begun
  BY DEF TracesInv, FunctionReturns, Executing
<1>2. /\ Front(environment) \in Seq(ChainLinks) /\ Len(Front(environment)) = k
      /\ Len(environment) \in Nat \ {0} /\ Front(environment) = SubSeq(environment, 1, k)
      /\ environment[Len(environment)].begun
  BY <1>1, FrontLinks
<1>3. k \in 0 .. Len(environment) /\ k = Len(environment) - 1
  BY <1>2
<1> HIDE DEF k
<1>4. Rank(environment, k) = Rank(environment, Len(environment)) - 1 /\ Rank(environment, k) \in Nat
      /\ Rank(environment, Len(environment)) \in Nat
  <2>1. /\ Rank(environment, Len(environment)) \in Nat \ {0}
        /\ Rank(environment, Len(environment) - 1) = Rank(environment, Len(environment)) - 1
    BY <1>2, RankOfBegun
  <2> QED
    BY <1>3, <2>1
<1>5. Len(activations) - 1 = Rank(environment, k) + 1
  BY <1>1, <1>4 DEF Corresponds
<1>6. Front(activations) = SubSeq(activations, 1, Rank(environment, k) + 1)
  BY <1>5 DEF Front
<1>7. /\ SubSeq(activations, 1, Rank(environment, k) + 1) \in Seq(TraceLines)
      /\ Corresponds(SubSeq(environment, 1, k), SubSeq(activations, 1, Rank(environment, k) + 1))
  BY <1>1, <1>3, CorrespondsCut
<1>8. environment' = SubSeq(environment, 1, k)
      /\ activations' = SubSeq(activations, 1, Rank(environment, k) + 1)
  BY <1>2, <1>6 DEF FunctionReturns
<1>9. environment' \in Seq(ChainLinks) /\ activations' \in Seq(TraceLines) /\ Depth' <= MaxCalls
  <2>1. Len(environment) <= MaxCalls
    BY DEF TracesInv, FunctionReturns, Executing, Depth
  <2>2. Len(environment') = k
    BY <1>2, <1>8
  <2> QED
    BY <1>2, <1>3, <1>7, <1>8, <2>1, <2>2, TracesAssumption DEF Depth
<1>10. Corresponds(environment', activations')
  BY <1>7, <1>8
<1>11. raising = "no" /\ raising' = raising /\ trace' = trace
  BY DEF FunctionReturns, Executing
<1> QED
  BY <1>9, <1>10, <1>11 DEF TracesInv

\* A trace made where k is the newest environment that is asked
LEMMA TraceIsMade ==
  ASSUME TracesInv, Executing, NEW k \in 0 .. Depth, NEW n \in LineNumbers,
         trace' = StackTrace(environment, k, n),
         activations' = Reaches(n), expected' = Reaches(n), raising' \in {"no", "thrown"},
         environment' = environment
  PROVE  /\ TracesInv'
         /\ Begun = 1 .. Depth /\ k = Depth => trace' = Reverse(expected')
<1>1. /\ environment \in Seq(ChainLinks) /\ activations \in Seq(TraceLines)
      /\ Corresponds(environment, activations) /\ Depth <= MaxCalls
  BY DEF TracesInv, Executing
<1>2. n \in Nat
  BY TracesAssumption
<1>3. Reaches(n) \in Seq(TraceLines) /\ Corresponds(environment, Reaches(n))
      /\ Last(Reaches(n)).line = n
  BY <1>1, <1>2, ReachesLine
<1>4. k \in 0 .. Len(environment)
  BY DEF Depth
<1>5. /\ StackTrace(environment, k, n) \in Seq(TraceLines)
      /\ Len(StackTrace(environment, k, n)) = k + 1
      /\ StackTrace(environment, k, n)[k + 1].function = TopLevel
  BY <1>1, <1>2, <1>4, StackTraceLines, SMTT(30)
<1>6. trace' \in Seq(TraceLines) /\ Last(trace').function = TopLevel
  BY <1>5 DEF Last
<1>7. TracesInv'
  <2>1. Depth' <= MaxCalls /\ environment' \in Seq(ChainLinks)
    BY <1>1 DEF Depth
  <2>2. activations' \in Seq(TraceLines) /\ Corresponds(environment', activations')
    BY <1>3
  <2> QED
    BY <1>6, <2>1, <2>2 DEF TracesInv
<1>8. ASSUME Begun = 1 .. Depth, k = Depth PROVE trace' = Reverse(expected')
  <2>1. \A j \in 1 .. Len(environment) : environment[j].begun
    BY <1>8 DEF Begun, Depth
  <2>2. StackTrace(environment, Len(environment), Last(Reaches(n)).line) = Reverse(Reaches(n))
    BY <1>1, <1>3, <2>1, TraceHere
  <2> QED
    BY <1>3, <1>8, <2>2 DEF Depth
<1> QED
  BY <1>7, <1>8

LEMMA RaisingWithoutClass ==
  ASSUME TracesInv, RaiseWithoutClass
  PROVE  TracesInv' /\ (Begun = 1 .. Depth => trace' = Reverse(expected'))
<1>1. PICK n \in LineNumbers :
        /\ trace' = StackTrace(environment, CurrentEnvironment, n)
        /\ activations' = Reaches(n) /\ expected' = Reaches(n)
  BY DEF RaiseWithoutClass
<1>2. CurrentEnvironment \in 0 .. Depth /\ (Begun = 1 .. Depth => CurrentEnvironment = Depth)
  BY CurrentIsNewest DEF TracesInv
<1>3. Executing /\ raising' \in {"no", "thrown"} /\ environment' = environment
  BY DEF RaiseWithoutClass
<1> DEFINE k == CurrentEnvironment
<1> HIDE DEF k
<1>4. trace' = StackTrace(environment, k, n) /\ k \in 0 .. Depth
        /\ (Begun = 1 .. Depth => k = Depth)
  BY <1>1, <1>2 DEF k
<1> QED
  BY <1>1, <1>3, <1>4, TraceIsMade

LEMMA MakingException ==
  ASSUME TracesInv, NewException
  PROVE  TracesInv' /\ (Begun = 1 .. Depth => trace' = Reverse(expected'))
<1>1. PICK n \in LineNumbers :
        /\ trace' = StackTrace(environment, Depth, n)
        /\ activations' = Reaches(n) /\ expected' = Reaches(n)
  BY DEF NewException
<1>2. Depth \in 0 .. Depth
  BY LenProperties DEF TracesInv, Depth
<1>3. Executing /\ raising' \in {"no", "thrown"} /\ environment' = environment
  BY DEF NewException, Executing
<1> QED
  BY <1>1, <1>2, <1>3, TraceIsMade

LEMMA CallingCreate ==
  ASSUME TracesInv, CallCreate
  PROVE  TracesInv' /\ trace' = trace
<1>1. PICK n \in LineNumbers :
        /\ environment' = Append(environment, Environment(Anonymous, n, TRUE))
        /\ activations' = Reaches(n) /\ expected' = Reaches(n)
  BY DEF CallCreate
<1> DEFINE e == Environment(Anonymous, n, TRUE)
<1>2. /\ environment \in Seq(ChainLinks) /\ activations \in Seq(TraceLines)
      /\ Corresponds(environment, activations) /\ Len(environment) \in Nat /\ Depth <= MaxCalls
  BY LenProperties DEF TracesInv, CallCreate, Executing
<1>3. n \in Nat /\ e \in ChainLinks /\ e.begun /\ e.caller_line = n
  BY TracesAssumption DEF Environment, ChainLinks, Called
<1> HIDE DEF e
<1>4. /\ Reaches(n) \in Seq(TraceLines) /\ Corresponds(environment, Reaches(n))
      /\ Last(Reaches(n)).line = n
  BY <1>2, <1>3, ReachesLine
<1>5. /\ Append(environment, e) \in Seq(ChainLinks)
      /\ Len(Append(environment, e)) = Len(environment) + 1
      /\ Append(environment, e)[Len(environment) + 1] = e
      /\ \A j \in 1 .. Len(environment) : Append(environment, e)[j] = environment[j]
  BY <1>2, <1>3, AppendProperties
<1>6. environment' = Append(environment, e) /\ activations' = Reaches(n) /\ expected' = Reaches(n)
  BY <1>1 DEF e
<1> DEFINE pushed == Append(environment, e)
<1> HIDE DEF pushed
<1>7. /\ pushed \in Seq(ChainLinks) /\ pushed # <<>> /\ Len(pushed) = Len(environment) + 1
      /\ pushed[Len(pushed)] = e
  BY <1>2, <1>5 DEF pushed
<1>8. /\ Front(pushed) \in Seq(ChainLinks) /\ Len(Front(pushed)) = Len(environment)
      /\ \A j \in 1 .. Len(environment) : Front(pushed)[j] = pushed[j]
      /\ Last(pushed) = e
  <2>1. Len(pushed) - 1 = Len(environment)
    BY <1>2, <1>7
  <2> QED
    BY <1>7, <2>1, FrontLinks
<1>9. Front(pushed) = environment
  <2>1. \A j \in 1 .. Len(environment) : Front(pushed)[j] = environment[j]
    BY <1>5, <1>8 DEF pushed
  <2> QED
    BY <1>2, <1>8, <2>1, SeqEqual
<1>10. environment' = pushed /\ activations' = Reaches(n) /\ expected' = Reaches(n)
  BY <1>6 DEF pushed
<1>11. CreateIsOnTop'
  <2>1. /\ pushed # <<>> /\ Last(pushed).begun /\ Corresponds(Front(pushed), Reaches(n))
        /\ Last(Reaches(n)).line = Last(pushed).caller_line
    BY <1>3, <1>4, <1>7, <1>8, <1>9
  <2> QED
    BY <1>10, <2>1 DEF CreateIsOnTop
<1>12. /\ environment' \in Seq(ChainLinks) /\ activations' \in Seq(TraceLines)
       /\ Depth' <= MaxCalls + 1
  <2>1. Depth' = Len(environment) + 1
    BY <1>7, <1>10 DEF Depth
  <2> QED
    BY <1>2, <1>4, <1>7, <1>10, <2>1, TracesAssumption DEF Depth
<1>13. raising' \in {"error", "created"} /\ trace' = trace
  BY DEF CallCreate
<1> QED
  BY <1>11, <1>12, <1>13 DEF TracesInv

LEMMA ReturningFromCreate ==
  ASSUME TracesInv, CreateReturns
  PROVE  TracesInv' /\ (Begun = 1 .. Depth => trace' = Reverse(expected'))
<1>1. /\ environment \in Seq(ChainLinks) /\ activations \in Seq(TraceLines) /\ Depth <= MaxCalls + 1
      /\ CreateIsOnTop
  BY DEF TracesInv, CreateReturns
<1>2. /\ environment # <<>> /\ Last(environment).begun
      /\ Corresponds(Front(environment), activations)
      /\ Last(activations).line = Last(environment).caller_line
      /\ expected = activations
  BY <1>1 DEF CreateIsOnTop
<1>3. /\ Front(environment) \in Seq(ChainLinks) /\ Len(Front(environment)) = Len(environment) - 1
      /\ Len(environment) \in Nat \ {0}
  BY <1>1, <1>2, FrontLinks
<1> DEFINE whole == StackTrace(environment, Len(environment), NewExceptionLine)
<1>4. NewExceptionLine \in Nat /\ Len(environment) \in 0 .. Len(environment)
  BY <1>3 DEF NewExceptionLine
<1>5. /\ whole \in Seq(TraceLines) /\ Len(whole) = Len(environment) + 1
      /\ whole[Len(environment) + 1].function = TopLevel
  <2> DEFINE k == Len(environment)
             n == NewExceptionLine
             lines == StackTrace(environment, k, n)
  <2>1. n \in Nat /\ k \in 0 .. Len(environment)
    BY <1>4
  <2> HIDE DEF k, n
  <2>2. lines \in Seq(TraceLines) /\ Len(lines) = k + 1 /\ lines[k + 1].function = TopLevel
    BY ONLY <1>1, <2>1, StackTraceLines
  <2> QED
    BY <2>2 DEF k, n
<1>6. trace' = Tail(whole)
  BY DEF CreateReturns, WithoutCreate, Depth
<1> HIDE DEF whole
<1>7. /\ Tail(whole) \in Seq(TraceLines) /\ Len(Tail(whole)) = Len(environment)
      /\ \A i \in 1 .. Len(environment) : Tail(whole)[i] = whole[i + 1]
  <2>1. whole # <<>>
    BY <1>3, <1>5
  <2>2. /\ Tail(whole) \in Seq(TraceLines) /\ Len(Tail(whole)) = Len(whole) - 1
        /\ \A i \in 1 .. Len(Tail(whole)) : Tail(whole)[i] = whole[i + 1]
    BY ONLY <1>5, <2>1, HeadTailProperties
  <2>3. Len(whole) - 1 = Len(environment)
    BY ONLY <1>3, <1>5
  <2> QED
    BY ONLY <2>2, <2>3
<1>8. trace' \in Seq(TraceLines) /\ Last(trace').function = TopLevel
  <2>1. Last(Tail(whole)) = whole[Len(environment) + 1]
    BY <1>3, <1>7 DEF Last
  <2> QED
    BY <1>5, <1>6, <1>7, <2>1
<1>9. /\ environment' = Front(environment) /\ activations' = activations /\ expected' = expected
      /\ raising' \in {"no", "thrown"}
  BY DEF CreateReturns
<1>10. TracesInv'
  <2>1. /\ environment' \in Seq(ChainLinks) /\ activations' \in Seq(TraceLines)
        /\ Corresponds(environment', activations')
    BY <1>1, <1>2, <1>3, <1>9
  <2>2. Depth' <= MaxCalls
    BY <1>1, <1>3, <1>9, TracesAssumption DEF Depth
  <2> QED
    BY <1>8, <1>9, <2>1, <2>2 DEF TracesInv
<1>11. ASSUME Begun = 1 .. Depth PROVE trace' = Reverse(expected')
  <2>1. \A j \in 1 .. Len(environment) : environment[j].begun
    BY <1>11 DEF Begun, Depth
  <2>2. WithoutCreate(StackTrace(environment, Len(environment), NewExceptionLine))
          = Reverse(activations)
    BY <1>1, <1>2, <2>1, TraceWithoutCreate
  <2>3. trace' = WithoutCreate(StackTrace(environment, Len(environment), NewExceptionLine))
    BY DEF CreateReturns, Depth
  <2> QED
    BY <1>2, <1>9, <2>2, <2>3
<1> QED
  BY <1>10, <1>11

LEMMA Catching ==
  ASSUME TracesInv, CatchException
  PROVE  TracesInv' /\ trace' = trace
<1>1. PICK k \in Begun \union {0} :
        /\ environment' = SubSeq(environment, 1, k)
        /\ activations' = SubSeq(activations, 1, 1 + Cardinality({j \in Begun : j <= k}))
  BY DEF CatchException
<1>2. /\ environment \in Seq(ChainLinks) /\ activations \in Seq(TraceLines)
      /\ Corresponds(environment, activations) /\ Len(environment) \in Nat /\ Depth <= MaxCalls
  BY LenProperties DEF TracesInv, CatchException
<1>3. k \in 0 .. Len(environment)
  BY <1>2 DEF Begun, Depth
<1>4. Cardinality({j \in Begun : j <= k}) = Rank(environment, k)
  <2>1. {j \in Begun : j <= k} = {j \in 1 .. k : environment[j].begun}
    BY <1>2, <1>3 DEF Begun, Depth
  <2> QED
    BY <2>1 DEF Rank
<1>5. Rank(environment, k) \in Nat
  BY <1>3, RankStep
<1>6. activations' = SubSeq(activations, 1, Rank(environment, k) + 1)
  <2>1. 1 + Rank(environment, k) = Rank(environment, k) + 1
    BY <1>5
  <2> QED
    BY <1>1, <1>4, <2>1
<1>7. /\ SubSeq(environment, 1, k) \in Seq(ChainLinks) /\ Len(SubSeq(environment, 1, k)) = k
      /\ SubSeq(activations, 1, Rank(environment, k) + 1) \in Seq(TraceLines)
      /\ Corresponds(SubSeq(environment, 1, k), SubSeq(activations, 1, Rank(environment, k) + 1))
  BY <1>2, <1>3, CorrespondsCut
<1>8. /\ environment' \in Seq(ChainLinks) /\ activations' \in Seq(TraceLines)
      /\ Corresponds(environment', activations')
  BY <1>1, <1>6, <1>7
<1>9. Depth' <= MaxCalls
  <2>1. Depth' = k
    BY <1>1, <1>7 DEF Depth
  <2> QED
    BY <1>2, <1>3, <2>1, TracesAssumption DEF Depth
<1>10. raising' = "no" /\ trace' = trace
  BY DEF CatchException
<1> QED
  BY <1>8, <1>9, <1>10 DEF TracesInv

LEMMA ThrowingAgain ==
  ASSUME TracesInv, ThrowAgain
  PROVE  TracesInv' /\ trace' = trace
<1>1. /\ raising = "no" /\ raising' = "thrown" /\ environment' = environment /\ trace' = trace
      /\ activations' = activations
  BY DEF ThrowAgain, Executing
<1>2. Depth' = Depth
  BY <1>1 DEF Depth
<1> QED
  BY <1>1, <1>2 DEF TracesInv

LEMMA TracesStep ==
  ASSUME TracesInv, [TracesNext]_tracesVars
  PROVE  TracesInv' /\ (trace' # trace /\ Begun = 1 .. Depth => trace' = Reverse(expected'))
<1>1. CASE CallFunction
  BY <1>1, Calling DEF CallFunction
<1>2. CASE BeginFunction
  BY <1>2, Beginning DEF BeginFunction
<1>3. CASE FunctionReturns
  BY <1>3, Returning DEF FunctionReturns
<1>4. CASE RaiseWithoutClass
  BY <1>4, RaisingWithoutClass
<1>5. CASE CallCreate
  BY <1>5, CallingCreate
<1>6. CASE CreateReturns
  BY <1>6, ReturningFromCreate
<1>7. CASE NewException
  BY <1>7, MakingException
<1>8. CASE ThrowAgain
  BY <1>8, ThrowingAgain
<1>9. CASE CatchException
  BY <1>9, Catching
<1>10. CASE UNCHANGED tracesVars
  <2>1. TracesInv'
    BY <1>10 DEF tracesVars, TracesInv, CreateIsOnTop, Depth
  <2> QED
    BY <1>10, <2>1 DEF tracesVars
<1> QED
  BY <1>1, <1>2, <1>3, <1>4, <1>5, <1>6, <1>7, <1>8, <1>9, <1>10 DEF TracesNext

\* The functions that run are the environments whose functions have begun, each with the line its
\* caller has reached (eval.c:931-998, 1249-1290, heap.c:588-603).
THEOREM TracesInvariance == TracesSpec => []TracesInv
<1>1. TracesInv /\ [TracesNext]_tracesVars => TracesInv'
  BY TracesStep
<1> QED
  BY <1>1, TracesInitInvariant, PTL DEF TracesSpec

\* The chain of environments and the stack traces are well formed: a trace ends at the top level.
THEOREM TracesTypes == TracesSpec => []TracesTypeOK
<1>1. TracesInv => TracesTypeOK
  <2> SUFFICES ASSUME TracesInv PROVE TracesTypeOK
    OBVIOUS
  <2>1. Depth \in Nat /\ \A k \in 1 .. Depth : environment[k] \in ChainLinks
    BY LenProperties, ElementOfSeq DEF TracesInv, Depth
  <2>2. Depth <= MaxCalls + 1
    BY <2>1, TracesAssumption DEF TracesInv
  <2> QED
    BY <2>1, <2>2 DEF TracesInv, TracesTypeOK, ChainLinks, Called
<1> QED
  BY <1>1, TracesInvariance, PTL

\* However deep the calls and wherever exceptions are made, caught and thrown again: the trace of
\* an exception that is made while no environment waits for its arguments is that of the
\* activations there are, with the line each has reached, and shows neither create nor
\* new_exception.
THEOREM TracesNameTheCallers == TracesSpec => TraceIsCallStack
<1>1. TracesInv /\ [TracesNext]_tracesVars
        => [trace' # trace /\ Begun = 1 .. Depth => trace' = Reverse(expected')]_tracesVars
  BY TracesStep
<1> QED
  BY <1>1, TracesInvariance, PTL DEF TracesSpec, TraceIsCallStack

-----------------------------------------------------------------------------
(* The parts side by side (MCEvaluation).                                  *)

\* Each part takes its own steps, and those of the others leave it as it is.
LEMMA PartsAreTheirSpecs ==
  EvaluationSpec => OperatorsSpec /\ MatchingSpec /\ NativesSpec /\ ScannerSpec /\ TracesSpec
<1>1. EvaluationInit => OperatorsInit /\ MatchingInit /\ NativesInit /\ ScannerInit /\ TracesInit
  BY DEF EvaluationInit
<1>2. [EvaluationNext]_evaluationVars => [OperatorsNext]_operatorVars
  BY DEF EvaluationNext, evaluationVars
<1>3. [EvaluationNext]_evaluationVars => [MatchingNext]_matchingVars
  BY DEF EvaluationNext, evaluationVars
<1>4. [EvaluationNext]_evaluationVars => [NativesNext]_nativesVars
  BY DEF EvaluationNext, evaluationVars
<1>5. [EvaluationNext]_evaluationVars => [ScannerNext]_scannerVars
  BY DEF EvaluationNext, evaluationVars
<1>6. [EvaluationNext]_evaluationVars => [TracesNext]_tracesVars
  BY DEF EvaluationNext, evaluationVars
<1> QED
  BY <1>1, <1>2, <1>3, <1>4, <1>5, <1>6, PTL
     DEF EvaluationSpec, OperatorsSpec, MatchingSpec, NativesSpec, ScannerSpec, TracesSpec

\* The variables of the operators, of the calls that match, of the native functions, of the scanner
\* and of the traces keep their types, whatever the constants are.
THEOREM EvaluationTypes == EvaluationSpec => []EvaluationTypeOK
<1>1. OperatorsTypeOK /\ MatchingTypeOK /\ NativesTypeOK /\ ScannerTypeOK /\ TracesTypeOK
        => EvaluationTypeOK
  BY DEF EvaluationTypeOK
<1> QED
  BY <1>1, PartsAreTheirSpecs, OperatorsTypes, MatchingTypes, NativesTypes, ScannerTypes,
     TracesTypes, PTL
=============================================================================
