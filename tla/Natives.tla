-------------------------------- MODULE Natives --------------------------------
(***************************************************************************)
(* Native pointers: the objects through which a program holds files and    *)
(* regular expressions (native.c, regexp.c, nativeif.c), and what becomes  *)
(* of them when they are collected and when the interpreter is disposed of *)
(* (interface.c).                                                          *)
(*                                                                         *)
(* held are the objects the program can reach, by variables, members or    *)
(* the value stack; Heap shows how the collector finds them. opened is the *)
(* stream that fopen has in a C local while it makes the object for it,    *)
(* an allocation, in which a collection may run.                           *)
(***************************************************************************)
EXTENDS Integers

CONSTANTS Streams,   \* FILEs of the C library: numbers
          Standard,  \* those of stdin, stdout and stderr
          Patterns,  \* regular expressions written in the program: numbers
          Slots      \* places for objects: numbers

ASSUME NativesAssumption ==
  /\ Streams \subseteq Nat /\ Standard \subseteq Streams
  /\ Patterns \subseteq Nat /\ Slots \subseteq Nat /\ Standard \subseteq Slots

VARIABLES files,     \* the streams that are open
          compiled,  \* inter->regexp_literals
          objects,   \* the native pointer object in each slot
          held, opened, stage,
          answer     \* how the last call of a native function has ended

nativesVars == <<files, compiled, objects, held, opened, stage, answer>>

NULL == -1
Free == [info |-> "free", pointer |-> NULL]
File(p) == [info |-> "file", pointer |-> p]
Regexp(l) == [info |-> "regexp", pointer |-> l]

\* crb_add_std_fp puts the standard streams into global variables, which are final. The object of
\* a standard stream is in the slot with its number.
NativesInit ==
  /\ files = Standard /\ compiled = {}
  /\ objects = [o \in Slots |-> IF o \in Standard THEN File(o) ELSE Free]
  /\ held = Standard /\ opened = NULL /\ stage = "running" /\ answer = "none"

Running == stage = "running" /\ opened = NULL

Create(o, object) ==
  /\ objects[o] = Free
  /\ objects' = [objects EXCEPT ![o] = object] /\ held' = held \union {o}

\* crb_create_regexp_in_compile
Compile ==
  /\ Running
  /\ \E l \in Patterns \ compiled : compiled' = compiled \union {l}
  /\ answer' = "none"
  /\ UNCHANGED <<files, objects, held, opened, stage>>

\* Each evaluation of a literal makes a new object.
EvalRegexp ==
  /\ Running
  /\ \E l \in compiled, o \in Slots : Create(o, Regexp(l))
  /\ answer' = "none"
  /\ UNCHANGED <<files, compiled, opened, stage>>

\* fopen of the C library gives any stream that is not open, or NULL.
Fopen ==
  /\ Running
  /\ \/ \E s \in (Streams \ Standard) \ files :
          files' = files \union {s} /\ opened' = s /\ UNCHANGED answer
     \/ answer' = "null" /\ UNCHANGED <<files, opened>>
  /\ UNCHANGED <<compiled, objects, held, stage>>

FopenReturns ==
  /\ opened # NULL
  /\ \E o \in Slots : Create(o, File(opened))
  /\ opened' = NULL /\ answer' = "file"
  /\ UNCHANGED <<files, compiled, stage>>

\* The checks that fclose, fgets and fputs make
Refusal(o) ==
  IF objects[o].info # "file" THEN "ARGUMENT_TYPE"
  ELSE IF objects[o].pointer = NULL THEN "FILE_ALREADY_CLOSED"
  ELSE "none"

KeepsPointer(o) == objects
AfterFclose(o) == [objects EXCEPT ![o].pointer = NULL]

Fclose ==
  /\ Running
  /\ \E o \in held :
       IF Refusal(o) # "none"
       THEN answer' = Refusal(o) /\ UNCHANGED <<files, objects>>
       ELSE files' = files \ {objects[o].pointer} /\ objects' = AfterFclose(o) /\ answer' = "null"
  /\ UNCHANGED <<compiled, held, opened, stage>>

\* fgets and fputs. (print, left out, writes to stdout without asking: native.c:47-64.)
UseFile ==
  /\ Running
  /\ \E o \in held : answer' = IF Refusal(o) # "none" THEN Refusal(o) ELSE "used"
  /\ UNCHANGED <<files, compiled, objects, held, opened, stage>>

\* reg_match asks what its first argument points to. reg_replace, reg_replace_all and reg_split
\* take a file for an expression: what they do then is undefined, and the model stops.
UseRegexp ==
  /\ Running
  /\ \E o \in held :
       \/ objects[o].info = "regexp" /\ answer' = "used" /\ UNCHANGED stage
       \/ objects[o].info = "file" /\ answer' = "ARGUMENT_TYPE" /\ UNCHANGED stage
       \/ objects[o].info = "file" /\ answer' = "none" /\ stage' = "crashed"
  /\ UNCHANGED <<files, compiled, objects, held, opened>>

\* The last reference to an object is gone.
Lose ==
  /\ Running
  /\ \E o \in held \ Standard : held' = held \ {o}
  /\ UNCHANGED <<files, compiled, objects, opened, stage, answer>>

-----------------------------------------------------------------------------
(* Finalizers and the end.                                                 *)

\* file_finalizer closes what is neither closed nor a standard stream; regexp_finalizer looks
\* whether the expression is that of a literal, and they all are.
Closes(o) == objects[o].info = "file" /\ objects[o].pointer \notin {NULL} \union Standard

Sweep ==
  /\ files' = files \ {objects[o].pointer : o \in {o \in Slots \ held : Closes(o)}}
  /\ objects' = [o \in Slots |-> IF o \in held THEN objects[o] ELSE Free]

\* crb_garbage_collect
Collect ==
  /\ stage = "running"
  /\ Sweep
  /\ UNCHANGED <<compiled, held, opened, stage, answer>>

\* CRB_dispose_interpreter: the global variables, the objects, the literals
ReleaseGlobals ==
  /\ Running
  /\ stage' = "released" /\ held' = {}
  /\ UNCHANGED <<files, compiled, objects, opened, answer>>

LastCollection ==
  /\ stage = "released" /\ stage' = "collected"
  /\ Sweep
  /\ UNCHANGED <<compiled, held, opened, answer>>

DisposeLiterals ==
  /\ stage = "collected" /\ stage' = "disposed"
  /\ compiled' = {}
  /\ UNCHANGED <<files, objects, held, opened, answer>>

\* The native function exit, and a parser that fails (interface.c:102), end the process as it is.
Exit ==
  /\ Running
  /\ stage' = "exited"
  /\ UNCHANGED <<files, compiled, objects, held, opened, answer>>

Over == stage \in {"disposed", "exited", "crashed"} /\ UNCHANGED nativesVars

NativesNext ==
  \/ Compile \/ EvalRegexp \/ Fopen \/ FopenReturns \/ Fclose \/ UseFile \/ UseRegexp \/ Lose
  \/ Collect \/ ReleaseGlobals \/ LastCollection \/ DisposeLiterals \/ Exit \/ Over

NativesSpec == NativesInit /\ [][NativesNext]_nativesVars

-----------------------------------------------------------------------------
(* Properties.                                                             *)

NativePointers ==
  {Free} \union {File(p) : p \in Streams \union {NULL}} \union {Regexp(l) : l \in Patterns}

NativesTypeOK ==
  /\ files \subseteq Streams /\ compiled \subseteq Patterns /\ held \subseteq Slots
  /\ objects \in [Slots -> NativePointers]
  /\ opened \in Streams \union {NULL}
  /\ stage \in {"running", "released", "collected", "disposed", "exited", "crashed"}

\* Every open stream that is not a standard one belongs to exactly one object, or to the fopen that
\* is making it, and no object has a stream that is closed: no function that takes a file uses a
\* stream after it is closed, and none is closed twice, by fclose (native.c:120-141) and by the
\* finalizer of its object (native.c:36-45), or left open by a program that forgets it. An
\* expression lives as long as the objects that share it (interface.c:213-226).
HasOwner == \A s \in files \ Standard : opened = s \/ \E o \in Slots : objects[o] = File(s)
OwnerIsAlone ==
  \A o, p \in Slots :
    objects[o].info = "file" /\ objects[o].pointer # NULL /\ objects[p] = objects[o] => p = o
FopenIsAlone == opened # NULL => \A o \in Slots : objects[o] # File(opened)
FilesAreOpen ==
  \A o \in Slots : objects[o].info = "file" => objects[o].pointer \in files \union {NULL}
PatternsAreLive == \A o \in Slots : objects[o].info = "regexp" => objects[o].pointer \in compiled
NothingStaysOpen == stage = "disposed" => files \subseteq Standard
PointersAreValid ==
  /\ HasOwner /\ OwnerIsAlone /\ FopenIsAlone /\ FilesAreOpen /\ PatternsAreLive
  /\ NothingStaysOpen

=============================================================================
