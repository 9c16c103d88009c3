------------------------------- MODULE Unwind -------------------------------
(***************************************************************************)
(* The control skeleton of the crowbar interpreter: how its recursive C    *)
(* functions, one activation per frame, hand over the recovery point of    *)
(* setjmp/longjmp, the value stack and the chain of local environments     *)
(* when a crowbar program calls functions, tries, throws and returns.      *)
(*                                                                         *)
(* The program itself is not modelled: at every point where the tree       *)
(* walker may evaluate something, the model takes any of the steps some    *)
(* crowbar program takes there.                                            *)
(***************************************************************************)
EXTENDS Naturals

CONSTANTS MaxFrames,     \* bound: activations alive on the C stack
          MaxTemps,      \* bound: operands of one expression on the value stack
          Values,        \* what inter->current_exception can hold
          NullValue,     \* CRB_NULL_VALUE: "no exception" (heap.c, interface.c:32)
          NoValue,       \* history only: nothing was caught
          Thrown,        \* values a throw statement is given
          Created,       \* values the create method of an exception class returns
          Raised,        \* the object CRB_create_exception builds
          Printable,     \* objects whose print_stack_trace member is a closure
          TriesWhilePending, \* may a try statement run while an exception is pending?
          BadArguments   \* may an argument of main() be a malformed multibyte string?

ASSUME BoundsAssumption == MaxFrames \in Nat /\ MaxFrames >= 4 /\ MaxTemps \in Nat

ASSUME ValuesAssumption ==
  /\ NullValue \in Values
  /\ NoValue \notin Values
  /\ Raised \in Printable \ {NullValue}
  /\ Thrown \subseteq Values /\ Created \subseteq Values /\ Printable \subseteq Values

ASSUME FlagsAssumption == TriesWhilePending \in BOOLEAN /\ BadArguments \in BOOLEAN

VARIABLES mode,    \* what main() is doing
          frames,  \* the C activations, oldest first
          top,     \* how many of them are alive
          rec,     \* the frame whose setjmp filled current_recovery_environment
          sp,      \* inter->stack.stack_pointer
          topEnv,  \* length of the chain at inter->top_environment; also its head
          exc,     \* inter->current_exception
          jmp,     \* the frame a longjmp is on its way to, 0 when there is none
          res      \* the StatementResult a statement list has ended with

vars == <<mode, frames, top, rec, sp, topEnv, exc, jmp, res>>

-----------------------------------------------------------------------------
Depth == 1 .. MaxFrames

Kinds == {"none", "compile", "interpret", "report", "raise", "call", "ccall",
          "try", "foreach"}

Phases ==
  {"none", "parse", "run", "reporting", "reported", "print", "printed", "lookup",
   "created", "args", "body", "native", "try", "catch", "finally", "iterator",
   "iterate", "each"}

\* jump: BREAK_STATEMENT_RESULT or CONTINUE_STATEMENT_RESULT
ResultTypes == {"normal", "jump", "return"}

(* A frame: the C locals of one activation that the machine depends on.    *)
(*   spb, recb  stack_pointer_backup and env_backup: the stack pointer and *)
(*              the recovery environment it has started with               *)
(*   temps      operands on the stack of the expression it evaluates       *)
(*   args       arg_count, the arguments of a native function on the stack *)
(*   env        the CRB_LocalEnvironment its code runs in, 0 for NULL      *)
(*   own        values its caller pushed for it (the function called)      *)
(*   caught     history: the exception its setjmp returned with            *)
Frame ==
  [kind : Kinds, phase : Phases, spb : Nat, recb : Nat, temps : Nat, args : Nat,
   env : Nat, own : {0, 1}, catch : BOOLEAN, finally : BOOLEAN,
   result : ResultTypes \union {"uninit"}, caught : Values \union {NoValue}]

NoFrame ==
  [kind |-> "none", phase |-> "none", spb |-> 0, recb |-> 0, temps |-> 0,
   args |-> 0, env |-> 0, own |-> 0, catch |-> FALSE, finally |-> FALSE, result |-> "uninit",
   caught |-> NoValue]

F == frames[top]

TypeOK ==
  /\ mode \in {"ready", "compiling", "loaded", "interpreting", "done", "overflow"}
  /\ frames \in [Depth -> Frame]
  /\ top \in 0 .. MaxFrames
  /\ rec \in 0 .. MaxFrames
  /\ sp \in Nat
  /\ topEnv \in Nat
  /\ exc \in Values
  /\ jmp \in 0 .. MaxFrames
  /\ res \in ResultTypes \union {"run"}

Init ==
  /\ mode = "ready"
  /\ frames = [i \in Depth |-> NoFrame]
  /\ top = 0 /\ rec = 0 /\ sp = 0 /\ topEnv = 0
  /\ exc = NullValue /\ jmp = 0 /\ res = "run"

-----------------------------------------------------------------------------
(* Which code can run in the newest frame.                                 *)

Running == mode \in {"compiling", "interpreting"} /\ jmp = 0 /\ top > 0 /\ res = "run"

\* crb_execute_statement_list is between two statements of the newest frame.
ListPhases == {"run", "body", "try", "catch", "finally", "each"}
AtStatement == Running /\ F.phase \in ListPhases /\ F.temps = 0

\* eval_expression is evaluating an operand for the newest frame.
Evaluating == Running /\ F.phase \in ListPhases \union {"args"}

\* The code of the newest frame may report a run-time error here.
CanFail ==
  Running /\ F.phase \in ListPhases \union {"args", "native", "iterator", "iterate", "parse",
                         "lookup"}

\* The newest frame has a statement list that has ended with res.
ListEnded == mode = "interpreting" /\ jmp = 0 /\ top > 0 /\ res # "run"

Enter(f) ==
  /\ top < MaxFrames
  /\ top' = top + 1
  /\ frames' = [frames EXCEPT ![top + 1] = f]

\* The newest activation goes on as f and enters g.
EnterFrom(f, g) ==
  /\ top < MaxFrames
  /\ top' = top + 1
  /\ frames' = [frames EXCEPT ![top] = f, ![top + 1] = g]

Become(f) == frames' = [frames EXCEPT ![top] = f] /\ UNCHANGED top

\* The activations above k are gone, k itself continues as f.
CutTo(k, f) ==
  /\ top' = k
  /\ frames' = [i \in Depth |-> IF i < k THEN frames[i] ELSE IF i = k THEN f ELSE NoFrame]

\* The newest activation ends; the one below it goes on as f.
ReturnTo(f) ==
  /\ top' = top - 1
  /\ frames' = [frames EXCEPT ![top] = NoFrame, ![top - 1] = f]

Caller == frames[top - 1]

Drop == top' = top - 1 /\ frames' = [frames EXCEPT ![top] = NoFrame]

\* longjmp(inter->current_recovery_environment.environment, LONGJMP_ARG)
LongJump(target) == jmp' = target

\* env_backup, the handler outside that of f, and its reinstatement
StaleHandler(f) == rec
OuterHandler(f) == f.recb

KeepHandler(f) == UNCHANGED rec
RestoreHandler(f) == rec' = f.recb

\* dispose_local_environment
KeepEnvironment == UNCHANGED topEnv
DisposeEnvironment == topEnv' = topEnv - 1

-----------------------------------------------------------------------------
(* main(): do_compile, CRB_set_command_line_args, CRB_interpret.           *)

Compile ==
  /\ mode = "ready"
  /\ mode' = "compiling"
  /\ Enter([NoFrame EXCEPT !.kind = "compile", !.phase = "parse", !.spb = sp])
  /\ rec' = top + 1
  /\ UNCHANGED <<sp, topEnv, exc, jmp, res>>

CompileDone ==
  /\ mode = "compiling" /\ Running /\ F.phase = "parse"
  /\ mode' = "ready"
  /\ Drop
  /\ UNCHANGED <<rec, sp, topEnv, exc, jmp, res>>

\* ARGS is pushed while it is filled; an argument that is not a multibyte
\* string makes the function return with the array still on the stack.
SetCommandLineArgs ==
  /\ mode = "ready"
  /\ mode' = "loaded"
  /\ \/ sp' = sp
     \/ BadArguments /\ sp' = sp + 1
  /\ UNCHANGED <<frames, top, rec, topEnv, exc, jmp, res>>

Interpret ==
  /\ mode = "loaded"
  /\ mode' = "interpreting"
  /\ Enter([NoFrame EXCEPT !.kind = "interpret", !.phase = "run", !.spb = sp])
  /\ rec' = top + 1
  /\ UNCHANGED <<sp, topEnv, exc, jmp, res>>

InterpretDone ==
  /\ ListEnded /\ F.kind = "interpret" /\ res = "normal"
  /\ mode' = "done"
  /\ Drop
  /\ res' = "run"
  /\ UNCHANGED <<rec, sp, topEnv, exc, jmp>>

\* show_error_stack_trace returned: both callers empty the stack.
SessionFailed ==
  /\ Running /\ F.phase = "reported" /\ F.kind \in {"compile", "interpret"}
  /\ mode' = (IF mode = "compiling" THEN "ready" ELSE "done")
  /\ Drop
  /\ sp' = 0
  /\ exc' = NullValue
  /\ UNCHANGED <<rec, topEnv, jmp, res>>

-----------------------------------------------------------------------------
(* Expressions: operands come and go on the value stack.                   *)

PushOperand ==
  /\ Evaluating /\ F.temps < MaxTemps
  /\ sp' = sp + 1
  /\ Become([F EXCEPT !.temps = @ + 1])
  /\ UNCHANGED <<mode, rec, topEnv, exc, jmp, res>>

PopOperand ==
  /\ Evaluating /\ F.temps > 0
  /\ sp' = sp - 1
  /\ Become([F EXCEPT !.temps = @ - 1])
  /\ UNCHANGED <<mode, rec, topEnv, exc, jmp, res>>

\* alloc_local_environment and the setjmp of a call, once its caller (now
\* `caller`) has pushed `own` values for it; C code then pushes the arguments
\* of a native function.
EnterCall(caller, kind, phase, own, args) ==
  /\ EnterFrom(caller, [NoFrame EXCEPT !.kind = kind, !.phase = phase, !.own = own,
                                       !.args = args, !.spb = sp + own, !.recb = rec,
                                       !.env = topEnv + 1])
  /\ topEnv' = topEnv + 1
  /\ rec' = top + 1
  /\ sp' = sp + own + args

\* eval_function_call_expression: the function is the last operand pushed, and
\* its result will take its place.
CallExpression ==
  /\ Evaluating /\ F.temps < MaxTemps
  /\ EnterCall([F EXCEPT !.temps = @ + 1], "call", "args", 1, 0)
  /\ UNCHANGED <<mode, exc, jmp, res>>

\* The arguments are evaluated: call_crowbar_function has popped them one by
\* one into the new environment, call_native_function leaves them on the stack.
EnterBody ==
  /\ Running /\ F.phase = "args"
  /\ \/ F.temps = 0 /\ Become([F EXCEPT !.phase = "body"])
     \/ Become([F EXCEPT !.phase = "native", !.args = F.temps, !.temps = 0])
  /\ UNCHANGED <<mode, rec, sp, topEnv, exc, jmp, res>>

\* CRB_call_function, from C code (while compiling no class and no crowbar
\* function has been executed yet, only native methods can be called): directly
\* (throw_runtime_exception, show_error_stack_trace, CRB_call_function_by_name) or
\* from CRB_call_method, which pushes the method first.
CallFromC ==
  /\ Running /\ F.phase \in {"native", "iterator", "iterate", "lookup", "print"}
  /\ mode = "compiling" => F.phase = "print"
  /\ F.phase = "print" => exc \in Printable
  /\ \E own, args \in {0, 1}, phase \in {"body", "native"} :
       /\ own = 1 => F.phase \in {"native", "iterator", "iterate"}
       /\ phase = "body" => args = 0 /\ mode = "interpreting"
       /\ EnterCall(F, "ccall", phase, own, args)
  /\ UNCHANGED <<mode, exc, jmp, res>>

\* What the C code that made the call goes on to do.
Resume(f) ==
  CASE f.phase = "lookup" -> [f EXCEPT !.phase = "created"]
    [] f.phase = "print"  -> [f EXCEPT !.phase = "printed"]
    [] OTHER              -> f

\* The function returns: its native arguments go, the recovery environment and
\* the environment chain are restored, and the result takes the function's place.
ReturnFromCall ==
  /\ \/ ListEnded /\ F.phase = "body"
     \/ Running /\ F.phase = "native"
  /\ F.kind \in {"call", "ccall"}
  /\ RestoreHandler(F)
  /\ DisposeEnvironment
  /\ sp' = (sp - F.args - F.own) + (IF F.kind = "call" THEN 1 ELSE 0)
  /\ ReturnTo(Resume(Caller))
  /\ res' = "run"
  /\ UNCHANGED <<mode, exc, jmp>>

-----------------------------------------------------------------------------
(* Statements.                                                             *)

\* A statement list ends: normally, or with the result of its last statement.
EndList ==
  /\ AtStatement
  /\ res' \in ResultTypes
  /\ UNCHANGED <<mode, frames, top, rec, sp, topEnv, exc, jmp>>

\* A statement that is itself a list gives its result to the list it is in.
Deliver(r) == res' = (IF r = "normal" THEN "run" ELSE r)

\* break, continue or return outside any loop or function: crb_runtime_error in CRB_interpret.
\* The class it names does not exist, so no create method is called.
ReachedTopLevel ==
  /\ ListEnded /\ F.kind = "interpret" /\ res # "normal"
  /\ exc' = Raised
  /\ LongJump(rec)
  /\ res' = "run"
  /\ UNCHANGED <<mode, frames, top, rec, sp, topEnv>>

\* execute_foreach_statement pushes the collection and then its iterator,
\* calling methods of both between the iterations.
Foreach ==
  /\ AtStatement
  /\ EnterFrom(F, [NoFrame EXCEPT !.kind = "foreach", !.phase = "iterator", !.env = F.env,
                                  !.spb = sp, !.result = "normal"])
  /\ sp' = sp + 1
  /\ UNCHANGED <<mode, rec, topEnv, exc, jmp, res>>

ForeachIterator ==
  /\ Running /\ F.phase = "iterator"
  /\ sp' = sp + 1
  /\ Become([F EXCEPT !.phase = "iterate"])
  /\ UNCHANGED <<mode, rec, topEnv, exc, jmp, res>>

ForeachBody ==
  /\ Running /\ F.phase = "iterate"
  /\ Become([F EXCEPT !.phase = "each"])
  /\ UNCHANGED <<mode, rec, sp, topEnv, exc, jmp, res>>

\* The loop goes on, after a continue too, even one with the label of an outer
\* loop: that stays the result of the loop unless another iteration follows.
ForeachNext ==
  /\ ListEnded /\ F.phase = "each" /\ res # "return"
  /\ \E r \in {"normal", res} : Become([F EXCEPT !.phase = "iterate", !.result = r])
  /\ res' = "run"
  /\ UNCHANGED <<mode, rec, sp, topEnv, exc, jmp>>

\* CRB_shrink_stack(inter, stack_count): the collection and the iterator go.
ShrinkForeach == sp' = sp - 2

\* The loop is left: the iterator is done, or its body ended with return or
\* break; a break with the label of an outer loop stays a break.
ForeachDone ==
  /\ \/ Running /\ F.phase = "iterate" /\ Deliver(F.result)
     \/ ListEnded /\ F.phase = "each" /\ res # "normal" /\ Deliver(res)
     \/ ListEnded /\ F.phase = "each" /\ res = "jump" /\ Deliver("normal")
  /\ ShrinkForeach
  /\ ReturnTo(Caller)
  /\ UNCHANGED <<mode, rec, topEnv, exc, jmp>>

\* current_exception is still to be used: by a finally block that an exception
\* has entered, or by the error report.
ExceptionPending ==
  \E i \in 1 .. top :
    \/ frames[i].phase = "finally" /\ ~frames[i].catch /\ frames[i].caught # NoValue
    \/ frames[i].phase = "print"

\* try, with a catch block, a finally block or both
Try ==
  /\ AtStatement
  /\ TriesWhilePending \/ ~ExceptionPending
  /\ \E c, f \in BOOLEAN :
       /\ c \/ f
       /\ EnterFrom(F, [NoFrame EXCEPT !.kind = "try", !.phase = "try", !.env = F.env,
                                !.spb = sp, !.recb = rec,
                                !.catch = c, !.finally = f])
  /\ rec' = top + 1
  /\ UNCHANGED <<mode, sp, topEnv, exc, jmp, res>>

\* The end of execute_try_statement, with the result r: a pending exception is
\* thrown again if there is no catch block. The r of a try block that was left
\* by longjmp was never assigned: whatever its memory holds is returned.
LeaveTry(r, s) ==
  /\ sp' = s
  /\ IF ~F.catch /\ exc # NullValue
     THEN LongJump(OuterHandler(F)) /\ res' = "run"
     ELSE /\ UNCHANGED jmp
          /\ \E g \in (IF r = "uninit" THEN ResultTypes ELSE {r}) : Deliver(g)
  /\ ReturnTo(Caller)

\* The stack pointer after the try or catch block: the catch block kept the
\* exception on the stack.
AlwaysShrunk == sp - 1
ShrunkAfterCatch == IF F.phase = "catch" THEN sp - 1 ELSE sp

\* Its try block, or its catch block, has ended with res.
TryDone ==
  /\ ListEnded /\ F.phase \in {"try", "catch"}
  /\ RestoreHandler(F)
  /\ LET s == ShrunkAfterCatch IN
       IF F.finally
       THEN /\ Become([F EXCEPT !.phase = "finally", !.result = res])
            /\ sp' = s
            /\ res' = "run"
            /\ UNCHANGED jmp
       ELSE LeaveTry(res, s)
  /\ UNCHANGED <<mode, topEnv, exc>>

\* The result of the finally block is ignored.
FinallyDone ==
  /\ ListEnded /\ F.phase = "finally"
  /\ LeaveTry(F.result, sp)
  /\ UNCHANGED <<mode, rec, topEnv, exc>>

-----------------------------------------------------------------------------
(* Throwing.                                                               *)

\* execute_throw_statement
Throw ==
  /\ AtStatement
  /\ exc' \in Thrown
  /\ LongJump(rec)
  /\ UNCHANGED <<mode, frames, top, rec, sp, topEnv, res>>

\* crb_runtime_error enters throw_runtime_exception, which pushes the message.
RuntimeError ==
  /\ \/ CanFail
     \/ Running /\ F.phase = "print" /\ exc \notin Printable
  /\ EnterFrom(F, [NoFrame EXCEPT !.kind = "raise", !.phase = "lookup", !.env = F.env, !.spb = sp])
  /\ sp' = sp + 1
  /\ UNCHANGED <<mode, rec, topEnv, exc, jmp, res>>

\* The exception object is there, made by the create method of its class or,
\* without such a class, by CRB_create_exception: it is thrown.
RaiseException ==
  /\ Running /\ F.kind = "raise"
  /\ exc' \in (IF F.phase = "created" THEN Created ELSE {Raised})
  /\ sp' = sp - 1
  /\ LongJump(rec)
  /\ UNCHANGED <<mode, frames, top, rec, topEnv, res>>

\* longjmp lands in a function call: it disposes its environment and jumps on.
\* current_recovery_environment is left as it is.
LandInCall ==
  /\ jmp > 0 /\ frames[jmp].kind \in {"call", "ccall"}
  /\ DisposeEnvironment
  /\ sp' = frames[jmp].spb
  /\ CutTo(jmp - 1, frames[jmp - 1])
  /\ LongJump(OuterHandler(frames[jmp]))
  /\ UNCHANGED <<mode, rec, exc, res>>

\* current_exception after longjmp has landed in the try statement f: a catch
\* block takes it over, a finally block leaves it pending.
AlwaysCleared(f) == exc' = NullValue
NeverCleared(f) == UNCHANGED exc
ClearedIfCaught(f) == exc' = (IF f.catch THEN NullValue ELSE exc)

\* The stack is reset to where the try statement began; a catch block keeps the
\* exception on it.
CatchStackNotReset(f) == sp' = (IF f.catch THEN sp + 1 ELSE sp)
CatchStack(f) == sp' = (IF f.catch THEN f.spb + 1 ELSE f.spb)

\* longjmp lands in a try statement.
LandInTry ==
  /\ jmp > 0 /\ frames[jmp].kind = "try"
  /\ LET f == [frames[jmp] EXCEPT !.caught = exc] IN
       /\ CutTo(jmp, [f EXCEPT !.phase = IF f.catch THEN "catch" ELSE "finally", !.temps = 0])
       /\ CatchStack(f)
       /\ ClearedIfCaught(f)
       /\ RestoreHandler(f)
  /\ jmp' = 0
  /\ UNCHANGED <<mode, topEnv, res>>

ReportFrame == [NoFrame EXCEPT !.kind = "report", !.phase = "print", !.spb = sp]

\* longjmp lands in do_compile or CRB_interpret, or in a show_error_stack_trace
\* whose own call has thrown: the exception is reported, with a new setjmp.
LandInReport ==
  /\ jmp > 0 /\ jmp < MaxFrames
  /\ frames[jmp].kind \in {"compile", "interpret", "report"}
  /\ top' = jmp + 1
  /\ frames' = [i \in Depth |->
                  IF i < jmp THEN frames[i]
                  ELSE IF i = jmp THEN [frames[i] EXCEPT !.phase = "reporting"]
                  ELSE IF i = jmp + 1 THEN ReportFrame ELSE NoFrame]
  /\ rec' = jmp + 1
  /\ jmp' = 0
  /\ UNCHANGED <<mode, sp, topEnv, exc, res>>

\* show_error_stack_trace returns to its caller: the session, or itself.
ReportDone ==
  /\ Running /\ F.phase \in {"printed", "reported"} /\ F.kind = "report"
  /\ ReturnTo([Caller EXCEPT !.phase = "reported"])
  /\ UNCHANGED <<mode, rec, sp, topEnv, exc, jmp, res>>

\* Reporting recurses as long as print_stack_trace throws: at the bound the C
\* stack is exhausted.
StackOverflow ==
  /\ \/ jmp = MaxFrames /\ frames[jmp].kind = "report"
     \/ Running /\ F.phase = "print" /\ top = MaxFrames
  /\ mode \in {"compiling", "interpreting"}
  /\ mode' = "overflow"
  /\ UNCHANGED <<frames, top, rec, sp, topEnv, exc, jmp, res>>

Exit == mode \in {"done", "overflow"} /\ UNCHANGED vars

-----------------------------------------------------------------------------
Land == LandInCall \/ LandInTry \/ LandInReport

Session == Compile \/ CompileDone \/ SetCommandLineArgs \/ Interpret \/ InterpretDone
             \/ SessionFailed \/ ReportDone \/ StackOverflow

Expression == PushOperand \/ PopOperand \/ CallExpression \/ EnterBody
                \/ CallFromC \/ ReturnFromCall

Statement == EndList \/ ReachedTopLevel \/ Foreach \/ ForeachIterator \/ ForeachBody
               \/ ForeachNext \/ ForeachDone \/ Try \/ TryDone \/ FinallyDone

Raise == Throw \/ RuntimeError \/ RaiseException

Next == Session \/ Expression \/ Statement \/ Raise \/ Land \/ Exit

Spec == Init /\ [][Next]_vars

\* The interpreter is one thread of C code: once a longjmp has been taken, the
\* handlers it lands in run.
FairSpec == Spec /\ WF_vars(Land)

-----------------------------------------------------------------------------
(* Properties.                                                             *)

\* The setjmp of this activation is the one a throw under it must find: its
\* function has not returned, and its handler has not begun to run.
Armed(f) ==
  \/ f.kind \in {"call", "ccall"}
  \/ f.kind = "report" /\ f.phase \in {"print", "printed"}
  \/ f.phase \in {"parse", "run", "try"}

InnermostIn(fr, k, n) ==
  k \in 1 .. n /\ Armed(fr[k]) /\ \A i \in k + 1 .. n : ~Armed(fr[i])

Innermost(k, n) == InnermostIn(frames, k, n)

\* Whenever code that can throw runs, current_recovery_environment holds the
\* jmp_buf of the innermost live handler; a longjmp on its way always goes to the
\* innermost handler of the frames left: it never lands in a function that has
\* returned and never passes over an environment or a finally block.
\* (execute.c try, eval.c calls, interface.c sessions.)
RecoveryIsInnermost ==
  /\ jmp = 0 /\ top > 0 /\ F.phase # "reported" => Innermost(rec, top)
  /\ jmp # 0 => Innermost(jmp, top)

\* The environment that dispose_local_environment frees is always the one its
\* own call allocated: the head of inter->top_environment is that of the code
\* that runs, and when longjmp lands it is already that of the handler.
OwnEnvironment ==
  /\ top > 0 => topEnv = F.env
  /\ jmp # 0 => topEnv = frames[jmp].env
  /\ top = 0 => topEnv = 0

\* What an activation keeps on the value stack above its own start.
Held(f) ==
  f.temps + f.args +
    (CASE f.phase \in {"catch", "iterator", "lookup", "created"} -> 1
       [] f.phase \in {"iterate", "each"} -> 2
       [] OTHER -> 0)

\* Where activation g starts, on top of what f, the one it was entered from, holds.
StartsAbove(f, g) ==
  g.spb = f.spb + Held(f) + (IF g.kind = "ccall" THEN g.own ELSE 0)

\* The value stack is exactly what its live activations have put there: whatever
\* was thrown, caught or returned in between, each one finds its own operands
\* on top when it continues.
StackIsExact ==
  /\ jmp = 0 /\ top > 0 /\ F.phase # "reported" => sp = F.spb + Held(F)
  /\ \A i \in 2 .. top :
       frames[i - 1].phase # "reporting" => StartsAbove(frames[i - 1], frames[i])

\* DBG_assert(interpreter->stack.stack_pointer == 0, ...) of CRB_interpret.
InterpretStackAssertion == mode = "done" => sp = 0

\* What a session leaves behind keeps no object alive: no value on the stack, no local
\* environment and no exception is left, and CRB_dispose_interpreter can assert an
\* empty heap (interface.c:221).
RootsReleased == InterpretStackAssertion /\ (mode = "done" => topEnv = 0 /\ exc = NullValue)

\* The newest frame is a try statement that ends its finally block in this step.
LeavesFinally == ListEnded /\ F.phase = "finally" /\ top' = top - 1

\* An exception that no catch block of a try statement has handled is thrown
\* again, itself, when the finally block has ended (test/test.crb:578-586).
PendingIsRethrown ==
  [][LeavesFinally /\ ~F.catch /\ F.caught # NoValue => jmp' # 0 /\ exc' = F.caught]_vars

\* A try statement that was not left by an exception throws none at its end.
NoSpuriousThrow == [][LeavesFinally /\ F.caught = NoValue => jmp' = 0]_vars

\* A finally block throws what was pending when it began, and only that (execute.c:414-425).
FinallyRethrows == PendingIsRethrown /\ NoSpuriousThrow

\* A thrown exception reaches a handler: a try statement or the error report.
UnwindingEnds == (jmp # 0) ~> (jmp = 0 \/ mode = "overflow")

=============================================================================
