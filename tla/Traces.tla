-------------------------------- MODULE Traces --------------------------------
(***************************************************************************)
(* The stack trace of an exception (heap.c, error.c, builtin.crb): a line  *)
(* for each environment from that of the function that raises it to the    *)
(* top level, with the name of the function and where in it control was.   *)
(* An environment knows the line of its caller, not its own.               *)
(*                                                                         *)
(* env of the C functions is the environment the code under way runs in.   *)
(* While arguments are evaluated that is the caller's, though the callee's *)
(* is already top_environment.                                             *)
(***************************************************************************)
EXTENDS Integers, SequencesExt

CONSTANTS FunctionNames,  \* names of functions
          LineNumbers,    \* lines of the program
          MaxCalls        \* bound: calls in each other

ASSUME TracesAssumption == LineNumbers \subseteq Nat /\ MaxCalls \in Nat

VARIABLES environment,  \* the chain of environments, top_environment last
          raising,      \* where an exception is being made, or what has been thrown
          trace,        \* the stack_trace of the newest exception
          activations,  \* history: functions entered and not left, and the line each is at
          expected      \* history: what activations were when the newest exception was made

tracesVars == <<environment, raising, trace, activations, expected>>

Anonymous == "anonymous closure"
TopLevel == "top_level"
NewExceptionLine == 0  \* that of new_exception in builtin.crb

TraceLine(name, n) == [function |-> name, line |-> n]
Environment(name, n, begun) == [function |-> name, caller_line |-> n, begun |-> begun]

Depth == Len(environment)

\* The environment the code under way runs in; 0 is the top level's, NULL.
Begun == {k \in 1 .. Depth : environment[k].begun}
CurrentEnvironment == IF Begun = {} THEN 0 ELSE CHOOSE k \in Begun : \A j \in Begun : j <= k

\* as if an environment knew its own line
OwnLines(chain, k, n) ==
  [i \in 1 .. k + 1 |->
     TraceLine(IF i <= k THEN chain[k + 1 - i].function ELSE TopLevel,
               IF i <= k THEN chain[k + 1 - i].caller_line ELSE n)]
\* CRB_create_exception: the first line is that of the error, each other one the line from which
\* the function before was called.
StackTrace(chain, k, n) ==
  [i \in 1 .. k + 1 |->
     TraceLine(IF i <= k THEN chain[k + 1 - i].function ELSE TopLevel,
               IF i = 1 THEN n ELSE chain[k + 2 - i].caller_line)]

-----------------------------------------------------------------------------
(* Calls.                                                                  *)

TracesInit ==
  /\ environment = <<>> /\ raising = "no" /\ trace = <<>>
  /\ activations = <<TraceLine(TopLevel, 0)>> /\ expected = <<>>

Executing == raising = "no"

\* The code under way has come to line n.
Reaches(n) == [activations EXCEPT ![Len(activations)].line = n]

\* eval_function_call_expression makes the environment before the arguments are evaluated.
CallFunction ==
  /\ Executing /\ Depth < MaxCalls
  /\ \E name \in FunctionNames \union {Anonymous}, n \in LineNumbers :
       /\ environment' = Append(environment, Environment(name, n, FALSE))
       /\ activations' = Reaches(n)
  /\ UNCHANGED <<raising, trace, expected>>

\* The arguments are there, and the callee begins, a crowbar function or a native one.
BeginFunction ==
  /\ Executing /\ environment # <<>> /\ ~Last(environment).begun
  /\ environment' = [environment EXCEPT ![Depth].begun = TRUE]
  /\ activations' = Append(Reaches(Last(environment).caller_line),
                           TraceLine(Last(environment).function, 0))
  /\ UNCHANGED <<raising, trace, expected>>

FunctionReturns ==
  /\ Executing /\ environment # <<>> /\ Last(environment).begun
  /\ environment' = Front(environment) /\ activations' = Front(activations)
  /\ UNCHANGED <<raising, trace, expected>>

-----------------------------------------------------------------------------
(* Exceptions.                                                             *)

\* crb_runtime_error at line n, when the class of the error does not exist (yet)
RaiseWithoutClass ==
  /\ Executing
  /\ \E n \in LineNumbers :
       /\ trace' = StackTrace(environment, CurrentEnvironment, n)
       /\ activations' = Reaches(n) /\ expected' = Reaches(n)
  /\ raising' = "thrown"
  /\ UNCHANGED environment

\* The create method of a class is called: by crb_runtime_error, which throws what it returns, or
\* by the program. It is a closure without a name.
CallCreate ==
  /\ Executing
  /\ \E n \in LineNumbers :
       /\ environment' = Append(environment, Environment(Anonymous, n, TRUE))
       /\ activations' = Reaches(n) /\ expected' = Reaches(n)
  /\ raising' \in {"error", "created"}
  /\ UNCHANGED trace

\* e.stack_trace.remove(0)
WithoutCreate(lines) == Tail(lines)

\* new_exception begins with the environment of its caller, create, which takes itself off.
CreateReturns ==
  /\ raising \in {"error", "created"}
  /\ trace' = WithoutCreate(StackTrace(environment, Depth, NewExceptionLine))
  /\ environment' = Front(environment)
  /\ raising' = IF raising = "error" THEN "thrown" ELSE "no"
  /\ UNCHANGED <<activations, expected>>

\* new_exception called by the program
NewException ==
  /\ Executing /\ Depth < MaxCalls
  /\ \E n \in LineNumbers :
       /\ trace' = StackTrace(environment, Depth, n)
       /\ activations' = Reaches(n) /\ expected' = Reaches(n)
  /\ UNCHANGED <<environment, raising>>

\* throw of the newest exception, also once more after it has been caught
ThrowAgain ==
  /\ Executing /\ trace # <<>>
  /\ raising' = "thrown"
  /\ UNCHANGED <<environment, trace, activations, expected>>

\* A try statement, or the error report at the top level, is reached: what was called since is left.
CatchException ==
  /\ raising = "thrown" /\ raising' = "no"
  /\ \E k \in Begun \union {0} :
       /\ environment' = SubSeq(environment, 1, k)
       /\ activations' = SubSeq(activations, 1, 1 + Cardinality({j \in Begun : j <= k}))
  /\ UNCHANGED <<trace, expected>>

TracesNext ==
  \/ CallFunction \/ BeginFunction \/ FunctionReturns
  \/ RaiseWithoutClass \/ CallCreate \/ CreateReturns \/ NewException \/ ThrowAgain
  \/ CatchException

TracesSpec == TracesInit /\ [][TracesNext]_tracesVars

-----------------------------------------------------------------------------
(* Properties.                                                             *)

TracesTypeOK ==
  /\ Depth <= MaxCalls + 1
  /\ \A k \in 1 .. Depth :
       environment[k] \in [function : FunctionNames \union {Anonymous}, caller_line : LineNumbers,
                           begun : BOOLEAN]
  /\ raising \in {"no", "error", "created", "thrown"}
  /\ trace # <<>> => Last(trace).function = TopLevel

\* A stack trace names each function that was under way when its exception was made, or when its
\* create method was called, innermost first, with the line that had been reached in it, and nothing
\* else: neither create nor new_exception. While an environment waits for its arguments this is not
\* so: its function has a line of its own before it has begun (eval.c:1265).
TraceIsCallStack ==
  [][trace' # trace /\ Begun = 1 .. Depth => trace' = Reverse(expected')]_tracesVars

=============================================================================
