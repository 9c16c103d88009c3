-------------------------------- MODULE Scope --------------------------------
(***************************************************************************)
(* Variables (eval.c, util.c, execute.c): how a name is found and assigned *)
(* to, in the scope chain of the running function, in the global variables *)
(* a global statement has let in, and among the functions.                 *)
(*                                                                         *)
(* A program is whatever sequence of expressions and statements its        *)
(* functions run. value is the value on top of the stack, the result of    *)
(* the last expression. Arguments are evaluated in the environment of the  *)
(* caller when the environment of the callee exists already.               *)
(***************************************************************************)
EXTENDS Integers, SequencesExt

CONSTANTS Names,        \* identifiers of the program
          NoName,       \* the name of a closure without one
          Data,         \* values that are not closures
          Null,         \* a CRB_NULL_VALUE
          Functions,    \* function definitions: [name, parameter, is_closure]
          MaxScopes,    \* bound: scope chain objects
          MaxDepth,     \* bound: environments
          GlobalFinals  \* whether programs name final variables in a global statement

ASSUME FunctionsAssumption ==
  \A f \in Functions :
    /\ f.name \in Names \union (IF f.is_closure THEN {NoName} ELSE {})
    /\ f.parameter \in Seq(Names)
    /\ f.is_closure \in BOOLEAN

ASSUME DataAssumption == Null \in Data /\ NoName \notin Names

VARIABLES variable,     \* inter->variable, the global variables
          frame, next,  \* of each scope: its variables, and the scope outside it (0: NULL)
          environment,  \* inter->top_environment and those below it
          value

vars == <<variable, frame, next, environment, value>>

Scopes == 1 .. Len(frame)
Closures(scopes) == [function : Functions, environment : {0} \union scopes]
Variable(values) == [name : Names, value : values, is_final : BOOLEAN]
Environments ==
  [variable : Scopes,
   global_variable : SUBSET Names,  \* names that global statements have let in
   function : Functions,
   unbound : Seq(Names),            \* parameters without a value yet
   caller : Nat]                    \* the environment the call is in (0: NULL)

TypeOK ==
  LET Values == Data \union Closures(Scopes) IN
  /\ variable \in Seq(Variable(Values))
  /\ frame \in Seq(Seq(Variable(Values)))
  /\ next \in Seq(Nat) /\ Len(next) = Len(frame) /\ \A s \in Scopes : next[s] \in 0 .. s - 1
  /\ environment \in Seq(Environments)
  /\ \A e \in 1 .. Len(environment) : environment[e].caller \in 0 .. e - 1
  /\ value \in Values

Init ==
  /\ variable = <<>> /\ frame = <<>> /\ next = <<>>
  /\ environment = <<>>
  /\ value = Null

-----------------------------------------------------------------------------
(* Finding a variable: <<scope, index>>, or <<0, index>> for a global one. *)

Nowhere == <<0, 0>>
IndexIn(variables, x) == SelectInSeq(variables, LAMBDA v : v.name = x)
At(l) == IF l[1] = 0 THEN variable[l[2]] ELSE frame[l[1]][l[2]]

\* The body of a function runs when the parameters have their values.
Running(e) == environment[e].unbound = <<>>

\* The environment expressions are evaluated in; 0 at top level.
Current ==
  LET top == Len(environment) IN
  IF top = 0 \/ Running(top) THEN top ELSE environment[top].caller

ScopeOf(e) == IF e = 0 THEN 0 ELSE environment[e].variable

\* CRB_search_local_variable
SearchLocal(s, x) ==
  LET found[t \in 0 .. Len(frame)] ==
        IF t = 0 THEN Nowhere
        ELSE LET j == IndexIn(frame[t], x) IN IF j # 0 THEN <<t, j>> ELSE found[next[t]]
  IN found[s]

\* search_global_variable_from_env
SearchAllGlobals(e, x) == <<0, IndexIn(variable, x)>>
SearchGlobal(e, x) ==
  IF e = 0 \/ x \in environment[e].global_variable THEN <<0, IndexIn(variable, x)>> ELSE Nowhere

Search(e, x) ==
  LET local == SearchLocal(ScopeOf(e), x) IN
  IF local[1] # 0 THEN local ELSE SearchGlobal(e, x)

\* crb_get_identifier_lvalue: the variable, and what is_final says of it.
OwnVariable(e, x) ==
  LET s == ScopeOf(e)
      j == IF s = 0 THEN 0 ELSE IndexIn(frame[s], x) IN
  IF j # 0 THEN <<s, j>> ELSE SearchGlobal(e, x)
Lvalue(e, x) == Search(e, x)
GlobalIsFinal(e, l) == l[1] = 0 /\ e = 0 /\ At(l).is_final
CannotAssign(e, l) == IF l[1] = 0 THEN e = 0 /\ At(l).is_final ELSE At(l).is_final

FunctionsNamed(x) == {f \in Functions : f.name = x /\ ~f.is_closure}

-----------------------------------------------------------------------------
(* Expressions.                                                            *)

Literal ==
  /\ value' \in Data
  /\ UNCHANGED <<variable, frame, next, environment>>

\* eval_identifier_expression: a variable, or else a function. Otherwise there is an exception.
Identifier ==
  /\ \E x \in Names :
       LET l == Search(Current, x) IN
       \/ l[2] # 0 /\ value' = At(l).value
       \/ /\ l[2] = 0
          /\ \E f \in FunctionsNamed(x) : value' = [function |-> f, environment |-> 0]
  /\ UNCHANGED <<variable, frame, next, environment>>

\* eval_closure_expression
ClosureExpression ==
  /\ \E f \in Functions :
       f.is_closure /\ value' = [function |-> f, environment |-> ScopeOf(Current)]
  /\ UNCHANGED <<variable, frame, next, environment>>

\* A variable that is nowhere is created: in the own scope, or as a global one if no function
\* has its name.
FreeForGlobal(x) == FunctionsNamed(x) = {}

AddVariable(x, is_final) ==
  LET new == [name |-> x, value |-> value, is_final |-> is_final] IN
  IF Current = 0
    THEN /\ FreeForGlobal(x)
         /\ variable' = Append(variable, new) /\ UNCHANGED frame
    ELSE LET s == ScopeOf(Current) IN
         /\ frame' = [frame EXCEPT ![s] = Append(@, new)] /\ UNCHANGED variable

Store(l) ==
  IF l[1] = 0
    THEN variable' = [variable EXCEPT ![l[2]].value = value] /\ UNCHANGED frame
    ELSE frame' = [frame EXCEPT ![l[1]][l[2]].value = value] /\ UNCHANGED variable

\* eval_assign_expression, and assign_to_variable for the variable of a foreach statement or of
\* a catch. A variable that exists keeps its is_final.
Assign ==
  /\ \E x \in Names, is_final \in BOOLEAN :
       LET l == Lvalue(Current, x) IN
       \/ l[2] = 0 /\ AddVariable(x, is_final)
       \/ l[2] # 0 /\ ~CannotAssign(Current, l) /\ Store(l)
  /\ UNCHANGED <<next, environment, value>>

-----------------------------------------------------------------------------
(* Calls.                                                                  *)

\* eval_function_call_expression: a closure with a name can call itself by it.
FirstVariables(c) ==
  IF c.function.is_closure /\ c.function.name # NoName
    THEN <<[name |-> c.function.name, value |-> c, is_final |-> TRUE]>> ELSE <<>>

Call ==
  /\ value \notin Data
  /\ Len(frame) < MaxScopes /\ Len(environment) < MaxDepth
  /\ frame' = Append(frame, FirstVariables(value))
  /\ next' = Append(next, value.environment)
  /\ environment' =
       Append(environment,
         [variable |-> Len(frame) + 1, global_variable |-> {}, function |-> value.function,
          unbound |-> value.function.parameter, caller |-> Current])
  /\ UNCHANGED <<variable, value>>

\* call_crowbar_function: the value of an argument becomes a variable of the callee.
BindParameter ==
  LET top == Len(environment) IN
  /\ top # 0 /\ ~Running(top)
  /\ LET new == [name |-> Head(environment[top].unbound), value |-> value, is_final |-> FALSE] IN
     frame' = [frame EXCEPT ![environment[top].variable] = Append(@, new)]
  /\ environment' = [environment EXCEPT ![top].unbound = Tail(@)]
  /\ UNCHANGED <<variable, next, value>>

\* The environment the function leaves is the one on top.
WithoutFirst(e) == Tail(e)
WithoutTop(e) == Front(e)

Return ==
  /\ environment # <<>> /\ Running(Len(environment))
  /\ environment' = WithoutTop(environment)
  /\ value' \in {value, Null}
  /\ UNCHANGED <<variable, frame, next>>

\* An exception is caught in a function that runs, or at top level. Calls that it leaves, those
\* whose arguments are still evaluated included, dispose of their environments.
Catch ==
  /\ environment # <<>>
  /\ \E e \in {0} \union {k \in 1 .. Len(environment) - 1 : Running(k)} :
       environment' = SubSeq(environment, 1, e)
  /\ value' = Null
  /\ UNCHANGED <<variable, frame, next>>

\* execute_global_statement, in a function
GlobalStatement ==
  /\ Current # 0 /\ Current = Len(environment)
  /\ \E x \in Names :
       LET l == <<0, IndexIn(variable, x)>> IN
       /\ l[2] # 0 /\ (GlobalFinals \/ ~At(l).is_final)
       /\ environment' =
            [environment EXCEPT ![Current].global_variable = @ \union {x}]
  /\ UNCHANGED <<variable, frame, next, value>>

Next ==
  \/ Literal \/ Identifier \/ ClosureExpression \/ Assign
  \/ Call \/ BindParameter \/ Return \/ Catch
  \/ GlobalStatement

Spec == Init /\ [][Next]_vars

-----------------------------------------------------------------------------
(* Properties.                                                             *)

Locations ==
  {<<0, j>> : j \in 1 .. Len(variable)}
    \union UNION {{<<s, j>> : j \in 1 .. Len(frame[s])} : s \in Scopes}

\* A final variable keeps its value, whichever closures, calls and exceptions reach it.
FinalIsForever == [][\A l \in Locations : At(l).is_final => At(l)' = At(l)]_<<variable, frame>>

\* While a function runs, a name that means a variable goes on to mean the same variable:
\* no call, and no closure over the same scopes, puts another one in front of it.
GoesOn(e) ==
  /\ Running(e) /\ e <= Len(environment')
  /\ environment'[e].variable = environment[e].variable
NamesAreStable ==
  \A e \in 1 .. Len(environment) :
    GoesOn(e) =>
      \A x \in Names :
        LET found == Search(e, x) IN
        found[2] # 0 => Search(e, x)' = found

\* A closure with a name can always call itself by that name, whatever it was given as
\* arguments and whatever it has assigned.
OwnName ==
  \A e \in 1 .. Len(environment) :
    LET f == environment[e].function
        s == environment[e].variable IN
    f.is_closure /\ f.name # NoName =>
      At(Search(e, f.name)).value = [function |-> f, environment |-> next[s]]

\* The name of a function never comes to mean a global variable.
FunctionsKeepTheirNames == \A j \in 1 .. Len(variable) : FunctionsNamed(variable[j].name) = {}

\* Names keep their meaning (eval.c:140-175, 636-642, 1263-1270): those of variables while a
\* function runs, the own one of a closure, which it has from its call on, and those of functions.
NamesKeepTheirMeaning ==
  [][/\ NamesAreStable
     /\ Len(environment') > Len(environment) => OwnName'
     /\ variable' # variable => FunctionsKeepTheirNames']_<<variable, frame, environment>>

\* A function changes a global variable only after a global statement of its own, wherever it
\* was called from and whatever its caller may change.
GlobalsAreProtected ==
  [][\A j \in 1 .. Len(variable) :
       variable'[j] # variable[j] =>
         Current = 0 \/ variable[j].name \in environment[Current].global_variable]_variable
=============================================================================
