----------------------------- MODULE Statements -----------------------------
(***************************************************************************)
(* The statements of one function body, or of the top level (execute.c):   *)
(* how if, while, for, foreach and try hand on the StatementResult by      *)
(* which break, continue and return leave them.                            *)
(*                                                                         *)
(* The program is not fixed: between two statements any statement may      *)
(* follow, and a condition is true or false.                               *)
(***************************************************************************)
EXTENDS Naturals, FiniteSetsExt

CONSTANTS Labels,    \* labels of loops
          NoLabel,   \* NULL: a loop, a break or a continue without a label
          Values,    \* what return statements return
          NullValue, \* what a function returns without one
          MaxDepth,  \* bound: statements nested in each other
          MaxElsifs  \* bound: elsif branches of an if statement

ASSUME BoundsAssumption == MaxDepth \in Nat \ {0} /\ MaxElsifs \in Nat
ASSUME NamesAssumption ==
  /\ NoLabel \notin Labels /\ NullValue \notin Values
  /\ {"running", "error", "exception"} \intersect Values = {}

VARIABLES stack,   \* the C functions that execute statements, outermost first
          top,     \* how many of them are active
          at,      \* what the newest of them is doing
          result,  \* the StatementResult of the statement list that has ended
          pending, \* whether inter->current_exception holds an exception
          outcome, \* what the body has come to
          aim      \* history: the last jump statement, and where it should lead

vars == <<stack, top, at, result, pending, outcome, aim>>

-----------------------------------------------------------------------------
Depth == 1 .. MaxDepth
Loops == {"while", "for"}

\* StatementResult: a type, and the label or the return value in its union.
Result(type, u) == [type |-> type, u |-> u]
Normal == Result("normal", NoLabel)
Unassigned == Result("unassigned", NoLabel)

Jumps == [type : {"break", "continue"}, u : Labels \union {NoLabel}]
           \union [type : {"return"}, u : Values]
Results == Jumps \union {Normal, Unassigned}

Aims == [jump : Jumps \union {Normal}, to : Nat]
NoAim == [jump |-> Normal, to |-> 0]

(* One C function at work on a statement. A for statement stands for for    *)
(* and foreach, which do something between an iteration and the next.      *)
(*   phase     the part of the statement that is being executed            *)
(*   label     of a loop                                                   *)
(*   elsifs    of an if statement: elsif conditions not evaluated yet      *)
(*   executed  of an if statement: *executed, some elsif branch has run    *)
(*   other     whether there is an else block, or a finally block          *)
(*   catch     whether there is a catch block                              *)
(*   result    the C local of that name                                    *)
(*   branches  history: blocks of the if statement that have run           *)
(*   aim       history: where the jump leads that waits for a finally      *)
Frame ==
  [kind : {"none", "function", "program", "if", "try"} \union Loops,
   phase : {"none", "body", "then", "elsif", "else", "try", "catch", "finally",
            "condition", "post"},
   label : Labels \union {NoLabel}, elsifs : 0 .. MaxElsifs, executed : BOOLEAN,
   other : BOOLEAN, catch : BOOLEAN, result : Results, branches : Nat, aim : Aims]

NoFrame ==
  [kind |-> "none", phase |-> "none", label |-> NoLabel, elsifs |-> 0, executed |-> FALSE,
   other |-> FALSE, catch |-> FALSE, result |-> Normal, branches |-> 0, aim |-> NoAim]

F == stack[top]

\* at: "list" between two statements of the newest frame's block, "test" where
\* its C code is about to evaluate an expression, "ended" when the block has
\* ended with result, "thrown" on the way of a longjmp, "done" at the end.
TypeOK ==
  /\ stack \in [Depth -> Frame]
  /\ top \in Depth
  /\ at \in {"list", "test", "ended", "thrown", "done"}
  /\ result \in Results
  /\ pending \in BOOLEAN
  /\ outcome \in Values \union {NullValue, "running", "error", "exception"}
  /\ aim \in Aims

Init ==
  /\ \E kind \in {"function", "program"} :
       stack = [i \in Depth |-> IF i = 1 THEN [NoFrame EXCEPT !.kind = kind, !.phase = "body"]
                                ELSE NoFrame]
  /\ top = 1 /\ at = "list" /\ result = Normal /\ pending = FALSE
  /\ outcome = "running" /\ aim = NoAim

-----------------------------------------------------------------------------
Enter(f, where) ==
  /\ at = "list" /\ top < MaxDepth
  /\ stack' = [stack EXCEPT ![top + 1] = f]
  /\ top' = top + 1
  /\ at' = where
  /\ UNCHANGED <<result, pending, outcome, aim>>

\* The newest C function goes on as f. Only a continue that is the result of a
\* loop may be on its way still when the condition is tested.
GoOn(f, where) ==
  /\ stack' = [stack EXCEPT ![top] = f]
  /\ at' = where
  /\ result' = Normal
  /\ aim' = (IF where = "test" /\ f.result # Normal THEN aim ELSE NoAim)
  /\ UNCHANGED <<top, outcome>>

\* It returns r to the statement list it is in, which goes on after a normal
\* statement and ends after any other.
Leave(r, a) ==
  /\ stack' = [stack EXCEPT ![top] = NoFrame]
  /\ top' = top - 1
  /\ at' = (IF r = Normal THEN "list" ELSE "ended")
  /\ result' = r
  /\ aim' = (IF r = Normal THEN NoAim ELSE a)
  /\ UNCHANGED outcome

\* crb_execute_statement_list has come to the end of the list.
EndList ==
  /\ at = "list"
  /\ at' = "ended" /\ result' = Normal
  /\ UNCHANGED <<stack, top, pending, outcome, aim>>

-----------------------------------------------------------------------------
(* break, continue and return.                                             *)

\* The frame in which a jump stops at the latest: the innermost finally block
\* that is being executed, whose result execute_try_statement ignores, or the body.
Floor == Max({1} \union {i \in 1 .. top : stack[i].phase = "finally"})

\* Where the program text says it leads: for a loop, the innermost one or the
\* innermost one with its label.
Target(jump) ==
  Max({Floor} \union {i \in Floor + 1 .. top :
                        /\ jump.type # "return" /\ stack[i].kind \in Loops
                        /\ jump.u \in {NoLabel, stack[i].label}})

Jump ==
  /\ at = "list"
  /\ \E jump \in Jumps :
       /\ result' = jump
       /\ aim' = [jump |-> jump, to |-> Target(jump)]
  /\ at' = "ended"
  /\ UNCHANGED <<stack, top, pending, outcome>>

\* compare_labels: whether a loop takes a break or a continue for its own
UnlessLabelled(jump, label) ==
  IF jump.u = NoLabel \/ label = NoLabel \/ jump.u = label THEN Normal ELSE jump
CompareLabels(jump, label) ==
  IF jump.u = NoLabel \/ jump.u = label THEN Normal ELSE jump

-----------------------------------------------------------------------------
(* if, elsif, else                                                         *)

If ==
  \E n \in 0 .. MaxElsifs, else, held \in BOOLEAN :
    Enter([NoFrame EXCEPT !.kind = "if", !.elsifs = n, !.other = else,
                          !.phase = IF held THEN "then" ELSE "elsif",
                          !.branches = IF held THEN 1 ELSE 0],
          IF held THEN "list" ELSE "test")

\* execute_elsif: the condition of the next elsif. Executed(f, held) is *executed
\* after it; the loop goes on with the next elsif in either case.
Executed(f, held) == f.executed \/ held

ElsifCondition ==
  /\ at = "test" /\ F.phase = "elsif" /\ F.elsifs > 0
  /\ \E held \in BOOLEAN :
       GoOn([F EXCEPT !.elsifs = @ - 1, !.executed = Executed(F, held),
                      !.branches = IF held THEN @ + 1 ELSE @],
            IF held THEN "list" ELSE "test")
  /\ UNCHANGED pending

\* No elsif is left.
Else ==
  /\ at = "test" /\ F.phase = "elsif" /\ F.elsifs = 0
  /\ IF ~F.executed /\ F.other
     THEN GoOn([F EXCEPT !.phase = "else", !.branches = @ + 1], "list")
     ELSE Leave(Normal, aim)
  /\ UNCHANGED pending

BranchEnded ==
  /\ at = "ended" /\ F.kind = "if"
  /\ IF F.phase = "elsif" /\ result = Normal THEN GoOn(F, "test") ELSE Leave(result, aim)
  /\ UNCHANGED pending

-----------------------------------------------------------------------------
(* while, for and foreach                                                  *)

Loop ==
  \E kind \in Loops, label \in Labels \union {NoLabel} :
    Enter([NoFrame EXCEPT !.kind = kind, !.label = label, !.phase = "condition"], "test")

\* The condition, or is_done of the iterator. When it ends the loop, the result of
\* the last iteration is the result of the loop: a continue with another label.
LoopCondition ==
  /\ at = "test" /\ F.phase = "condition"
  /\ \/ GoOn([F EXCEPT !.phase = "body"], "list")
     \/ Leave(F.result, aim)
  /\ UNCHANGED pending

\* The post expression of for, next of the iterator of foreach
Post ==
  /\ at = "test" /\ F.phase = "post"
  /\ GoOn([F EXCEPT !.phase = "condition"], "test")
  /\ UNCHANGED pending

AfterBody(f) == IF f.kind = "for" THEN "post" ELSE "condition"

\* The body has ended: only return and break leave the loop.
BodyEnded ==
  /\ at = "ended" /\ F.kind \in Loops
  /\ CASE result.type = "return" -> Leave(result, aim)
       [] result.type = "break" -> Leave(CompareLabels(result, F.label), aim)
       [] OTHER ->
            GoOn([F EXCEPT !.phase = AfterBody(F),
                           !.result = IF result.type = "continue"
                                      THEN CompareLabels(result, F.label) ELSE Normal],
                 "test")
  /\ UNCHANGED pending

-----------------------------------------------------------------------------
(* try and throw                                                           *)

\* Not while a finally block runs that an exception has entered (that exception
\* would be forgotten: module Unwind, TriesWhilePending).
Try ==
  /\ ~pending
  /\ \E catch, finally \in BOOLEAN :
       /\ catch \/ finally
       /\ Enter([NoFrame EXCEPT !.kind = "try", !.phase = "try", !.catch = catch,
                                !.other = finally, !.result = Unassigned], "list")

\* The try or the catch block has ended with result.
TryEnded ==
  /\ at = "ended" /\ F.phase \in {"try", "catch"}
  /\ IF F.other
     THEN GoOn([F EXCEPT !.phase = "finally", !.result = result, !.aim = aim], "list")
     ELSE Leave(result, aim)
  /\ UNCHANGED pending

\* What execute_try_statement returns: the result of the finally block is ignored.
ResultOfFinally(f) == result
ResultOfTry(f) == f.result

\* The finally block has ended: a pending exception is thrown again.
FinallyEnded ==
  /\ at = "ended" /\ F.phase = "finally"
  /\ IF ~F.catch /\ pending
     THEN /\ stack' = [stack EXCEPT ![top] = NoFrame]
          /\ top' = top - 1
          /\ at' = "thrown"
          /\ UNCHANGED <<result, outcome, aim>>
     ELSE Leave(ResultOfTry(F), F.aim)
  /\ UNCHANGED pending

\* throw, or a run-time error in any expression: longjmp
Throw ==
  /\ at \in {"list", "test"}
  /\ at' = "thrown" /\ pending' = TRUE
  /\ UNCHANGED <<stack, top, result, outcome, aim>>

\* The try statements whose setjmp is in force: not those whose catch or finally
\* block runs.
WithCatch == {i \in 1 .. top : stack[i].phase = "try" /\ stack[i].catch}
Tries == {i \in 1 .. top : stack[i].phase = "try"}

\* The activations above the innermost try block are gone; the caller of the body
\* takes the exception when there is none.
Caught ==
  /\ at = "thrown"
  /\ LET k == Max(Tries) IN
       IF Tries = {}
       THEN /\ at' = "done" /\ outcome' = "exception"
            /\ UNCHANGED <<stack, top, pending>>
       ELSE /\ top' = k
            /\ stack' = [i \in Depth |->
                 IF i < k THEN stack[i]
                 ELSE IF i = k
                 THEN [stack[k] EXCEPT !.phase = IF stack[k].catch THEN "catch" ELSE "finally",
                                       !.result = Unassigned, !.aim = NoAim]
                 ELSE NoFrame]
            /\ at' = "list"
            /\ pending' = (pending /\ ~stack[k].catch)
            /\ UNCHANGED outcome
  /\ UNCHANGED <<result, aim>>

-----------------------------------------------------------------------------
\* What call_crowbar_function makes of the result: a union, which holds a label
\* after a break or continue.
OfTheUnion(r) == IF r = Normal THEN NullValue ELSE r.u
ReturnValue(r) == IF r.type = "return" THEN r.u ELSE NullValue

\* CRB_interpret reports a jump that has reached the top level.
BodyDone ==
  /\ at = "ended" /\ top = 1
  /\ at' = "done"
  /\ outcome' = (IF F.kind = "program" /\ result # Normal THEN "error"
                 ELSE ReturnValue(result))
  /\ UNCHANGED <<stack, top, result, pending, aim>>

Done == at = "done" /\ UNCHANGED vars

Next ==
  \/ EndList \/ Jump
  \/ If \/ ElsifCondition \/ Else \/ BranchEnded
  \/ Loop \/ LoopCondition \/ Post \/ BodyEnded
  \/ Try \/ TryEnded \/ FinallyEnded \/ Throw \/ Caught
  \/ BodyDone \/ Done

Spec == Init /\ [][Next]_vars

-----------------------------------------------------------------------------
(* Properties.                                                             *)

Jumping == at = "ended" /\ result # Normal

\* A statement list that ends early ends with the jump statement that ended it,
\* whatever finally blocks have run on the way with jumps of their own, and it is
\* not outside the loop, the finally block or the body which that jump leads to.
\* The value of a function is that of a return statement which leads out of it
\* (execute.c; test/test.crb:617-625 prints 1).
ResultIsTheJump ==
  /\ Jumping => result = aim.jump /\ aim.to \in 1 .. top
  /\ outcome \in Values => aim = [jump |-> Result("return", outcome), to |-> 1]

\* The step enters the finally block of the newest statement.
EntersFinally == F.phase # "finally" /\ stack'[top].phase = "finally"

\* Statement by statement a jump gets where the program text says: on its way break
\* and return run nothing but finally blocks, which keep them; a loop that is its
\* target ends for a break and tests its condition again for a continue. (A continue
\* with the label of an outer loop ends the iteration of every loop on its way, leaves
\* those whose condition is false then, and stays in the first whose condition holds:
\* execute.c:177, 224, 322.)
JumpLandsOnTarget ==
  [][Jumping =>
       IF top > aim.to
       THEN \/ top' = top - 1 /\ at' = "ended" /\ result' = result
            \/ EntersFinally /\ stack'[top].result = result
            \/ result.type = "continue" /\ F.kind \in Loops /\ at' = "test"
                  /\ stack'[top].result = result
       ELSE F.kind \in Loops =>
              IF result.type = "break" THEN top' = top - 1 /\ at' = "list"
              ELSE top' = top /\ at' = "test" /\ stack'[top].result = Normal]_vars

\* The else block of an if statement is the only one of its blocks that runs.
\* (Of the elsif blocks, every one whose condition holds runs: execute.c:78-91.)
ElseIsLastResort ==
  \A i \in 1 .. top : stack[i].phase = "else" => stack[i].branches = 1

\* No jump and no exception gets past a try block that has a finally block: the
\* catch or the finally block of that statement is entered. (A jump out of the
\* catch block enters the finally block too, an exception thrown there does not.)
FinallyIsReached ==
  \A i \in 1 .. top :
    stack[i].phase = "try" /\ stack[i].other
      => stack'[i].phase \in {"try", "catch", "finally"}

\* The blocks of if and try statements run when they must (execute.c:68-131, 383-425).
BlocksRunWhenTheyMust == [][FinallyIsReached /\ ElseIsLastResort']_vars
=============================================================================
