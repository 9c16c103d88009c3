------------------------------ MODULE Iteration ------------------------------
(***************************************************************************)
(* foreach over an array (execute_foreach_statement) with the iterator of  *)
(* the built-in script, a few closures that share the variable index. The  *)
(* body of the loop may change the array it runs over: the iterator only   *)
(* knows a position.                                                       *)
(***************************************************************************)
EXTENDS Arrays, FiniteSets

CONSTANTS MaxChanges,  \* bound: changes of the array the body of one loop makes
          MaxLoopSize  \* bound: elements of an array at the start of a loop

ASSUME IterationAssumption == MaxChanges \in Nat /\ MaxLoopSize \in Nat

VARIABLES loop,    \* the call foreach has reached: of is_done, current_item or next, or the body
          index,   \* the variable the closures of the iterator share
          item,    \* the variable of the foreach statement
          place,   \* history: where the elements present at the start are now, or Gone
          visits,  \* history: how often the body has run for each of them
          removals, insertions, \* history: those at or before the current element
          changes  \* changes by the body, up to the bound

loopVars == <<loop, index, item, place, visits, removals, insertions, changes>>
iterationVars == <<vars, loopVars>>

Gone == -1

IterationTypeOK ==
  /\ TypeOK
  /\ loop \in {"none", "is_done", "current_item", "body", "next"}
  /\ index \in Nat
  /\ item \in Values
  /\ place \in Seq(Int) /\ visits \in Seq(Nat) /\ Len(place) = Len(visits)
  /\ removals \in 0 .. MaxChanges /\ insertions \in 0 .. MaxChanges
  /\ changes \in 0 .. MaxChanges

NoLoop ==
  /\ loop = "none" /\ index = 0 /\ item = Null
  /\ place = <<>> /\ visits = <<>>
  /\ removals = 0 /\ insertions = 0 /\ changes = 0

IterationInit == Init /\ NoLoop

\* The loop has been left: its variables and its iterator are of no more use.
EndLoop ==
  /\ loop' = "none" /\ index' = 0 /\ item' = Null
  /\ place' = <<>> /\ visits' = <<>>
  /\ removals' = 0 /\ insertions' = 0 /\ changes' = 0

\* The iterator method of the array calls __create_array_iterator, which sets index to 0;
\* foreach sets its variable to null and never calls first.
StartLoop ==
  /\ loop = "none" /\ pc = "idle" /\ size \in 0 .. MaxLoopSize
  /\ loop' = "is_done" /\ index' = 0 /\ item' = Null
  /\ place' = [j \in 1 .. size |-> j - 1] /\ visits' = [j \in 1 .. size |-> 0]
  /\ removals' = 0 /\ insertions' = 0 /\ changes' = 0
  /\ UNCHANGED vars

StopsAtLast(n) == n >= size - 1
Beyond(n) == n >= size

IsDone ==
  /\ loop = "is_done"
  /\ IF Beyond(index)
     THEN EndLoop
     ELSE loop' = "current_item"
          /\ UNCHANGED <<index, item, place, visits, removals, insertions, changes>>
  /\ UNCHANGED vars

\* array[index] in current_item: get_array_element_lvalue checks the position like any other
\* and would raise an exception, which leaves the loop.
CurrentItem ==
  /\ loop = "current_item"
  /\ IF InBounds(index)
     THEN /\ item' = cells[index + 1]
          /\ visits' = [j \in DOMAIN visits |-> visits[j] + (IF place[j] = index THEN 1 ELSE 0)]
          /\ loop' = "body"
          /\ UNCHANGED <<index, place, removals, insertions, changes>>
     ELSE EndLoop
  /\ UNCHANGED vars

\* Where the element at position q is after the method call that begins in this step.
Moved(q) ==
  CASE pc' = "insert" /\ q >= pos' -> q + 1
    [] pc' = "remove" /\ q = pos' -> Gone
    [] pc' = "remove" /\ q > pos' -> q - 1
    [] pc' = "idle" /\ q >= size' -> Gone
    [] OTHER -> q

\* The body calls a method of the array or assigns to an element.
BodyChanges ==
  /\ loop = "body" /\ changes < MaxChanges
  /\ Set \/ ResizeMethod \/ Add \/ Insert \/ Remove
  /\ place' = [j \in DOMAIN place |-> IF place[j] = Gone THEN Gone ELSE Moved(place[j])]
  /\ removals' = removals + (IF pc' = "remove" /\ pos' <= index THEN 1 ELSE 0)
  /\ insertions' = insertions + (IF pc' = "insert" /\ pos' <= index THEN 1 ELSE 0)
  /\ changes' = changes + 1
  /\ UNCHANGED <<loop, index, item, visits>>

\* The loops of insert and remove, and changes outside of any foreach.
ArrayStep ==
  \/ loop = "none" /\ Next /\ UNCHANGED loopVars
  \/ /\ loop = "body"
     /\ MoveUpwards \/ StoreInserted \/ MoveDownwards \/ CutRemoved
     /\ UNCHANGED loopVars

\* The body ends normally or by continue.
BodyEnds ==
  /\ loop = "body" /\ pc = "idle"
  /\ loop' = "next"
  /\ UNCHANGED <<vars, index, item, place, visits, removals, insertions, changes>>

\* break, return, or an exception in the body
LeaveLoop ==
  /\ loop = "body" /\ pc = "idle"
  /\ EndLoop
  /\ UNCHANGED vars

KeepIndex == index' = index
Advance == index' = index + 1

NextItem ==
  /\ loop = "next"
  /\ Advance
  /\ loop' = "is_done"
  /\ UNCHANGED <<vars, item, place, visits, removals, insertions, changes>>

\* What foreach does between the bodies
IteratorStep == IsDone \/ CurrentItem \/ NextItem

IterationNext ==
  StartLoop \/ IteratorStep \/ BodyChanges \/ ArrayStep \/ BodyEnds \/ LeaveLoop

\* The interpreter does not stop between the calls that foreach makes; nothing is assumed
\* of the body.
IterationSpec ==
  IterationInit /\ [][IterationNext]_iterationVars /\ WF_iterationVars(IteratorStep)

-----------------------------------------------------------------------------
(* Properties.                                                             *)

Present == {j \in DOMAIN place : place[j] # Gone}

NeverVisited == {j \in Present : visits[j] = 0}

\* Visits of elements that are still there, beyond the first visit of each
Revisits == {visit \in Present \X (2 .. 1 + MaxChanges) : visits[visit[1]] >= visit[2]}

\* When foreach (builtin.crb:96) comes to its end, the body has run for each element that is
\* still there, and once: at most one was skipped for each element removed at or before the
\* current one, and at most one visited again for each element inserted there. No exception
\* comes from the iterator itself, however the body has shortened the array.
EachElementOnce ==
  [][/\ (loop = "is_done" /\ loop' = "none") =>
          /\ Cardinality(NeverVisited) <= removals
          /\ Cardinality(Revisits) <= insertions
     /\ loop = "current_item" => loop' \in {"current_item", "body"}]_iterationVars

\* A loop whose body always ends, and changes the array a bounded number of times, ends.
IterationEnds ==
  []<>(loop # "body") => ((loop # "none") ~> (loop = "none"))

=============================================================================
