--------------------------- MODULE StatementsProofs ---------------------------
(***************************************************************************)
(* Proofs about Statements. The inductive invariant says, for the jump     *)
(* under way and for each one that waits for a finally block, that nothing *)
(* between where it is and where it leads takes it.                        *)
(***************************************************************************)
EXTENDS Statements, LeastNumber

\* The loop f takes a break or a continue for its own.
Takes(f, jump) ==
  jump.type # "return" /\ f.kind \in Loops /\ jump.u \in {NoLabel, f.label}

\* A jump with the aim a that has come to the frame h of st goes on to where a says.
LeadsTo(st, a, h) ==
  /\ a.jump \in Jumps /\ a.to \in 1 .. h
  /\ \A i \in a.to + 1 .. h : st[i].phase # "finally" /\ ~Takes(st[i], a.jump)
  /\ a.to = 1 \/ st[a.to].phase = "finally" \/ Takes(st[a.to], a.jump)

WellFormed(f) ==
  /\ f.kind \in {"function", "program"} => f.phase = "body"
  /\ f.kind = "if" => /\ f.phase \in {"then", "elsif", "else"} /\ f.result = Normal
                      /\ f.phase = "elsif" => (f.executed <=> f.branches > 0)
                      /\ f.phase = "else" => f.branches = 1
  /\ f.kind = "try" => f.phase \in {"try", "catch", "finally"}
  /\ f.kind \in Loops => f.phase \in {"condition", "body", "post"}

Nesting ==
  /\ stack[1].kind \in {"function", "program"}
  /\ \A i \in 2 .. top : stack[i].kind \in {"if", "try"} \union Loops
  /\ \A i \in 1 .. top : WellFormed(stack[i])

\* A frame keeps the jump that waits for its finally block.
Keeps(st, i) ==
  st[i].phase = "finally" /\ st[i].result \in Jumps
    => st[i].aim.jump = st[i].result /\ LeadsTo(st, st[i].aim, i - 1)

\* A finally block that an exception has entered has no try statement inside.
Owes(st, i, h) ==
  st[i].phase = "finally" /\ st[i].result = Unassigned
    => ~st[i].catch /\ \A j \in i + 1 .. h : st[j].kind # "try"

Waiting ==
  \A i \in 1 .. top :
    /\ Keeps(stack, i) /\ Owes(stack, i, top)
    /\ stack[i].phase = "finally" /\ stack[i].result = Unassigned => pending

UnderWay ==
  /\ Jumping => result = aim.jump /\ LeadsTo(stack, aim, top)
  /\ at = "test" /\ F.result # Normal
       => /\ F.result = aim.jump /\ aim.jump.type = "continue"
          /\ LeadsTo(stack, aim, top - 1)
  /\ at = "thrown" => pending

Outcome ==
  /\ at # "done" => outcome = "running"
  /\ outcome \in Values => aim = [jump |-> Result("return", outcome), to |-> 1]

Inv == TypeOK /\ Nesting /\ Waiting /\ UnderWay /\ Outcome

-----------------------------------------------------------------------------
(* Max, and what the frames below one say of it.                           *)

LEMMA MaxIsGreatest ==
  ASSUME NEW n \in Nat, NEW S \in SUBSET (1 .. n), S # {}
  PROVE  Max(S) \in S /\ \A x \in S : x <= Max(S)
<1> DEFINE T == {n - x : x \in S}
<1>1. T \in SUBSET Nat /\ T # {}
  <2>1. PICK x \in S : TRUE
    OBVIOUS
  <2>2. \A y \in S : y \in 1 .. n
    OBVIOUS
  <2>. QED BY <2>1, <2>2
<1>2. PICK t \in T : \A y \in T : t <= y
  BY <1>1, Least
<1>3. PICK m \in S : t = n - m
  BY <1>2
<1>4. ASSUME NEW x \in S PROVE m >= x
  <2>1. t <= n - x
    BY <1>2
  <2>. QED BY <2>1, <1>3
<1>5. \E x \in S : \A y \in S : x >= y
  BY <1>4
<1>6. Max(S) \in S /\ \A y \in S : Max(S) >= y
  BY <1>5 DEF Max
<1>. QED BY <1>6

LEMMA LeadsToSame ==
  ASSUME NEW h \in Nat, NEW st, NEW tt, NEW a,
         \A i \in 1 .. h : tt[i] = st[i], LeadsTo(st, a, h)
  PROVE  LeadsTo(tt, a, h)
<1>1. a.to \in 1 .. h /\ tt[a.to] = st[a.to]
  BY DEF LeadsTo
<1>2. \A i \in a.to + 1 .. h : tt[i] = st[i]
  BY <1>1
<1>. QED BY <1>1, <1>2 DEF LeadsTo

\* A jump gets past a frame that neither takes it nor runs a finally block.
LEMMA LeadsToBelow ==
  ASSUME NEW h \in Nat, h > 1, NEW st, NEW a, LeadsTo(st, a, h),
         st[h].phase # "finally", ~Takes(st[h], a.jump)
  PROVE  LeadsTo(st, a, h - 1)
<1>1. a.to \in 1 .. h /\ a.to # h
  BY DEF LeadsTo
<1>2. a.to \in 1 .. h - 1
  BY <1>1
<1>3. \A i \in a.to + 1 .. h - 1 : i \in a.to + 1 .. h
  BY <1>1
<1>. QED BY <1>2, <1>3 DEF LeadsTo

LEMMA KeepsSame ==
  ASSUME NEW i \in Nat \ {0}, NEW st, NEW tt,
         \A j \in 1 .. i : tt[j] = st[j], Keeps(st, i)
  PROVE  Keeps(tt, i)
<1>1. tt[i] = st[i] /\ i - 1 \in Nat /\ \A j \in 1 .. i - 1 : tt[j] = st[j]
  OBVIOUS
<1>. QED BY <1>1, LeadsToSame DEF Keeps

LEMMA OwesSame ==
  ASSUME NEW h \in Nat, NEW k \in 0 .. h, NEW i \in 1 .. k, NEW st, NEW tt,
         \A j \in 1 .. k : tt[j] = st[j], Owes(st, i, h)
  PROVE  Owes(tt, i, k)
<1>1. \A j \in i + 1 .. k : j \in i + 1 .. h /\ j \in 1 .. k
  OBVIOUS
<1>. QED BY <1>1 DEF Owes

\* What is waiting below frame k stays so when frame k and those above change.
LEMMA WaitingBelow ==
  ASSUME TypeOK, Waiting, NEW k \in 1 .. top, NEW i \in 1 .. k - 1, NEW tt,
         \A j \in 1 .. k - 1 : tt[j] = stack[j]
  PROVE  /\ Keeps(tt, i) /\ Owes(tt, i, k - 1)
         /\ tt[i].phase = "finally" /\ tt[i].result = Unassigned => pending
<1>1. top \in Nat /\ i \in 1 .. top /\ i \in Nat \ {0} /\ k - 1 \in 0 .. top /\ tt[i] = stack[i]
  BY DEF TypeOK, Depth
<1>2. Keeps(stack, i) /\ Owes(stack, i, top)
      /\ (stack[i].phase = "finally" /\ stack[i].result = Unassigned => pending)
  BY <1>1 DEF Waiting
<1>3. \A j \in 1 .. i : tt[j] = stack[j]
  OBVIOUS
<1>. QED BY <1>1, <1>2, <1>3, KeepsSame, OwesSame

-----------------------------------------------------------------------------
(* The three ways to go on: the newest C function calls another, continues *)
(* with its own statement, or returns to the statement list it is in.      *)

LEMMA EnterKeeps ==
  ASSUME Inv, NEW f \in Frame, NEW where \in {"list", "test"}, Enter(f, where),
         f.kind \in {"if", "try"} \union Loops, WellFormed(f), f.phase # "finally",
         f.kind = "try" => ~pending,
         where = "test" => f.result = Normal
  PROVE  Inv'
<1>1. /\ TypeOK /\ Nesting /\ Waiting /\ Outcome
      /\ at = "list" /\ top \in Nat \ {0} /\ top + 1 \in Depth /\ top' = top + 1
      /\ stack' = [stack EXCEPT ![top + 1] = f] /\ at' = where
      /\ UNCHANGED <<result, pending, outcome, aim>>
  BY BoundsAssumption DEF Enter, Inv, TypeOK, Depth
<1>2. stack'[top + 1] = f /\ \A i \in 1 .. top : stack'[i] = stack[i]
  BY <1>1 DEF TypeOK, Depth
<1>3. TypeOK'
  BY <1>1 DEF TypeOK
<1>4. Nesting'
  <2>1. \A i \in 2 .. top' : i = top + 1 \/ i \in 2 .. top
    BY <1>1
  <2>2. \A i \in 1 .. top' : i = top + 1 \/ i \in 1 .. top
    BY <1>1
  <2>. QED BY <1>1, <1>2, <2>1, <2>2 DEF Nesting
<1>5. Waiting'
  <2> SUFFICES ASSUME NEW i \in 1 .. top'
               PROVE  /\ Keeps(stack', i) /\ Owes(stack', i, top')
                      /\ stack'[i].phase = "finally" /\ stack'[i].result = Unassigned => pending'
    BY DEF Waiting
  <2>1. CASE i = top + 1
    BY <2>1, <1>2 DEF Keeps, Owes
  <2>2. CASE i \in 1 .. top
    <3>1. Keeps(stack, i) /\ Owes(stack, i, top)
          /\ (stack[i].phase = "finally" /\ stack[i].result = Unassigned => pending)
      BY <2>2, <1>1 DEF Waiting
    <3>2. Keeps(stack', i)
      <4>1. i \in Nat \ {0} /\ \A j \in 1 .. i : stack'[j] = stack[j]
        BY <2>2, <1>1, <1>2
      <4>. QED BY <3>1, <4>1, KeepsSame
    <3>3. \A j \in i + 1 .. top' : j = top + 1 \/ (j \in i + 1 .. top /\ j \in 1 .. top)
      BY <2>2, <1>1
    <3>4. Owes(stack', i, top')
      BY <2>2, <3>1, <3>3, <1>2 DEF Owes
    <3>. QED BY <2>2, <3>1, <3>2, <3>4, <1>1, <1>2
  <2>. QED BY <2>1, <2>2, <1>1
<1>6. UnderWay' /\ Outcome'
  BY <1>1, <1>2 DEF UnderWay, Outcome, Jumping, F
<1>. QED BY <1>3, <1>4, <1>5, <1>6 DEF Inv

LEMMA GoOnKeeps ==
  ASSUME Inv, NEW f \in Frame, NEW where \in {"list", "test"}, GoOn(f, where),
         UNCHANGED pending, at # "done",
         f.kind = F.kind, WellFormed(f),
         f.phase = "finally" =>
           /\ f.result # Unassigned
           /\ f.result \in Jumps => f.aim.jump = f.result /\ LeadsTo(stack, f.aim, top - 1),
         where = "test" /\ f.result # Normal =>
           /\ f.result = aim.jump /\ aim.jump.type = "continue"
           /\ LeadsTo(stack, aim, top - 1)
  PROVE  Inv'
<1>1. /\ TypeOK /\ Nesting /\ Waiting /\ Outcome
      /\ top \in Nat \ {0} /\ top \in Depth /\ top' = top
      /\ stack' = [stack EXCEPT ![top] = f] /\ at' = where /\ result' = Normal
      /\ aim' = IF where = "test" /\ f.result # Normal THEN aim ELSE NoAim
      /\ UNCHANGED <<pending, outcome>>
  BY BoundsAssumption DEF GoOn, Inv, TypeOK, Depth
<1>2. /\ stack'[top] = f /\ \A i \in 1 .. top - 1 : stack'[i] = stack[i]
      /\ top - 1 \in Nat /\ top \in 1 .. top
  BY <1>1 DEF TypeOK, Depth
<1>3. TypeOK'
  BY <1>1 DEF TypeOK, Results, NoAim, Aims
<1>4. Nesting'
  <2>1. \A i \in 1 .. top : i = top \/ (i \in 1 .. top - 1)
    BY <1>1
  <2>. QED BY <1>1, <1>2, <2>1 DEF Nesting, F
<1>5. Waiting'
  <2> SUFFICES ASSUME NEW i \in 1 .. top'
               PROVE  /\ Keeps(stack', i) /\ Owes(stack', i, top')
                      /\ stack'[i].phase = "finally" /\ stack'[i].result = Unassigned => pending'
    BY DEF Waiting
  <2>1. CASE i = top
    <3>1. LeadsTo(stack, f.aim, top - 1) => LeadsTo(stack', f.aim, top - 1)
      BY <1>1, <1>2, LeadsToSame
    <3>. QED BY <2>1, <3>1, <1>2 DEF Keeps, Owes
  <2>2. CASE i \in 1 .. top - 1
    <3>1. Keeps(stack', i) /\ Owes(stack', i, top - 1)
          /\ (stack'[i].phase = "finally" /\ stack'[i].result = Unassigned => pending)
      BY <2>2, <1>1, <1>2, WaitingBelow
    <3>2. Owes(stack, i, top) /\ stack'[i] = stack[i] /\ top \in i + 1 .. top
      BY <2>2, <1>1, <1>2 DEF Waiting
    <3>3. Owes(stack', i, top)
      <4>1. \A j \in i + 1 .. top : j = top \/ j \in i + 1 .. top - 1
        BY <2>2, <1>1
      <4>. QED BY <3>1, <3>2, <4>1, <1>2 DEF Owes, F
    <3>. QED BY <3>1, <3>3, <1>1
  <2>. QED BY <2>1, <2>2, <1>1
<1>6. UnderWay'
  <2>1. LeadsTo(stack, aim, top - 1) => LeadsTo(stack', aim, top - 1)
    BY <1>1, <1>2, LeadsToSame
  <2>. QED BY <2>1, <1>1, <1>2 DEF UnderWay, Jumping, F
<1>7. Outcome'
  BY <1>1, NamesAssumption DEF Outcome
<1>. QED BY <1>3, <1>4, <1>5, <1>6, <1>7 DEF Inv

LEMMA LeaveKeeps ==
  ASSUME Inv, NEW r \in Results, NEW a \in Aims, Leave(r, a), UNCHANGED pending,
         at # "done", top > 1,
         r # Normal => r = a.jump /\ LeadsTo(stack, a, top - 1)
  PROVE  Inv'
<1>1. /\ TypeOK /\ Nesting /\ Waiting /\ Outcome
      /\ top \in Nat \ {0} /\ top \in Depth /\ top' = top - 1 /\ top' \in Depth
      /\ stack' = [stack EXCEPT ![top] = NoFrame]
      /\ at' = (IF r = Normal THEN "list" ELSE "ended") /\ result' = r
      /\ aim' = (IF r = Normal THEN NoAim ELSE a)
      /\ UNCHANGED <<pending, outcome>>
  BY BoundsAssumption DEF Leave, Inv, TypeOK, Depth
<1>2. /\ stack'[top] = NoFrame /\ \A i \in 1 .. top - 1 : stack'[i] = stack[i]
      /\ top - 1 \in Nat /\ top \in 1 .. top
  BY <1>1 DEF TypeOK, Depth
<1>3. TypeOK'
  <2>1. NoFrame \in Frame
    BY BoundsAssumption DEF NoFrame, Frame, Results, NoAim, Aims
  <2>. QED BY <2>1, <1>1 DEF TypeOK, NoAim, Aims
<1>4. Nesting'
  <2>1. top' \in 1 .. top - 1 /\ \A i \in 1 .. top' : i \in 1 .. top /\ i \in 1 .. top - 1
    BY <1>1
  <2>2. \A i \in 2 .. top' : i \in 2 .. top /\ i \in 1 .. top - 1
    BY <1>1
  <2>. QED BY <1>1, <1>2, <2>1, <2>2 DEF Nesting
<1>5. Waiting'
  <2> SUFFICES ASSUME NEW i \in 1 .. top'
               PROVE  /\ Keeps(stack', i) /\ Owes(stack', i, top')
                      /\ stack'[i].phase = "finally" /\ stack'[i].result = Unassigned => pending'
    BY DEF Waiting
  <2>1. i \in 1 .. top - 1
    BY <1>1
  <2>2. /\ Keeps(stack', i) /\ Owes(stack', i, top - 1)
        /\ stack'[i].phase = "finally" /\ stack'[i].result = Unassigned => pending
    BY <2>1, <1>1, <1>2, WaitingBelow
  <2>. QED BY <2>2, <1>1
<1>6. UnderWay'
  <2>1. LeadsTo(stack, a, top - 1) => LeadsTo(stack', a, top - 1)
    BY <1>1, <1>2, LeadsToSame
  <2>. QED BY <2>1, <1>1 DEF UnderWay, Jumping
<1>7. Outcome'
  BY <1>1, NamesAssumption DEF Outcome
<1>. QED BY <1>3, <1>4, <1>5, <1>6, <1>7 DEF Inv

-----------------------------------------------------------------------------
(* One lemma for each action.                                              *)

LEMMA Inits == Init => Inv
<1> SUFFICES ASSUME Init PROVE Inv
  OBVIOUS
<1>1. PICK kind \in {"function", "program"} :
        stack = [i \in Depth |-> IF i = 1 THEN [NoFrame EXCEPT !.kind = kind, !.phase = "body"]
                                ELSE NoFrame]
  BY DEF Init
<1>2. /\ top = 1 /\ at = "list" /\ result = Normal /\ pending = FALSE
      /\ outcome = "running" /\ aim = NoAim /\ top \in Depth
  BY BoundsAssumption DEF Init, Depth
<1>3. NoFrame \in Frame /\ [NoFrame EXCEPT !.kind = kind, !.phase = "body"] \in Frame
  <2>1. NoFrame \in Frame
    BY BoundsAssumption DEF NoFrame, Frame, Results, NoAim, Aims
  <2>. QED BY <2>1 DEF Frame
<1>4. TypeOK
  BY <1>1, <1>2, <1>3 DEF TypeOK, Results, NoAim, Aims
<1>5. Nesting
  <2>1. stack[1].kind = kind /\ stack[1].phase = "body"
    BY <1>1, <1>2 DEF NoFrame
  <2>2. WellFormed(stack[1])
    BY <2>1 DEF WellFormed, Loops
  <2>. QED BY <2>1, <2>2, <1>2 DEF Nesting
<1>6. Waiting
  BY <1>1, <1>2 DEF Waiting, Keeps, Owes, NoFrame
<1>7. UnderWay /\ Outcome
  BY <1>2, NamesAssumption DEF UnderWay, Jumping, Outcome
<1>. QED BY <1>4, <1>5, <1>6, <1>7 DEF Inv

\* What the actions need of the newest frame.
LEMMA Newest ==
  ASSUME Inv
  PROVE  /\ F \in Frame /\ WellFormed(F) /\ top \in Nat \ {0}
         /\ F.kind \in {"function", "program", "if", "try"} \union Loops
         /\ F.kind \notin {"function", "program"} => top > 1
         /\ result \in Results /\ aim \in Aims
<1>1. top \in Depth /\ top \in Nat \ {0} /\ stack \in [Depth -> Frame] /\ top \in 1 .. top
      /\ result \in Results /\ aim \in Aims
  BY BoundsAssumption DEF Inv, TypeOK, Depth
<1>2. WellFormed(F) /\ F \in Frame
  BY <1>1 DEF Inv, Nesting, F
<1>3. top = 1 \/ top \in 2 .. top
  BY <1>1
<1>. QED BY <1>1, <1>2, <1>3 DEF Inv, Nesting, F

LEMMA EndListKeeps == ASSUME Inv, EndList PROVE Inv'
<1>1. /\ at = "list" /\ at' = "ended" /\ result' = Normal
      /\ UNCHANGED <<stack, top, pending, outcome, aim>>
  BY DEF EndList
<1>2. TypeOK'
  BY <1>1 DEF Inv, TypeOK, Results
<1>3. Nesting' /\ Waiting'
  BY <1>1 DEF Inv, Nesting, Waiting
<1>4. UnderWay' /\ Outcome'
  BY <1>1 DEF Inv, UnderWay, Jumping, Outcome
<1>. QED BY <1>2, <1>3, <1>4 DEF Inv

\* Target is where a jump leads: nothing between takes it.
LEMMA TargetIsRight ==
  ASSUME Inv, NEW jump \in Jumps
  PROVE  Target(jump) \in Nat /\ LeadsTo(stack, [jump |-> jump, to |-> Target(jump)], top)
<1>1. top \in Nat \ {0}
  BY Newest
<1> DEFINE Finallys == {1} \union {i \in 1 .. top : stack[i].phase = "finally"}
<1>2. Finallys \in SUBSET (1 .. top) /\ Finallys # {}
  BY <1>1
<1>3. Floor \in Finallys /\ \A i \in Finallys : i <= Floor
  BY <1>1, <1>2, MaxIsGreatest DEF Floor
<1> DEFINE Takers == {Floor} \union {i \in Floor + 1 .. top :
                        /\ jump.type # "return" /\ stack[i].kind \in Loops
                        /\ jump.u \in {NoLabel, stack[i].label}}
<1>4. Floor \in 1 .. top
  BY <1>2, <1>3
<1>5. Takers \in SUBSET (1 .. top) /\ Takers # {}
  BY <1>1, <1>4
<1>6. Target(jump) \in Takers /\ \A i \in Takers : i <= Target(jump)
  <2>1. Target(jump) = Max(Takers)
    BY DEF Target
  <2> HIDE DEF Takers
  <2>. QED BY <2>1, <1>1, <1>5, MaxIsGreatest
<1>7. Target(jump) \in 1 .. top
  BY <1>5, <1>6
<1>8. ASSUME NEW i \in Target(jump) + 1 .. top
      PROVE  stack[i].phase # "finally" /\ ~Takes(stack[i], jump)
  <2>1. i \in 1 .. top /\ i > Target(jump) /\ i > Floor /\ i \in Floor + 1 .. top
    BY <1>3, <1>4, <1>6, <1>7
  <2>2. i \notin Finallys
    BY <2>1, <1>3, <1>4
  <2>3. i \notin Takers
    BY <2>1, <1>6, <1>7
  <2>. QED BY <2>1, <2>2, <2>3 DEF Takes
<1>9. \/ Target(jump) = 1 \/ stack[Target(jump)].phase = "finally"
      \/ Takes(stack[Target(jump)], jump)
  BY <1>3, <1>6 DEF Takes
<1>. QED BY <1>7, <1>8, <1>9 DEF LeadsTo

LEMMA JumpKeeps == ASSUME Inv, Jump PROVE Inv'
<1>1. PICK jump \in Jumps : result' = jump /\ aim' = [jump |-> jump, to |-> Target(jump)]
  BY DEF Jump
<1>2. at = "list" /\ at' = "ended" /\ UNCHANGED <<stack, top, pending, outcome>>
  BY DEF Jump
<1>3. Target(jump) \in Nat /\ LeadsTo(stack, aim', top)
  BY <1>1, TargetIsRight
<1>4. TypeOK'
  BY <1>1, <1>2, <1>3 DEF Inv, TypeOK, Results, Aims
<1>5. Nesting' /\ Waiting'
  BY <1>2 DEF Inv, Nesting, Waiting
<1>6. UnderWay' /\ Outcome'
  BY <1>1, <1>2, <1>3, NamesAssumption DEF Inv, UnderWay, Jumping, Outcome
<1>. QED BY <1>4, <1>5, <1>6 DEF Inv

LEMMA NoFrameTyped == NoFrame \in Frame
BY BoundsAssumption DEF NoFrame, Frame, Results, NoAim, Aims

LEMMA IfKeeps == ASSUME Inv, If PROVE Inv'
<1>1. PICK n \in 0 .. MaxElsifs, else \in BOOLEAN, held \in BOOLEAN :
        Enter([NoFrame EXCEPT !.kind = "if", !.elsifs = n, !.other = else,
                              !.phase = IF held THEN "then" ELSE "elsif",
                              !.branches = IF held THEN 1 ELSE 0],
              IF held THEN "list" ELSE "test")
  BY DEF If
<1> DEFINE f == [NoFrame EXCEPT !.kind = "if", !.elsifs = n, !.other = else,
                                !.phase = IF held THEN "then" ELSE "elsif",
                                !.branches = IF held THEN 1 ELSE 0]
<1>2. f \in Frame
  BY NoFrameTyped DEF Frame
<1>3. /\ f.kind = "if" /\ f.phase = IF held THEN "then" ELSE "elsif"
      /\ f.branches = IF held THEN 1 ELSE 0
      /\ f.executed = FALSE /\ f.result = Normal
  BY DEF NoFrame
<1>4. WellFormed(f)
  BY <1>3 DEF WellFormed, Loops
<1>5. Enter(f, IF held THEN "list" ELSE "test")
  BY <1>1
<1> HIDE DEF f
<1>6. CASE held
  BY <1>2, <1>3, <1>4, <1>5, <1>6, EnterKeeps
<1>7. CASE ~held
  BY <1>2, <1>3, <1>4, <1>5, <1>7, EnterKeeps
<1>. QED BY <1>6, <1>7

LEMMA LoopKeeps == ASSUME Inv, Loop PROVE Inv'
<1>1. PICK kind \in Loops, label \in Labels \union {NoLabel} :
        Enter([NoFrame EXCEPT !.kind = kind, !.label = label, !.phase = "condition"], "test")
  BY DEF Loop
<1> DEFINE f == [NoFrame EXCEPT !.kind = kind, !.label = label, !.phase = "condition"]
<1>2. f \in Frame
  BY NoFrameTyped DEF Frame
<1>3. f.kind = kind /\ f.phase = "condition" /\ f.result = Normal
  BY DEF NoFrame
<1>4. WellFormed(f) /\ f.kind \notin {"if", "try", "function", "program"}
  BY <1>3 DEF WellFormed, Loops
<1> HIDE DEF f
<1>. QED BY <1>1, <1>2, <1>3, <1>4, EnterKeeps DEF f

LEMMA TryKeeps == ASSUME Inv, Try PROVE Inv'
<1>1. PICK catch \in BOOLEAN, finally \in BOOLEAN :
        /\ ~pending
        /\ Enter([NoFrame EXCEPT !.kind = "try", !.phase = "try", !.catch = catch,
                                 !.other = finally, !.result = Unassigned], "list")
  BY DEF Try
<1> DEFINE f == [NoFrame EXCEPT !.kind = "try", !.phase = "try", !.catch = catch,
                                !.other = finally, !.result = Unassigned]
<1>2. f \in Frame
  BY NoFrameTyped DEF Frame, Results
<1>3. f.kind = "try" /\ f.phase = "try"
  BY DEF NoFrame
<1>4. WellFormed(f)
  BY <1>3 DEF WellFormed, Loops
<1> HIDE DEF f
<1>. QED BY <1>1, <1>2, <1>3, <1>4, EnterKeeps DEF f

LEMMA ElsifConditionKeeps == ASSUME Inv, ElsifCondition PROVE Inv'
<1>1. PICK held \in BOOLEAN :
        GoOn([F EXCEPT !.elsifs = @ - 1, !.executed = Executed(F, held),
                       !.branches = IF held THEN @ + 1 ELSE @],
             IF held THEN "list" ELSE "test")
  BY DEF ElsifCondition
<1>2. /\ at = "test" /\ F.phase = "elsif" /\ F.elsifs > 0 /\ UNCHANGED pending
      /\ F \in Frame /\ WellFormed(F) /\ F.kind \in {"function", "program", "if", "try"} \union Loops
  BY Newest DEF ElsifCondition
<1>3. F.kind = "if"
  BY <1>2 DEF WellFormed, Loops
<1> DEFINE f == [F EXCEPT !.elsifs = @ - 1, !.executed = Executed(F, held),
                          !.branches = IF held THEN @ + 1 ELSE @]
<1>4. f \in Frame
  <2>1. /\ F.elsifs \in 0 .. MaxElsifs /\ F.executed \in BOOLEAN /\ F.branches \in Nat
    BY <1>2 DEF Frame
  <2>2. /\ F.elsifs - 1 \in 0 .. MaxElsifs /\ Executed(F, held) \in BOOLEAN
        /\ (IF held THEN F.branches + 1 ELSE F.branches) \in Nat
    BY <2>1, <1>2, BoundsAssumption DEF Executed
  <2>. QED BY <2>2, <1>2 DEF Frame
<1>5. /\ f.kind = "if" /\ f.phase = "elsif" /\ f.result = F.result
      /\ f.executed = (F.executed \/ held) /\ f.branches = IF held THEN F.branches + 1 ELSE F.branches
      /\ F.branches \in Nat
  BY <1>2, <1>3 DEF Frame, Executed
<1>6. WellFormed(f) /\ f.result = Normal
  <2>1. F.executed \in BOOLEAN /\ (F.executed <=> F.branches > 0) /\ F.result = Normal
    BY <1>2, <1>3 DEF WellFormed, Frame
  <2>2. f.executed <=> f.branches > 0
    BY <2>1, <1>5
  <2>. QED BY <2>1, <2>2, <1>5 DEF WellFormed, Loops
<1> HIDE DEF f
<1>. QED BY <1>1, <1>2, <1>3, <1>4, <1>5, <1>6, GoOnKeeps DEF f

LEMMA ElseKeeps == ASSUME Inv, Else PROVE Inv'
<1>2. /\ at = "test" /\ F.phase = "elsif" /\ F.elsifs = 0 /\ UNCHANGED pending
      /\ F \in Frame /\ WellFormed(F) /\ F.kind \in {"function", "program", "if", "try"} \union Loops
  BY Newest DEF Else
<1>3. F.kind = "if" /\ top > 1 /\ aim \in Aims
  BY <1>2, Newest DEF WellFormed, Loops
<1>4. CASE ~F.executed /\ F.other
  <2> DEFINE f == [F EXCEPT !.phase = "else", !.branches = @ + 1]
  <2>1. GoOn(f, "list")
    BY <1>4 DEF Else
  <2>2. f \in Frame
    <3>1. F.branches + 1 \in Nat
      BY <1>2 DEF Frame
    <3>. QED BY <3>1, <1>2 DEF Frame
  <2>3. f.kind = "if" /\ f.phase = "else" /\ f.result = F.result /\ f.branches = F.branches + 1
        /\ F.branches \in Nat
    BY <1>2, <1>3 DEF Frame
  <2>4. WellFormed(f)
    BY <1>2, <1>3, <1>4, <2>3 DEF WellFormed, Loops
  <2> HIDE DEF f
  <2>. QED BY <1>2, <1>3, <2>1, <2>2, <2>3, <2>4, GoOnKeeps
<1>5. CASE ~(~F.executed /\ F.other)
  <2>1. Leave(Normal, aim) /\ Normal \in Results
    BY <1>5 DEF Else, Results
  <2>. QED BY <1>2, <1>3, <2>1, LeaveKeeps
<1>. QED BY <1>4, <1>5

\* A jump that has come to a frame which neither takes it nor runs a finally block
\* goes on below.
LEMMA GoesOn ==
  ASSUME Inv, at = "ended", top > 1, F.phase # "finally",
         result \in Jumps => ~Takes(F, result)
  PROVE  result # Normal => result = aim.jump /\ LeadsTo(stack, aim, top - 1)
<1> SUFFICES ASSUME result # Normal
             PROVE  result = aim.jump /\ LeadsTo(stack, aim, top - 1)
  OBVIOUS
<1>1. result = aim.jump /\ LeadsTo(stack, aim, top)
  BY DEF Inv, UnderWay, Jumping
<1>2. aim.jump \in Jumps /\ top \in Nat
  BY <1>1, Newest DEF LeadsTo
<1>. QED BY <1>1, <1>2, LeadsToBelow DEF F

LEMMA BranchEndedKeeps == ASSUME Inv, BranchEnded PROVE Inv'
<1>1. /\ at = "ended" /\ F.kind = "if" /\ UNCHANGED pending
      /\ F \in Frame /\ WellFormed(F) /\ top > 1 /\ result \in Results /\ aim \in Aims
  BY Newest DEF BranchEnded
<1>2. F.phase \in {"then", "elsif", "else"} /\ F.result = Normal /\ F.kind \notin Loops
  BY <1>1 DEF WellFormed, Loops
<1>3. CASE F.phase = "elsif" /\ result = Normal
  <2>1. GoOn(F, "test")
    BY <1>3 DEF BranchEnded
  <2>. QED BY <1>1, <1>2, <2>1, GoOnKeeps
<1>4. CASE ~(F.phase = "elsif" /\ result = Normal)
  <2>1. Leave(result, aim)
    BY <1>4 DEF BranchEnded
  <2>2. result # Normal => result = aim.jump /\ LeadsTo(stack, aim, top - 1)
    BY <1>1, <1>2, GoesOn DEF Takes
  <2>. QED BY <1>1, <2>1, <2>2, LeaveKeeps
<1>. QED BY <1>3, <1>4

\* A loop that is about to test its condition, or to go to the next item.
LEMMA AtTest ==
  ASSUME Inv, at = "test", F.phase \in {"condition", "post"}
  PROVE  /\ F.kind \in Loops /\ top > 1 /\ F \in Frame /\ F.result \in Results /\ aim \in Aims
         /\ F.result # Normal =>
              F.result = aim.jump /\ aim.jump.type = "continue" /\ LeadsTo(stack, aim, top - 1)
<1>1. /\ F \in Frame /\ WellFormed(F) /\ aim \in Aims
      /\ F.kind \in {"function", "program", "if", "try"} \union Loops
      /\ F.kind \notin {"function", "program"} => top > 1
  BY Newest
<1>2. F.kind \in Loops /\ F.result \in Results
  BY <1>1 DEF WellFormed, Frame
<1>. QED BY <1>1, <1>2 DEF Inv, UnderWay, Loops

LEMMA LoopConditionKeeps == ASSUME Inv, LoopCondition PROVE Inv'
<1>1. at = "test" /\ F.phase = "condition" /\ UNCHANGED pending
  BY DEF LoopCondition
<1>2. /\ F.kind \in Loops /\ top > 1 /\ F \in Frame /\ F.result \in Results /\ aim \in Aims
      /\ F.result # Normal =>
           F.result = aim.jump /\ aim.jump.type = "continue" /\ LeadsTo(stack, aim, top - 1)
  BY <1>1, AtTest
<1> DEFINE f == [F EXCEPT !.phase = "body"]
<1>3. CASE GoOn(f, "list")
  <2>1. f \in Frame /\ f.kind = F.kind /\ f.phase = "body"
    BY <1>2 DEF Frame
  <2>2. WellFormed(f)
    BY <1>2, <2>1 DEF WellFormed, Loops
  <2> HIDE DEF f
  <2>. QED BY <1>1, <1>3, <2>1, <2>2, GoOnKeeps
<1>4. CASE Leave(F.result, aim)
  BY <1>1, <1>2, <1>4, LeaveKeeps
<1>. QED BY <1>3, <1>4 DEF LoopCondition

LEMMA PostKeeps == ASSUME Inv, Post PROVE Inv'
<1>1. at = "test" /\ F.phase = "post" /\ UNCHANGED pending
  BY DEF Post
<1>2. /\ F.kind \in Loops /\ top > 1 /\ F \in Frame
      /\ F.result # Normal =>
           F.result = aim.jump /\ aim.jump.type = "continue" /\ LeadsTo(stack, aim, top - 1)
  BY <1>1, AtTest
<1> DEFINE f == [F EXCEPT !.phase = "condition"]
<1>3. GoOn(f, "test")
  BY DEF Post
<1>4. f \in Frame /\ f.kind = F.kind /\ f.phase = "condition" /\ f.result = F.result
  BY <1>2 DEF Frame
<1>5. WellFormed(f)
  BY <1>2, <1>4 DEF WellFormed, Loops
<1> HIDE DEF f
<1>. QED BY <1>1, <1>2, <1>3, <1>4, <1>5, GoOnKeeps

LEMMA BodyEndedKeeps == ASSUME Inv, BodyEnded PROVE Inv'
<1>1. at = "ended" /\ F.kind \in Loops /\ UNCHANGED pending
  BY DEF BodyEnded
<1>2. F \in Frame /\ WellFormed(F) /\ top > 1 /\ result \in Results /\ aim \in Aims
  BY <1>1, Newest DEF Loops
<1>3. F.phase # "finally"
  BY <1>1, <1>2 DEF WellFormed, Loops
<1>4. result \in Jumps \/ result = Normal
  BY <1>1 DEF Inv, UnderWay, Jumping, LeadsTo
<1>5. CASE result.type = "return"
  <2>1. Leave(result, aim)
    BY <1>5 DEF BodyEnded
  <2>2. result # Normal => result = aim.jump /\ LeadsTo(stack, aim, top - 1)
    BY <1>1, <1>2, <1>3, <1>5, GoesOn DEF Takes
  <2>. QED BY <1>1, <1>2, <2>1, <2>2, LeaveKeeps
<1>6. ASSUME result.type \in {"break", "continue"}
      PROVE  /\ CompareLabels(result, F.label) \in Results
             /\ CompareLabels(result, F.label) # Normal =>
                  /\ CompareLabels(result, F.label) = result /\ result = aim.jump
                  /\ LeadsTo(stack, aim, top - 1)
  <2>1. CASE result.u = NoLabel \/ result.u = F.label
    BY <2>1 DEF CompareLabels, Results
  <2>2. CASE ~(result.u = NoLabel \/ result.u = F.label)
    <3>1. CompareLabels(result, F.label) = result /\ result # Normal
      BY <1>6, <2>2 DEF CompareLabels, Normal, Result
    <3>2. ~Takes(F, result)
      BY <2>2 DEF Takes
    <3>. QED BY <1>1, <1>2, <1>3, <3>1, <3>2, GoesOn
  <2>. QED BY <2>1, <2>2
<1>7. CASE result.type = "break"
  <2>1. Leave(CompareLabels(result, F.label), aim)
    BY <1>7 DEF BodyEnded
  <2>. QED BY <1>1, <1>2, <1>6, <1>7, <2>1, LeaveKeeps
<1>8. CASE result.type \notin {"return", "break"}
  <2> DEFINE r == IF result.type = "continue" THEN CompareLabels(result, F.label) ELSE Normal
             f == [F EXCEPT !.phase = AfterBody(F), !.result = r]
  <2>1. GoOn(f, "test")
    BY <1>8 DEF BodyEnded
  <2>2. /\ r \in Results
        /\ r # Normal => /\ r = aim.jump /\ aim.jump.type = "continue"
                         /\ LeadsTo(stack, aim, top - 1)
    BY <1>6 DEF Results
  <2> HIDE DEF r
  <2>3. AfterBody(F) \in {"post", "condition"}
    BY DEF AfterBody
  <2>4. f \in Frame /\ f.kind = F.kind /\ f.phase = AfterBody(F) /\ f.result = r
    BY <1>2, <2>2, <2>3 DEF Frame
  <2>5. WellFormed(f)
    BY <1>1, <2>3, <2>4 DEF WellFormed, Loops
  <2> HIDE DEF f
  <2>. QED BY <1>1, <2>1, <2>2, <2>3, <2>4, <2>5, GoOnKeeps
<1>. QED BY <1>5, <1>7, <1>8

LEMMA TryEndedKeeps == ASSUME Inv, TryEnded PROVE Inv'
<1>1. at = "ended" /\ F.phase \in {"try", "catch"} /\ UNCHANGED pending
  BY DEF TryEnded
<1>2. /\ F \in Frame /\ WellFormed(F) /\ result \in Results /\ aim \in Aims
      /\ F.kind \in {"function", "program", "if", "try"} \union Loops
      /\ F.kind \notin {"function", "program"} => top > 1
  BY Newest
<1>3. F.kind = "try" /\ top > 1
  BY <1>1, <1>2 DEF WellFormed, Loops
<1>4. result # Normal => result = aim.jump /\ LeadsTo(stack, aim, top - 1)
  BY <1>1, <1>3, GoesOn DEF Takes, Loops
<1>5. result # Unassigned
  BY <1>1 DEF Inv, UnderWay, Jumping, LeadsTo, Jumps, Unassigned, Normal, Result
<1>6. CASE F.other
  <2> DEFINE f == [F EXCEPT !.phase = "finally", !.result = result, !.aim = aim]
  <2>1. GoOn(f, "list")
    BY <1>6 DEF TryEnded
  <2>2. /\ f \in Frame /\ f.kind = F.kind /\ f.phase = "finally"
        /\ f.result = result /\ f.aim = aim
    BY <1>2 DEF Frame
  <2>3. WellFormed(f)
    BY <1>3, <2>2 DEF WellFormed, Loops
  <2>4. result \in Jumps => result # Normal
    BY DEF Jumps, Normal, Result
  <2> HIDE DEF f
  <2>. QED BY <1>1, <1>4, <1>5, <2>1, <2>2, <2>3, <2>4, GoOnKeeps
<1>7. CASE ~F.other
  <2>1. Leave(result, aim)
    BY <1>7 DEF TryEnded
  <2>. QED BY <1>1, <1>2, <1>3, <1>4, <2>1, LeaveKeeps
<1>. QED BY <1>6, <1>7

LEMMA FinallyEndedKeeps == ASSUME Inv, FinallyEnded PROVE Inv'
<1>1. at = "ended" /\ F.phase = "finally" /\ UNCHANGED pending
  BY DEF FinallyEnded
<1>2. /\ F \in Frame /\ WellFormed(F) /\ top \in Nat \ {0}
      /\ F.kind \in {"function", "program", "if", "try"} \union Loops
      /\ F.kind \notin {"function", "program"} => top > 1
  BY Newest
<1>3. F.kind = "try" /\ top > 1 /\ F.result \in Results /\ F.aim \in Aims
  BY <1>1, <1>2 DEF WellFormed, Loops, Frame
<1>4. /\ F.result \in Jumps => F.aim.jump = F.result /\ LeadsTo(stack, F.aim, top - 1)
      /\ F.result = Unassigned => ~F.catch /\ pending
  <2>1. Keeps(stack, top) /\ Owes(stack, top, top) /\ (F.result = Unassigned => pending)
    BY <1>1, <1>2 DEF Inv, Waiting, F
  <2>. QED BY <1>1, <2>1 DEF Keeps, Owes, F
<1>5. CASE ~F.catch /\ pending
  <2>1. /\ stack' = [stack EXCEPT ![top] = NoFrame] /\ top' = top - 1 /\ at' = "thrown"
        /\ UNCHANGED <<result, outcome, aim>>
    BY <1>5 DEF FinallyEnded
  <2>2. TypeOK /\ top \in Depth /\ top - 1 \in Depth /\ top - 1 \in Nat /\ top \in 1 .. top
    BY <1>2, <1>3, BoundsAssumption DEF Inv, TypeOK, Depth
  <2>3. \A i \in 1 .. top - 1 : stack'[i] = stack[i]
    BY <2>1, <2>2 DEF TypeOK, Depth
  <2>4. TypeOK'
    BY <1>1, <2>1, <2>2, NoFrameTyped DEF TypeOK
  <2>5. Nesting'
    <3>1. top' \in 1 .. top - 1 /\ \A i \in 1 .. top' : i \in 1 .. top /\ i \in 1 .. top - 1
      BY <1>2, <1>3, <2>1
    <3>2. \A i \in 2 .. top' : i \in 2 .. top /\ i \in 1 .. top - 1
      BY <1>2, <2>1
    <3>. QED BY <2>3, <3>1, <3>2, <1>2, <1>3 DEF Nesting, Inv
  <2>6. Waiting'
    <3> SUFFICES ASSUME NEW i \in 1 .. top'
                 PROVE  /\ Keeps(stack', i) /\ Owes(stack', i, top')
                        /\ stack'[i].phase = "finally" /\ stack'[i].result = Unassigned => pending'
      BY DEF Waiting
    <3>1. i \in 1 .. top - 1
      BY <2>1
    <3>2. /\ Keeps(stack', i) /\ Owes(stack', i, top - 1)
          /\ stack'[i].phase = "finally" /\ stack'[i].result = Unassigned => pending
      BY <2>2, <2>3, <3>1, WaitingBelow DEF Inv
    <3>. QED BY <3>2, <2>1, <1>1
  <2>7. UnderWay' /\ Outcome'
    BY <1>1, <1>5, <2>1 DEF Inv, UnderWay, Jumping, Outcome
  <2>. QED BY <2>4, <2>5, <2>6, <2>7 DEF Inv
<1>6. CASE ~(~F.catch /\ pending)
  <2>1. Leave(F.result, F.aim)
    BY <1>6 DEF FinallyEnded, ResultOfTry
  <2>2. F.result # Normal => F.result \in Jumps
    BY <1>3, <1>4, <1>6 DEF Results
  <2>. QED BY <1>1, <1>3, <1>4, <2>1, <2>2, LeaveKeeps
<1>. QED BY <1>5, <1>6

LEMMA ThrowKeeps == ASSUME Inv, Throw PROVE Inv'
<1>1. /\ at \in {"list", "test"} /\ at' = "thrown" /\ pending' = TRUE
      /\ UNCHANGED <<stack, top, result, outcome, aim>>
  BY DEF Throw
<1>2. TypeOK'
  BY <1>1 DEF Inv, TypeOK
<1>3. Nesting' /\ Waiting'
  BY <1>1 DEF Inv, Nesting, Waiting
<1>4. UnderWay' /\ Outcome'
  BY <1>1 DEF Inv, UnderWay, Jumping, Outcome
<1>. QED BY <1>2, <1>3, <1>4 DEF Inv

LEMMA InnermostTry ==
  ASSUME Inv, Tries # {}
  PROVE  Max(Tries) \in Tries /\ Tries \in SUBSET (1 .. top) /\ \A i \in Tries : i <= Max(Tries)
<1>1. Tries \in SUBSET (1 .. top) /\ top \in Nat
  BY Newest DEF Tries
<1>. QED BY <1>1, MaxIsGreatest

LEMMA CaughtKeeps == ASSUME Inv, Caught PROVE Inv'
<1>1. at = "thrown" /\ pending /\ UNCHANGED <<result, aim>> /\ outcome = "running"
  BY DEF Caught, Inv, UnderWay, Outcome
<1>2. CASE Tries = {}
  <2>1. at' = "done" /\ outcome' = "exception" /\ UNCHANGED <<stack, top, pending>>
    BY <1>2 DEF Caught
  <2>2. TypeOK'
    BY <1>1, <2>1 DEF Inv, TypeOK
  <2>3. Nesting' /\ Waiting'
    BY <2>1 DEF Inv, Nesting, Waiting
  <2>4. UnderWay' /\ Outcome'
    BY <1>1, <2>1, NamesAssumption DEF UnderWay, Jumping, Outcome
  <2>. QED BY <2>2, <2>3, <2>4 DEF Inv
<1>3. CASE Tries # {}
  <2> DEFINE k == Max(Tries)
             f == [stack[k] EXCEPT !.phase = IF stack[k].catch THEN "catch" ELSE "finally",
                                   !.result = Unassigned, !.aim = NoAim]
  <2>1. k \in 1 .. top /\ stack[k].phase = "try"
    BY <1>3, InnermostTry DEF Tries
  <2>2. /\ top' = k
        /\ stack' = [i \in Depth |-> IF i < k THEN stack[i] ELSE IF i = k THEN f ELSE NoFrame]
        /\ at' = "list" /\ pending' = (pending /\ ~stack[k].catch) /\ UNCHANGED outcome
    BY <1>3 DEF Caught
  <2> HIDE DEF k
  <2>3. /\ TypeOK /\ Nesting /\ Waiting /\ top \in Depth /\ k \in Depth /\ k \in Nat \ {0}
        /\ stack[k] \in Frame /\ WellFormed(stack[k]) /\ k - 1 \in Nat
    <3>1. TypeOK /\ Nesting /\ Waiting /\ top \in Depth /\ stack \in [Depth -> Frame]
      BY DEF Inv, TypeOK
    <3>2. k \in Depth /\ k \in Nat \ {0} /\ k - 1 \in Nat
      BY <2>1, <3>1, BoundsAssumption DEF Depth
    <3>. QED BY <2>1, <3>1, <3>2 DEF Nesting
  <2>4. f \in Frame /\ f.kind = stack[k].kind /\ f.result = Unassigned /\ f.catch = stack[k].catch
        /\ f.phase = IF stack[k].catch THEN "catch" ELSE "finally"
    BY <2>3, BoundsAssumption, ZenonT(30) DEF Frame, NoAim, Aims, Results
  <2>5. stack[k].kind = "try" /\ WellFormed(f)
    <3>1. stack[k].kind \in {"function", "program", "if", "try"} \union Loops
      <4>1. k = 1 \/ k \in 2 .. top
        BY <2>1
      <4>. QED BY <4>1, <2>3 DEF Nesting
    <3>2. stack[k].kind = "try"
      BY <2>1, <2>3, <3>1 DEF WellFormed, Loops
    <3>. QED BY <3>2, <2>4 DEF WellFormed, Loops
  <2> HIDE DEF f
  <2>6. stack'[k] = f /\ \A i \in 1 .. k - 1 : stack'[i] = stack[i]
    <3>1. \A i \in 1 .. k - 1 : i \in Depth /\ i < k
      BY <2>3, BoundsAssumption DEF Depth
    <3>2. ~(k < k)
      BY <2>3
    <3>. QED BY <2>2, <2>3, <3>1, <3>2
  <2>7. TypeOK'
    BY <1>1, <2>2, <2>3, <2>4, NoFrameTyped DEF TypeOK
  <2>8. Nesting'
    <3>1. /\ \A i \in 1 .. k : i = k \/ (i \in 1 .. k - 1 /\ i \in 1 .. top)
          /\ \A i \in 2 .. k : i \in 2 .. top
      BY <2>1, <2>3, BoundsAssumption DEF Depth
    <3>2. \A i \in 1 .. k : stack'[i].kind = stack[i].kind /\ WellFormed(stack'[i])
      BY <3>1, <2>3, <2>4, <2>5, <2>6 DEF Nesting
    <3>. QED BY <2>2, <2>3, <3>1, <3>2 DEF Nesting
  <2>9. Waiting'
    <3> SUFFICES ASSUME NEW i \in 1 .. top'
                 PROVE  /\ Keeps(stack', i) /\ Owes(stack', i, top')
                        /\ stack'[i].phase = "finally" /\ stack'[i].result = Unassigned => pending'
      BY DEF Waiting
    <3>1. CASE i = k
      <4>1. Unassigned \notin Jumps
        BY DEF Unassigned, Jumps, Result
      <4>2. Keeps(stack', k)
        BY <4>1, <2>4, <2>6 DEF Keeps
      <4>3. Owes(stack', k, k)
        BY <2>3, <2>4, <2>6 DEF Owes
      <4>. QED BY <3>1, <4>2, <4>3, <1>1, <2>2, <2>4, <2>6
    <3>2. CASE i \in 1 .. k - 1
      <4>1. Keeps(stack', i)
        BY <2>1, <2>3, <2>6, <3>2, WaitingBelow
      <4>2. Owes(stack, i, top) /\ k \in i + 1 .. top /\ stack'[i] = stack[i]
        <5>1. i \in 1 .. top /\ k \in i + 1 .. top
          BY <2>1, <2>3, <3>2 DEF Depth
        <5>. QED BY <5>1, <2>3, <2>6, <3>2 DEF Waiting
      <4>3. ~(stack'[i].phase = "finally" /\ stack'[i].result = Unassigned)
        BY <4>2, <2>5 DEF Owes
      <4>. QED BY <4>1, <4>3 DEF Owes
    <3>. QED BY <3>1, <3>2, <2>2, <2>3
  <2>10. UnderWay' /\ Outcome'
    BY <1>1, <2>2 DEF Inv, UnderWay, Jumping, Outcome
  <2>. QED BY <2>7, <2>8, <2>9, <2>10 DEF Inv
<1>. QED BY <1>2, <1>3

LEMMA BodyDoneKeeps == ASSUME Inv, BodyDone PROVE Inv'
<1>1. /\ at = "ended" /\ top = 1 /\ at' = "done"
      /\ outcome' = IF F.kind = "program" /\ result # Normal THEN "error" ELSE ReturnValue(result)
      /\ UNCHANGED <<stack, top, result, pending, aim>>
  BY DEF BodyDone
<1>2. result \in Results /\ result.type = "return" => result \in Jumps /\ result.u \in Values
  BY DEF Results, Jumps, Normal, Unassigned, Result
<1>3. outcome' \in Values \union {NullValue, "error"}
      /\ (outcome' \in Values => result.type = "return" /\ outcome' = result.u)
  BY <1>1, <1>2, NamesAssumption, Newest DEF ReturnValue
<1>4. TypeOK'
  BY <1>1, <1>3 DEF Inv, TypeOK
<1>5. Nesting' /\ Waiting'
  BY <1>1 DEF Inv, Nesting, Waiting
<1>6. UnderWay'
  BY <1>1 DEF UnderWay, Jumping
<1>7. Outcome'
  <2> SUFFICES ASSUME outcome' \in Values
               PROVE  aim = [jump |-> Result("return", outcome'), to |-> 1]
    BY <1>1 DEF Outcome
  <2>1. result \in Jumps /\ result.type = "return" /\ outcome' = result.u /\ result # Normal
    BY <1>2, <1>3, Newest DEF Normal, Result
  <2>2. result = aim.jump /\ aim.to \in 1 .. 1 /\ aim \in Aims
    BY <1>1, <2>1, Newest DEF Inv, UnderWay, Jumping, LeadsTo
  <2>3. result = Result("return", outcome')
    BY <2>1 DEF Jumps, Result
  <2>4. aim.to = 1 /\ aim = [jump |-> aim.jump, to |-> aim.to]
    BY <2>2 DEF Aims
  <2>. QED BY <2>2, <2>3, <2>4
<1>. QED BY <1>4, <1>5, <1>6, <1>7 DEF Inv

LEMMA StutterKeeps == ASSUME Inv, UNCHANGED vars PROVE Inv'
<1>1. UNCHANGED <<stack, top, at, result, pending, outcome, aim>>
  BY DEF vars
<1>2. TypeOK' /\ Nesting' /\ Waiting'
  BY <1>1 DEF Inv, TypeOK, Nesting, Waiting
<1>3. UnderWay' /\ Outcome'
  BY <1>1 DEF Inv, UnderWay, Jumping, F, Outcome
<1>. QED BY <1>2, <1>3 DEF Inv

LEMMA NextKeeps == ASSUME Inv, [Next]_vars PROVE Inv'
<1>. QED
  BY EndListKeeps, JumpKeeps, IfKeeps, ElsifConditionKeeps, ElseKeeps, BranchEndedKeeps,
     LoopKeeps, LoopConditionKeeps, PostKeeps, BodyEndedKeeps, TryKeeps, TryEndedKeeps,
     FinallyEndedKeeps, ThrowKeeps, CaughtKeeps, BodyDoneKeeps, StutterKeeps
  DEF Next, Done

-----------------------------------------------------------------------------
(* What a step does with a jump, and with the blocks of if and try.        *)

\* A step on which a jump is on its way beyond the newest frame.
LEMMA JumpPasses ==
  ASSUME Inv, Next, Jumping, top > aim.to
  PROVE  \/ top' = top - 1 /\ at' = "ended" /\ result' = result
         \/ EntersFinally /\ stack'[top].result = result
         \/ result.type = "continue" /\ F.kind \in Loops /\ at' = "test"
               /\ stack'[top].result = result
<1>1. /\ result = aim.jump /\ LeadsTo(stack, aim, top) /\ at = "ended" /\ result # Normal
      /\ result \in Jumps /\ aim.to \in 1 .. top
  BY DEF Inv, UnderWay, Jumping, LeadsTo
<1>2. /\ F \in Frame /\ WellFormed(F) /\ top \in Nat \ {0}
      /\ stack \in [Depth -> Frame] /\ top \in Depth
  BY Newest DEF Inv, TypeOK
<1>3. top > 1 /\ F.phase # "finally" /\ ~Takes(F, result)
  BY <1>1, <1>2 DEF LeadsTo, F
<1>4. \A f : stack' = [stack EXCEPT ![top] = f] => stack'[top] = f
  BY <1>2
<1>5. CASE BranchEnded
  BY <1>1, <1>5 DEF BranchEnded, Leave
<1>6. CASE BodyEnded
  <2>1. F.kind \in Loops
    BY <1>6 DEF BodyEnded
  <2>2. result.type # "return" => CompareLabels(result, F.label) = result
    BY <1>3, <2>1 DEF Takes, CompareLabels
  <2>3. result.type \in {"break", "continue", "return"}
    BY <1>1 DEF Jumps
  <2>4. CASE result.type = "return"
    <3>1. Leave(result, aim)
      BY <1>6, <2>4 DEF BodyEnded
    <3>. QED BY <1>1, <3>1 DEF Leave
  <2>5. CASE result.type = "break"
    <3>1. Leave(result, aim)
      BY <1>6, <2>2, <2>5 DEF BodyEnded
    <3>. QED BY <1>1, <3>1 DEF Leave
  <2>6. CASE result.type = "continue"
    <3>1. GoOn([F EXCEPT !.phase = AfterBody(F), !.result = result], "test")
      BY <1>6, <2>2, <2>6 DEF BodyEnded
    <3>2. at' = "test" /\ stack'[top] = [F EXCEPT !.phase = AfterBody(F), !.result = result]
      BY <3>1, <1>4 DEF GoOn
    <3>. QED BY <3>2, <2>1, <2>6, <1>2 DEF Frame
  <2>. QED BY <2>3, <2>4, <2>5, <2>6
<1>7. CASE TryEnded
  <2>1. CASE F.other
    <3>1. stack'[top] = [F EXCEPT !.phase = "finally", !.result = result, !.aim = aim]
      BY <1>4, <1>7, <2>1 DEF TryEnded, GoOn
    <3>2. stack'[top].phase = "finally" /\ stack'[top].result = result
      BY <3>1, <1>2 DEF Frame
    <3>. QED BY <3>2, <1>3 DEF EntersFinally
  <2>2. CASE ~F.other
    BY <1>1, <1>7, <2>2 DEF TryEnded, Leave
  <2>. QED BY <2>1, <2>2
<1>8. ~FinallyEnded /\ ~BodyDone
  BY <1>2, <1>3 DEF FinallyEnded, BodyDone
<1>. QED
  BY <1>1, <1>5, <1>6, <1>7, <1>8
  DEF Next, EndList, Jump, If, Loop, Try, Enter, ElsifCondition, Else, LoopCondition, Post,
      Throw, Caught, Done

\* A step on which a jump has come to the frame it leads to.
LEMMA JumpArrives ==
  ASSUME Inv, Next, Jumping, ~(top > aim.to), F.kind \in Loops
  PROVE  IF result.type = "break" THEN top' = top - 1 /\ at' = "list"
         ELSE top' = top /\ at' = "test" /\ stack'[top].result = Normal
<1>1. /\ result = aim.jump /\ LeadsTo(stack, aim, top) /\ at = "ended" /\ result # Normal
      /\ result \in Jumps /\ aim.to \in 1 .. top
  BY DEF Inv, UnderWay, Jumping, LeadsTo
<1>2. /\ F \in Frame /\ WellFormed(F) /\ top \in Nat \ {0} /\ top > 1
      /\ stack \in [Depth -> Frame] /\ top \in Depth
  BY Newest DEF Inv, TypeOK, Loops
<1>3. F.phase \notin {"finally", "try", "catch"}
  BY <1>2 DEF WellFormed, Loops
<1>4. Takes(F, result)
  BY <1>1, <1>2, <1>3 DEF LeadsTo, F
<1>5. CompareLabels(result, F.label) = Normal /\ result.type \in {"break", "continue"}
  BY <1>1, <1>4 DEF Takes, CompareLabels, Jumps
<1>6. BodyEnded
  BY <1>1, <1>2, <1>3
  DEF Next, EndList, Jump, If, Loop, Try, Enter, ElsifCondition, Else, LoopCondition, Post,
      Throw, Caught, Done, BranchEnded, TryEnded, FinallyEnded, BodyDone, Loops
<1>7. CASE result.type = "break"
  <2>1. Leave(Normal, aim)
    BY <1>5, <1>6, <1>7 DEF BodyEnded
  <2>. QED BY <1>7, <2>1 DEF Leave
<1>8. CASE result.type = "continue"
  <2>1. GoOn([F EXCEPT !.phase = AfterBody(F), !.result = Normal], "test")
    BY <1>5, <1>6, <1>8 DEF BodyEnded
  <2>2. /\ top' = top /\ at' = "test"
        /\ stack'[top] = [F EXCEPT !.phase = AfterBody(F), !.result = Normal]
    BY <1>2, <2>1 DEF GoOn
  <2>. QED BY <1>2, <1>8, <2>2 DEF Frame
<1>. QED BY <1>5, <1>7, <1>8

LEMMA ReachesFinally == ASSUME Inv, [Next]_vars PROVE FinallyIsReached
<1> SUFFICES ASSUME NEW i \in 1 .. top, stack[i].phase = "try", stack[i].other
             PROVE  stack'[i].phase \in {"try", "catch", "finally"}
  BY DEF FinallyIsReached
<1>1. /\ stack \in [Depth -> Frame] /\ top \in Depth /\ top \in Nat /\ i \in Depth /\ i # top + 1
      /\ stack[i] \in Frame /\ F \in Frame /\ WellFormed(F)
  BY Newest, BoundsAssumption DEF Inv, TypeOK, Depth
<1>2. \A f : stack' = [stack EXCEPT ![top + 1] = f] => stack'[i] = stack[i]
  BY <1>1
<1>3. \A f : stack' = [stack EXCEPT ![top] = f] /\ i # top => stack'[i] = stack[i]
  BY <1>1
<1>4. CASE UNCHANGED stack
  BY <1>4
<1>5. CASE If \/ Loop \/ Try
  BY <1>2, <1>5 DEF If, Loop, Try, Enter
<1>6. CASE ElsifCondition \/ Else \/ BranchEnded
  <2>1. i # top
    BY <1>1, <1>6 DEF ElsifCondition, Else, BranchEnded, F, WellFormed
  <2>. QED BY <2>1, <1>3, <1>6 DEF ElsifCondition, Else, BranchEnded, GoOn, Leave
<1>7. CASE LoopCondition \/ Post \/ BodyEnded
  <2>1. i # top
    BY <1>1, <1>7 DEF LoopCondition, Post, BodyEnded, F, WellFormed, Loops
  <2>2. (\E f : stack' = [stack EXCEPT ![top] = f])
    BY <1>7 DEF LoopCondition, Post, BodyEnded, GoOn, Leave
  <2>. QED BY <2>1, <2>2, <1>3
<1>8. CASE TryEnded
  <2>1. CASE i = top
    <3>1. stack' = [stack EXCEPT ![top] = [F EXCEPT !.phase = "finally", !.result = result,
                                                    !.aim = aim]]
      BY <1>8, <2>1 DEF TryEnded, F, GoOn
    <3>. QED BY <2>1, <3>1, <1>1 DEF Frame
  <2>2. CASE i # top
    BY <2>2, <1>3, <1>8 DEF TryEnded, GoOn, Leave
  <2>. QED BY <2>1, <2>2
<1>9. CASE FinallyEnded
  <2>1. i # top
    BY <1>9 DEF FinallyEnded, F
  <2>. QED BY <2>1, <1>3, <1>9 DEF FinallyEnded, Leave
<1>10. CASE Caught
  <2>1. i \in Tries
    BY DEF Tries
  <2>2. Max(Tries) \in 1 .. top /\ i <= Max(Tries)
    BY <2>1, InnermostTry
  <2>3. stack' = [j \in Depth |->
                 IF j < Max(Tries) THEN stack[j]
                 ELSE IF j = Max(Tries)
                 THEN [stack[Max(Tries)] EXCEPT
                        !.phase = IF stack[Max(Tries)].catch THEN "catch" ELSE "finally",
                        !.result = Unassigned, !.aim = NoAim]
                 ELSE NoFrame]
    BY <1>10, <2>1 DEF Caught
  <2>4. CASE i < Max(Tries)
    BY <1>1, <2>3, <2>4
  <2>5. CASE i = Max(Tries)
    <3>1. stack'[i] = [stack[i] EXCEPT !.phase = IF stack[i].catch THEN "catch" ELSE "finally",
                                       !.result = Unassigned, !.aim = NoAim]
      BY <1>1, <2>3, <2>5
    <3>. QED BY <3>1, <1>1 DEF Frame
  <2>6. i < Max(Tries) \/ i = Max(Tries)
    BY <2>2, <1>1 DEF Depth
  <2>. QED BY <2>4, <2>5, <2>6
<1>11. CASE EndList \/ Jump \/ Throw \/ BodyDone \/ Done \/ UNCHANGED vars
  BY <1>4, <1>11 DEF EndList, Jump, Throw, BodyDone, Done, vars
<1>. QED BY <1>5, <1>6, <1>7, <1>8, <1>9, <1>10, <1>11 DEF Next

-----------------------------------------------------------------------------
(* The theorems.                                                           *)

\* Inv is an invariant: between a jump and the frame it leads to, no frame takes it,
\* and what waits for a finally block is still the jump it was (execute.c).
THEOREM Invariance == Spec => []Inv
<1>1. Init => Inv
  BY Inits
<1>2. Inv /\ [Next]_vars => Inv'
  BY NextKeeps
<1>. QED BY <1>1, <1>2, PTL DEF Spec

\* The C functions that execute statements, and what they hand on, keep their types:
\* a statement returns only into one that is waiting for it.
THEOREM TypeCorrectness == Spec => []TypeOK
<1>1. Inv => TypeOK
  BY DEF Inv
<1>. QED BY <1>1, Invariance, PTL

\* However many finally blocks run on the way, with jumps of their own, a list that
\* ends early ends with the jump that was executed (execute.c:414-425).
THEOREM JumpsAreKept == Spec => []ResultIsTheJump
<1>1. Inv => ResultIsTheJump
  BY DEF Inv, UnderWay, LeadsTo, Outcome, ResultIsTheJump
<1>. QED BY <1>1, Invariance, PTL

\* For any nesting of statements and any labels, break and return stop where the program
\* text says, and so does a continue, unless a loop on its way to the one whose label it
\* has finds its condition true again (execute.c:133-263, 355-425).
THEOREM JumpsLand == Spec => JumpLandsOnTarget
<1> DEFINE Lands ==
      Jumping =>
       IF top > aim.to
       THEN \/ top' = top - 1 /\ at' = "ended" /\ result' = result
            \/ EntersFinally /\ stack'[top].result = result
            \/ result.type = "continue" /\ F.kind \in Loops /\ at' = "test"
                  /\ stack'[top].result = result
       ELSE F.kind \in Loops =>
              IF result.type = "break" THEN top' = top - 1 /\ at' = "list"
              ELSE top' = top /\ at' = "test" /\ stack'[top].result = Normal
<1>1. Inv /\ [Next]_vars => [Lands]_vars
  BY JumpPasses, JumpArrives
<1>2. JumpLandsOnTarget <=> [][Lands]_vars
  BY PTL DEF JumpLandsOnTarget
<1> HIDE DEF Lands
<1>. QED BY <1>1, <1>2, Invariance, PTL DEF Spec

\* No jump or exception gets past a try block with a finally block, and an else block
\* runs only when no other block of its statement has (execute.c:68-131, 383-425).
THEOREM BlocksRun == Spec => BlocksRunWhenTheyMust
<1>1. Inv /\ [Next]_vars => FinallyIsReached
  BY ReachesFinally
<1>2. Inv => ElseIsLastResort
  <2> SUFFICES ASSUME Inv, NEW i \in 1 .. top, stack[i].phase = "else"
               PROVE  stack[i].branches = 1
    BY DEF ElseIsLastResort
  <2>1. WellFormed(stack[i]) /\ stack[i].kind \in {"function", "program", "if", "try"} \union Loops
    <3>1. i = 1 \/ i \in 2 .. top
      BY Newest
    <3>. QED BY <3>1 DEF Inv, Nesting
  <2>. QED BY <2>1 DEF WellFormed, Loops
<1>. QED BY <1>1, <1>2, Invariance, PTL DEF Spec, BlocksRunWhenTheyMust

=============================================================================
