---------------------------- MODULE UnwindProofs ----------------------------
(***************************************************************************)
(* The recovery environment, the environment chain and the value stack of  *)
(* Unwind agree with the live activations, and the current exception with  *)
(* the blocks that have caught it, for every bound and every set of        *)
(* exceptions.                                                             *)
(*                                                                         *)
(* The inductive invariant says of each activation how it continues the    *)
(* ones below it (Good), which only depends on those, and of the newest    *)
(* one how it meets the interpreter's registers (Registers).  A step either*)
(* enters an activation, changes the newest one or cuts some off, so three *)
(* lemmas about the array of frames serve all the actions.  A second       *)
(* invariant, relative to it, accounts for the exception (Accounted).      *)
(***************************************************************************)
EXTENDS Unwind, TLAPS

PhasesOf(kind) ==
  CASE kind = "compile"   -> {"parse", "reporting", "reported"}
    [] kind = "interpret" -> {"run", "reporting", "reported"}
    [] kind = "report"    -> {"print", "printed", "reporting", "reported"}
    [] kind = "raise"     -> {"lookup", "created"}
    [] kind = "call"      -> {"args", "body", "native"}
    [] kind = "ccall"     -> {"body", "native"}
    [] kind = "try"       -> {"try", "catch", "finally"}
    [] kind = "foreach"   -> {"iterator", "iterate", "each"}
    [] OTHER              -> {}

Sessions == {"compile", "interpret"}

Calls == {"call", "ccall"}

\* f alone: what an activation of its kind can be.
Shaped(f) ==
  /\ f \in Frame
  /\ f.phase \in PhasesOf(f.kind)
  /\ f.kind = "call" => f.own = 1
  /\ f.args > 0 => f.phase = "native"
  /\ f.temps > 0 => f.phase \in ListPhases \union {"args", "reporting", "reported"}
  /\ f.kind \in Sessions \union {"report"} => f.env = 0
  /\ f.kind = "foreach" => f.result \in ResultTypes

\* g continues f, the activation it was entered from.
Continues(f, g) ==
  /\ g.kind \notin Sessions
  /\ g.kind = "report" <=> f.phase = "reporting"
  /\ f.phase # "reported"
  /\ f.phase # "reporting" => StartsAbove(f, g)
  /\ g.env = (IF g.kind \in Calls THEN f.env + 1 ELSE f.env)
  /\ g.kind \in {"try", "foreach"} => f.phase \in ListPhases /\ f.temps = 0

\* Frame i of fr is well-formed over those below it.
Good(fr, i) ==
  /\ Shaped(fr[i])
  /\ i = 1 => fr[i].kind \in Sessions /\ fr[i].env = 0
  /\ i > 1 => Continues(fr[i - 1], fr[i])
  /\ fr[i].kind = "report" => \A m \in 1 .. i - 1 : ~Armed(fr[m])
  /\ fr[i].kind \in Calls \union {"try"} => InnermostIn(fr, fr[i].recb, i - 1)
  /\ \A k \in 1 .. i : InnermostIn(fr, k, i) => fr[k].env = fr[i].env

Chain(fr, n) == \A i \in 1 .. n : Good(fr, i)

\* The interpreter's registers and the newest activation.
Registers ==
  /\ top = 0 => topEnv = 0
  /\ top > 0 => topEnv = F.env
  /\ top > 0 => mode \in {"compiling", "interpreting", "overflow"}
  /\ top > 0 => F.phase # "reporting"
  /\ RecoveryIsInnermost
  /\ jmp = 0 /\ top > 0 /\ F.phase # "reported" => sp = F.spb + Held(F)
  /\ mode \in {"ready", "loaded", "done"} => top = 0
  /\ res # "run" => jmp = 0 /\ top > 0 /\ F.phase \in ListPhases /\ F.temps = 0

IInv == TypeOK /\ Chain(frames, top) /\ Registers

-----------------------------------------------------------------------------
(* The array of frames.                                                    *)

\* Good(fr, i) looks at no frame above i.
LEMMA GoodBelow ==
  ASSUME NEW fr, NEW fr2, NEW i \in Nat \ {0},
         \A m \in 1 .. i : fr2[m] = fr[m],
         Good(fr, i)
  PROVE  Good(fr2, i)
<1>1. fr2[i] = fr[i] /\ (i > 1 => fr2[i - 1] = fr[i - 1])
  OBVIOUS
<1>2. \A k, n \in Nat : n <= i => (InnermostIn(fr2, k, n) <=> InnermostIn(fr, k, n))
  BY DEF InnermostIn
<1>3. fr[i].kind \in Calls \union {"try"} => fr[i].recb \in Nat
  BY DEF Good, InnermostIn
<1>4. fr[i].kind \in Calls \union {"try"} => InnermostIn(fr2, fr2[i].recb, i - 1)
  BY <1>1, <1>2, <1>3 DEF Good
<1>5. \A k \in 1 .. i : InnermostIn(fr2, k, i) => fr2[k].env = fr2[i].env
  BY <1>1, <1>2 DEF Good
<1> QED
  BY <1>1, <1>4, <1>5 DEF Good

\* Cutting the newest activations off leaves a chain.
LEMMA ChainCut ==
  ASSUME NEW fr, NEW fr2, NEW n \in Nat, NEW k \in 0 .. n,
         \A m \in 1 .. k : fr2[m] = fr[m],
         Chain(fr, n)
  PROVE  Chain(fr2, k)
<1>1. ASSUME NEW i \in 1 .. k PROVE Good(fr2, i)
  <2>1. Good(fr, i) /\ i \in Nat \ {0} /\ \A m \in 1 .. i : fr2[m] = fr[m]
    BY DEF Chain
  <2> QED
    BY <2>1, GoodBelow
<1> QED
  BY <1>1 DEF Chain

\* The newest activation goes on to another phase, without arming its setjmp.
LEMMA ChainChange ==
  ASSUME NEW fr, NEW fr2, NEW n \in Nat \ {0},
         \A m \in 1 .. n - 1 : fr2[m] = fr[m],
         Chain(fr, n),
         Shaped(fr2[n]),
         fr2[n].kind = fr[n].kind, fr2[n].spb = fr[n].spb, fr2[n].own = fr[n].own,
         fr2[n].env = fr[n].env, fr2[n].recb = fr[n].recb,
         Armed(fr2[n]) => Armed(fr[n])
  PROVE  Chain(fr2, n)
<1>1. Chain(fr2, n - 1)
  BY ChainCut, n - 1 \in 0 .. n
<1>2. Good(fr, n)
  BY DEF Chain
<1>3. n > 1 => fr2[n - 1] = fr[n - 1] /\ Continues(fr[n - 1], fr2[n])
  BY <1>2 DEF Good, Continues, StartsAbove
<1>4. \A k \in Nat : InnermostIn(fr2, k, n - 1) <=> InnermostIn(fr, k, n - 1)
  BY DEF InnermostIn
<1>5. fr2[n].kind \in Calls \union {"try"} => InnermostIn(fr2, fr2[n].recb, n - 1)
  <2>1. fr[n].kind \in Calls \union {"try"} => fr[n].recb \in Nat
    BY <1>2 DEF Good, InnermostIn
  <2> QED
    BY <1>2, <1>4, <2>1 DEF Good
<1>6. fr2[n].kind = "report" => \A m \in 1 .. n - 1 : ~Armed(fr2[m])
  BY <1>2 DEF Good
<1>7. ASSUME NEW k \in 1 .. n, InnermostIn(fr2, k, n) PROVE fr2[k].env = fr2[n].env
  <2>1. CASE k = n
    BY <2>1
  <2>2. CASE k < n
    <3>1. ~Armed(fr2[n]) /\ InnermostIn(fr2, k, n - 1) /\ k \in 1 .. n - 1
      BY <1>7, <2>2 DEF InnermostIn
    <3>2. fr[n].kind \notin Calls
      BY <3>1 DEF Armed, Calls
    <3>3. Good(fr2, n - 1)
      BY <1>1, <3>1 DEF Chain
    <3>4. fr2[k].env = fr2[n - 1].env
      BY <3>1, <3>3 DEF Good
    <3> QED
      BY <1>3, <3>1, <3>2, <3>4 DEF Continues
  <2> QED
    BY <2>1, <2>2
<1>8. Good(fr2, n)
  BY <1>2, <1>3, <1>5, <1>6, <1>7 DEF Good
<1> QED
  BY <1>1, <1>8 DEF Chain

\* A new activation is entered from the newest one.
LEMMA ChainEnter ==
  ASSUME NEW fr, NEW n \in Nat \ {0},
         Chain(fr, n),
         Shaped(fr[n + 1]),
         Continues(fr[n], fr[n + 1]),
         fr[n + 1].kind = "report" => \A m \in 1 .. n : ~Armed(fr[m]),
         fr[n + 1].kind \in Calls \union {"try"} => InnermostIn(fr, fr[n + 1].recb, n)
  PROVE  Chain(fr, n + 1)
<1>1. ASSUME NEW k \in 1 .. n + 1, InnermostIn(fr, k, n + 1)
      PROVE  fr[k].env = fr[n + 1].env
  <2>1. CASE k = n + 1
    BY <2>1
  <2>2. CASE k < n + 1
    <3>1. ~Armed(fr[n + 1]) /\ InnermostIn(fr, k, n) /\ k \in 1 .. n
      BY <1>1, <2>2 DEF InnermostIn
    <3>2. fr[n + 1].kind \notin Calls
      BY <3>1 DEF Armed, Calls
    <3>3. fr[k].env = fr[n].env
      BY <3>1 DEF Chain, Good
    <3> QED
      BY <3>2, <3>3 DEF Continues
  <2> QED
    BY <2>1, <2>2
<1>2. Good(fr, n + 1)
  BY <1>1 DEF Good
<1> QED
  BY <1>2 DEF Chain

\* Which handler is innermost depends on which activations are armed.
LEMMA SameArmed ==
  ASSUME NEW fr, NEW fr2, NEW n \in Nat, NEW k \in Nat,
         \A m \in 1 .. n : Armed(fr2[m]) <=> Armed(fr[m])
  PROVE  InnermostIn(fr2, k, n) <=> InnermostIn(fr, k, n)
BY DEF InnermostIn

LEMMA SameArmedNewest ==
  ASSUME NEW fr, NEW fr2, NEW n \in Nat \ {0},
         \A m \in 1 .. n - 1 : fr2[m] = fr[m],
         Armed(fr2[n]) <=> Armed(fr[n])
  PROVE  \A k \in Nat : InnermostIn(fr2, k, n) <=> InnermostIn(fr, k, n)
<1>1. ASSUME NEW m \in 1 .. n PROVE Armed(fr2[m]) <=> Armed(fr[m])
  <2>1. CASE m = n
    BY <2>1
  <2>2. CASE m \in 1 .. n - 1
    BY <2>2
  <2> QED
    BY <2>1, <2>2
<1> QED
  BY <1>1, SameArmed

\* Below an activation that is not armed, the innermost handler is the same.
LEMMA InnermostBelow ==
  ASSUME NEW fr, NEW n \in Nat \ {0}, ~Armed(fr[n]), NEW k
  PROVE  InnermostIn(fr, k, n) <=> InnermostIn(fr, k, n - 1)
BY DEF InnermostIn

LEMMA NewHandler ==
  ASSUME NEW fr, NEW n \in Nat \ {0}, Armed(fr[n])
  PROVE  InnermostIn(fr, n, n)
BY DEF InnermostIn

-----------------------------------------------------------------------------
(* The steps.                                                              *)

\* What the invariant says of the newest activation.
LEMMA NewestFrame ==
  ASSUME IInv, top > 0
  PROVE  /\ top \in Depth /\ top \in Nat \ {0} /\ MaxFrames \in Nat
         /\ F \in Frame /\ Shaped(F) /\ Good(frames, top)
         /\ topEnv = F.env
         /\ F.phase # "reporting"
BY BoundsAssumption DEF IInv, TypeOK, Depth, Chain, Good, Shaped, Registers, F

\* f can take the place of the newest activation.
SameActivation(f) ==
  /\ f \in Frame /\ Shaped(f)
  /\ f.kind = F.kind /\ f.spb = F.spb /\ f.own = F.own
  /\ f.env = F.env /\ f.recb = F.recb

\* The newest activation goes on.
LEMMA ChangeNewest ==
  ASSUME IInv, top > 0, NEW f, SameActivation(f), Become(f),
         Armed(f) => Armed(F)
  PROVE  /\ F' = f /\ frames' \in [Depth -> Frame]
         /\ Chain(frames, top)'
         /\ top > 1 => F.phase # "reporting" /\ topEnv = f.env
         /\ (Armed(F) => Armed(f)) => \A k \in Nat : InnermostIn(frames', k, top) <=> InnermostIn(frames, k, top)
<1>1. top \in Depth /\ top \in Nat \ {0} /\ F \in Frame /\ frames \in [Depth -> Frame]
  BY NewestFrame DEF IInv, TypeOK
<1>2. frames' = [frames EXCEPT ![top] = f] /\ top' = top /\ f \in Frame
  BY DEF Become, SameActivation
<1>3. /\ frames' \in [Depth -> Frame] /\ frames'[top] = f
      /\ \A m \in 1 .. top - 1 : frames'[m] = frames[m]
  BY <1>1, <1>2 DEF Depth
<1>4. Chain(frames', top)
  <2>1. Chain(frames, top)
    BY DEF IInv
  <2> QED
    BY <1>1, <1>3, <2>1, ChainChange DEF SameActivation, F
<1>5. ASSUME Armed(F) => Armed(f), NEW k \in Nat
      PROVE  InnermostIn(frames', k, top) <=> InnermostIn(frames, k, top)
  <2>1. Armed(frames'[top]) <=> Armed(frames[top])
    BY <1>3, <1>5 DEF F
  <2> QED
    BY <1>1, <1>3, <2>1, SameArmedNewest
<1>6. topEnv = f.env /\ F.phase # "reporting"
  BY NewestFrame DEF SameActivation
<1> QED
  BY <1>2, <1>3, <1>4, <1>5, <1>6 DEF F

\* A new activation g is entered from the newest one, which becomes f.
LEMMA EnterNewest ==
  ASSUME IInv, top > 0, NEW f, SameActivation(f), NEW g \in Frame,
         Armed(f) <=> Armed(F),
         EnterFrom(f, g),
         Shaped(g), Continues(f, g), g.kind # "report",
         g.kind \in Calls \union {"try"} => InnermostIn(frames, g.recb, top)
  PROVE  /\ F' = g /\ frames' \in [Depth -> Frame]
         /\ Chain(frames, top)'
         /\ \A k \in Nat : InnermostIn(frames', k, top) <=> InnermostIn(frames, k, top)
<1>1. top \in Depth /\ top \in Nat \ {0} /\ F \in Frame /\ frames \in [Depth -> Frame]
      /\ MaxFrames \in Nat /\ f \in Frame /\ top < MaxFrames /\ top' = top + 1
  BY NewestFrame DEF IInv, TypeOK, SameActivation, EnterFrom
<1>2. /\ frames' \in [Depth -> Frame] /\ frames'[top] = f /\ frames'[top + 1] = g
      /\ \A m \in 1 .. top - 1 : frames'[m] = frames[m]
  BY <1>1 DEF Depth, EnterFrom
<1>3. \A k \in Nat : InnermostIn(frames', k, top) <=> InnermostIn(frames, k, top)
  <2>1. Armed(frames'[top]) <=> Armed(frames[top])
    BY <1>2 DEF F
  <2> QED
    BY <1>1, <1>2, <2>1, SameArmedNewest
<1>4. Chain(frames', top)
  <2>1. Chain(frames, top)
    BY DEF IInv
  <2>2. Shaped(frames'[top]) /\ (Armed(frames'[top]) => Armed(frames[top]))
    BY <1>2 DEF SameActivation, F
  <2>3. /\ frames'[top].kind = frames[top].kind /\ frames'[top].spb = frames[top].spb
        /\ frames'[top].own = frames[top].own /\ frames'[top].env = frames[top].env
        /\ frames'[top].recb = frames[top].recb
    BY <1>2 DEF SameActivation, F
  <2> QED
    BY <1>1, <1>2, <2>1, <2>2, <2>3, ChainChange
<1>5. Chain(frames', top + 1)
  <2>1. g.kind \in Calls \union {"try"} => InnermostIn(frames', g.recb, top)
    <3>1. g.recb \in Nat
      BY DEF Frame
    <3> QED
      BY <3>1, <1>3
  <2> QED
    BY <1>1, <1>2, <1>4, <2>1, ChainEnter
<1> QED
  BY <1>1, <1>2, <1>3, <1>5 DEF F

\* The newest activation ends; the one below it becomes f.
LEMMA DropNewest ==
  ASSUME IInv, top > 1, NEW f \in Frame,
         ReturnTo(f), Shaped(f),
         f.kind = Caller.kind, f.spb = Caller.spb, f.own = Caller.own,
         f.env = Caller.env, f.recb = Caller.recb,
         Armed(f) <=> Armed(Caller)
  PROVE  /\ F' = f /\ frames' \in [Depth -> Frame]
         /\ Chain(frames, top)'
         /\ \A k \in Nat : InnermostIn(frames', k, top - 1) <=> InnermostIn(frames, k, top - 1)
<1>1. top \in Depth /\ top \in Nat \ {0} /\ frames \in [Depth -> Frame] /\ MaxFrames \in Nat
      /\ top - 1 \in Nat \ {0} /\ top - 1 \in Depth /\ top' = top - 1
  BY NewestFrame DEF IInv, TypeOK, Depth, ReturnTo
<1>2. NoFrame \in Frame
  BY DEF NoFrame, Frame, Kinds, Phases
<1>3. /\ frames' \in [Depth -> Frame] /\ frames'[top - 1] = f
      /\ \A m \in 1 .. (top - 1) - 1 : frames'[m] = frames[m]
  BY <1>1, <1>2 DEF Depth, ReturnTo
<1>4. Chain(frames, top - 1)
  BY <1>1, ChainCut, top - 1 \in 0 .. top DEF IInv
<1>5. Chain(frames', top - 1)
  <2>2. Shaped(frames'[top - 1]) /\ (Armed(frames'[top - 1]) => Armed(frames[top - 1]))
    BY <1>3 DEF Caller
  <2>3. /\ frames'[top - 1].kind = frames[top - 1].kind
        /\ frames'[top - 1].spb = frames[top - 1].spb
        /\ frames'[top - 1].own = frames[top - 1].own
        /\ frames'[top - 1].env = frames[top - 1].env
        /\ frames'[top - 1].recb = frames[top - 1].recb
    BY <1>3 DEF Caller
  <2> QED
    BY <1>1, <1>3, <1>4, <2>2, <2>3, ChainChange
<1>6. \A k \in Nat : InnermostIn(frames', k, top - 1) <=> InnermostIn(frames, k, top - 1)
  <2>1. Armed(frames'[top - 1]) <=> Armed(frames[top - 1])
    BY <1>3 DEF Caller
  <2> QED
    BY <1>1, <1>3, <2>1, SameArmedNewest
<1>7. F' = f /\ Chain(frames, top)'
  BY <1>1, <1>3, <1>5 DEF F
<1> QED
  BY <1>3, <1>6, <1>7

\* The registers while the newest activation is at work: nothing is thrown and
\* nothing has been reported.
AtWork ==
  /\ mode \in {"compiling", "interpreting", "overflow"}
  /\ top \in Depth
  /\ jmp = 0
  /\ F.phase \notin {"reporting", "reported"}
  /\ topEnv = F.env
  /\ InnermostIn(frames, rec, top)
  /\ sp = F.spb + Held(F)

LEMMA WorkFacts ==
  ASSUME IInv, top > 0, jmp = 0, F.phase # "reported"
  PROVE  /\ AtWork /\ top \in Nat \ {0} /\ F \in Frame /\ Shaped(F)
         /\ rec \in Nat /\ sp \in Nat /\ topEnv \in Nat /\ MaxFrames \in Nat
         /\ frames \in [Depth -> Frame] /\ (top < MaxFrames \/ top = MaxFrames)
BY NewestFrame, BoundsAssumption
   DEF IInv, TypeOK, Registers, RecoveryIsInnermost, Innermost, AtWork, Depth

LEMMA WorkRegisters ==
  ASSUME AtWork', Chain(frames, top)', TypeOK', MaxFrames \in Nat,
         res' # "run" => F'.phase \in ListPhases /\ F'.temps = 0
  PROVE  IInv'
<1>1. Registers'
  BY DEF AtWork, Registers, RecoveryIsInnermost, Innermost, Depth
<1> QED
  BY <1>1 DEF IInv

LEMMA NoFrameType == NoFrame \in Frame
BY DEF NoFrame, Frame, Kinds, Phases

LEMMA HeldType == ASSUME NEW f \in Frame PROVE Held(f) \in Nat
BY DEF Held, Frame

\* The newest activation works on as f, its handler armed as before.
LEMMA WorkOn ==
  ASSUME IInv, AtWork, top > 0, NEW f, SameActivation(f), Armed(f) <=> Armed(F), Become(f),
         UNCHANGED <<mode, rec, topEnv, exc, jmp>>,
         sp' = f.spb + Held(f), f.phase \notin {"reporting", "reported"},
         res' \in ResultTypes \union {"run"},
         res' # "run" => f.phase \in ListPhases /\ f.temps = 0
  PROVE  IInv'
<1>1. /\ top \in Depth /\ top \in Nat \ {0} /\ F \in Frame /\ MaxFrames \in Nat /\ top' = top
      /\ f \in Frame /\ rec \in Nat
  BY NewestFrame DEF Become, SameActivation, IInv, TypeOK
<1>2. /\ F' = f /\ frames' \in [Depth -> Frame] /\ Chain(frames, top)'
      /\ \A k \in Nat : InnermostIn(frames', k, top) <=> InnermostIn(frames, k, top)
  BY <1>1, ChangeNewest
<1>3. InnermostIn(frames', rec', top')
  BY <1>1, <1>2 DEF AtWork
<1>4. AtWork'
  <2>1. sp' = F'.spb + Held(F)' /\ topEnv' = F'.env
    BY <1>2 DEF AtWork, SameActivation, Held
  <2> QED
    BY <1>1, <1>2, <1>3, <2>1 DEF AtWork, Depth
<1>5. TypeOK'
  <2>1. sp' \in Nat
    BY <1>1, HeldType DEF Frame
  <2> QED
    BY <1>1, <1>2, <2>1 DEF IInv, TypeOK
<1> QED
  BY <1>1, <1>2, <1>4, <1>5, WorkRegisters

\* The newest activation enters g, which arms its handler or has none.
LEMMA WorkEnter ==
  ASSUME IInv, AtWork, top > 0, NEW f, SameActivation(f), NEW g \in Frame,
         Armed(f) <=> Armed(F), EnterFrom(f, g),
         Shaped(g), Continues(f, g), g.kind # "report",
         g.kind \in Calls \union {"try"} => g.recb = rec,
         rec' = (IF Armed(g) THEN top + 1 ELSE rec),
         topEnv' = g.env, sp' = g.spb + Held(g), g.phase \notin {"reporting", "reported"},
         UNCHANGED <<mode, exc, jmp, res>>, res = "run"
  PROVE  IInv'
<1>1. /\ top \in Depth /\ top \in Nat \ {0} /\ MaxFrames \in Nat /\ top' = top + 1
      /\ top' \in Depth /\ rec \in Nat /\ InnermostIn(frames, rec, top)
  BY NewestFrame DEF EnterFrom, IInv, TypeOK, AtWork, Depth
<1>2. /\ F' = g /\ frames' \in [Depth -> Frame] /\ Chain(frames, top)'
      /\ \A k \in Nat : InnermostIn(frames', k, top) <=> InnermostIn(frames, k, top)
  BY <1>1, EnterNewest
<1>3. frames'[top'] = g
  BY <1>2 DEF F
<1>4. InnermostIn(frames', rec', top')
  <2>1. CASE Armed(g)
    BY <1>1, <1>3, <2>1, NewHandler
  <2>2. CASE ~Armed(g)
    <3>1. InnermostIn(frames', rec, top)
      BY <1>1, <1>2
    <3>2. top' \in Nat \ {0} /\ top' - 1 = top /\ ~Armed(frames'[top'])
      BY <1>1, <1>3, <2>2
    <3>3. InnermostIn(frames', rec, top') <=> InnermostIn(frames', rec, top' - 1)
      BY <3>2, InnermostBelow
    <3> QED
      BY <2>2, <3>1, <3>2, <3>3
  <2> QED
    BY <2>1, <2>2
<1>5. AtWork'
  <2>1. sp' = F'.spb + Held(F)' /\ topEnv' = F'.env
    BY <1>2 DEF Held
  <2> QED
    BY <1>1, <1>2, <1>4, <2>1 DEF AtWork, Depth
<1>6. TypeOK'
  <2>1. sp' \in Nat /\ topEnv' \in Nat
    BY HeldType DEF Frame
  <2>2. rec' \in 0 .. MaxFrames
    BY <1>1 DEF Depth, IInv, TypeOK
  <2> QED
    BY <1>1, <1>2, <2>1, <2>2 DEF IInv, TypeOK, Depth
<1> QED
  BY <1>1, <1>2, <1>5, <1>6, WorkRegisters

LEMMA PushOperandInv == ASSUME IInv, PushOperand PROVE IInv'
<1> DEFINE f == [F EXCEPT !.temps = @ + 1]
<1>1. /\ AtWork /\ top > 0 /\ F \in Frame /\ Shaped(F) /\ res = "run"
      /\ F.phase \in ListPhases \union {"args"}
  BY WorkFacts DEF PushOperand, Evaluating, Running, ListPhases
<1>2. SameActivation(f) /\ (Armed(f) <=> Armed(F)) /\ f.phase = F.phase
  BY <1>1 DEF SameActivation, Shaped, Frame, Armed
<1>3. Held(f) = Held(F) + 1
  BY <1>1 DEF Held, Frame
<1>4. sp' = f.spb + Held(f)
  BY <1>1, <1>2, <1>3, HeldType DEF PushOperand, AtWork, SameActivation, Frame
<1> QED
  BY <1>1, <1>2, <1>4, WorkOn DEF PushOperand, ListPhases

LEMMA PopOperandInv == ASSUME IInv, PopOperand PROVE IInv'
<1> DEFINE f == [F EXCEPT !.temps = @ - 1]
<1>1. /\ AtWork /\ top > 0 /\ F \in Frame /\ Shaped(F) /\ res = "run"
      /\ F.phase \in ListPhases \union {"args"} /\ F.temps > 0
  BY WorkFacts DEF PopOperand, Evaluating, Running, ListPhases
<1>2. SameActivation(f) /\ (Armed(f) <=> Armed(F)) /\ f.phase = F.phase
  BY <1>1 DEF SameActivation, Shaped, Frame, Armed
<1>3. Held(f) = Held(F) - 1
  BY <1>1 DEF Held, Frame
<1>4. sp' = f.spb + Held(f)
  BY <1>1, <1>2, <1>3, HeldType DEF PopOperand, AtWork, SameActivation, Frame
<1> QED
  BY <1>1, <1>2, <1>4, WorkOn DEF PopOperand, ListPhases

LEMMA ForeachIteratorInv == ASSUME IInv, ForeachIterator PROVE IInv'
<1> DEFINE f == [F EXCEPT !.phase = "iterate"]
<1>1. /\ AtWork /\ top > 0 /\ F \in Frame /\ Shaped(F) /\ res = "run"
      /\ F.phase = "iterator" /\ sp' = sp + 1
  BY WorkFacts DEF ForeachIterator, Running
<1>2. SameActivation(f) /\ (Armed(f) <=> Armed(F)) /\ f.phase = "iterate"
  BY <1>1 DEF SameActivation, Shaped, PhasesOf, Frame, Phases, Armed, ListPhases, Kinds, Calls
<1>3. Held(f) = Held(F) + 1
  BY <1>1 DEF Held, Frame, Shaped, ListPhases
<1>4. sp' = f.spb + Held(f)
  BY <1>1, <1>2, <1>3, HeldType DEF AtWork, SameActivation, Frame
<1> QED
  BY <1>1, <1>2, <1>4, WorkOn DEF ForeachIterator

LEMMA ForeachBodyInv == ASSUME IInv, ForeachBody PROVE IInv'
<1> DEFINE f == [F EXCEPT !.phase = "each"]
<1>1. /\ AtWork /\ top > 0 /\ F \in Frame /\ Shaped(F) /\ res = "run" /\ F.phase = "iterate"
      /\ sp' = sp
  BY WorkFacts DEF ForeachBody, Running
<1>2. SameActivation(f) /\ (Armed(f) <=> Armed(F)) /\ f.phase = "each"
  BY <1>1 DEF SameActivation, Shaped, PhasesOf, Frame, Phases, Armed, ListPhases, Kinds, Calls
<1>3. Held(f) = Held(F)
  BY <1>1 DEF Held, Frame
<1>4. sp' = f.spb + Held(f)
  BY <1>1, <1>2, <1>3, HeldType DEF AtWork, SameActivation, Frame
<1> QED
  BY <1>1, <1>2, <1>4, WorkOn DEF ForeachBody

LEMMA ForeachNextInv == ASSUME IInv, ForeachNext PROVE IInv'
<1>1. /\ AtWork /\ top > 0 /\ F \in Frame /\ Shaped(F) /\ F.phase = "each" /\ F.temps = 0
      /\ sp' = sp /\ res' = "run" /\ res \in ResultTypes
  BY WorkFacts DEF ForeachNext, ListEnded, IInv, Registers, TypeOK
<1>2. PICK r \in {"normal", res} : Become([F EXCEPT !.phase = "iterate", !.result = r])
  BY DEF ForeachNext
<1> DEFINE f == [F EXCEPT !.phase = "iterate", !.result = r]
<1>3. f \in Frame /\ f.phase = "iterate" /\ f.result \in ResultTypes
  BY <1>1, <1>2, ZenonT(30) DEF Frame, Phases, ResultTypes
<1>4. f.kind = F.kind /\ f.spb = F.spb /\ f.own = F.own /\ f.env = F.env /\ f.recb = F.recb
      /\ f.temps = F.temps /\ f.args = F.args
  BY <1>1 DEF Frame
<1>5. F.kind = "foreach"
  BY <1>1 DEF Shaped, PhasesOf, Frame, Kinds
<1>6. SameActivation(f) /\ (Armed(f) <=> Armed(F))
  BY <1>1, <1>3, <1>4, <1>5 DEF SameActivation, Shaped, PhasesOf, Armed, ListPhases, Calls
<1>7. Held(f) = Held(F)
  BY <1>1, <1>3, <1>4 DEF Held
<1>8. sp' = f.spb + Held(f)
  BY <1>1, <1>4, <1>7 DEF AtWork
<1> QED
  BY <1>1, <1>2, <1>3, <1>6, <1>8, WorkOn DEF ForeachNext

LEMMA EnterBodyInv == ASSUME IInv, EnterBody PROVE IInv'
<1>1. /\ AtWork /\ top > 0 /\ F \in Frame /\ Shaped(F) /\ res = "run" /\ F.phase = "args"
      /\ sp' = sp /\ F.kind = "call"
  BY WorkFacts DEF EnterBody, Running, Shaped, PhasesOf, Frame, Kinds
<1>2. F.args = 0
  BY <1>1 DEF Shaped, Frame
<1>3. ASSUME NEW f, Become(f), f \in Frame,
             f.phase \in {"body", "native"}, f.args > 0 => f.phase = "native",
             f.kind = F.kind, f.spb = F.spb, f.own = F.own, f.env = F.env, f.recb = F.recb,
             f.temps = 0, Held(f) = Held(F)
      PROVE  IInv'
  <2>1. SameActivation(f) /\ (Armed(f) <=> Armed(F))
    BY <1>1, <1>3 DEF SameActivation, Shaped, PhasesOf, Armed, Calls
  <2>2. sp' = f.spb + Held(f)
    BY <1>1, <1>3 DEF AtWork
  <2> QED
    BY <1>1, <1>3, <2>1, <2>2, WorkOn DEF EnterBody
<1>4. CASE F.temps = 0 /\ Become([F EXCEPT !.phase = "body"])
  <2> DEFINE f == [F EXCEPT !.phase = "body"]
  <2>1. f \in Frame /\ Held(f) = Held(F)
    BY <1>1, <1>2 DEF Frame, Phases, Held
  <2> QED
    BY <1>1, <1>2, <1>3, <1>4, <2>1 DEF Frame
<1>5. CASE Become([F EXCEPT !.phase = "native", !.args = F.temps, !.temps = 0])
  <2> DEFINE f == [F EXCEPT !.phase = "native", !.args = F.temps, !.temps = 0]
  <2>1. f \in Frame /\ f.phase = "native" /\ f.temps = 0 /\ f.args = F.temps
    BY <1>1 DEF Frame, Phases
  <2>2. Held(f) = Held(F)
    <3>1. Held(f) = F.temps
      BY <1>1, <2>1 DEF Held, Frame
    <3>2. Held(F) = F.temps
      BY <1>1, <1>2 DEF Held, Frame
    <3> QED
      BY <3>1, <3>2
  <2> QED
    BY <1>1, <1>2, <1>3, <1>5, <2>1, <2>2 DEF Frame
<1> QED
  BY <1>4, <1>5 DEF EnterBody

LEMMA EndListInv == ASSUME IInv, EndList PROVE IInv'
<1>1. AtWork /\ MaxFrames \in Nat /\ F.phase \in ListPhases /\ F.temps = 0
  BY WorkFacts DEF EndList, AtStatement, Running, ListPhases
<1>2. Chain(frames, top)' /\ F' = F /\ UNCHANGED <<mode, frames, top, rec, sp, topEnv, jmp>>
  BY DEF EndList, IInv, Chain, Good, InnermostIn, F
<1>3. AtWork'
  BY <1>1, <1>2 DEF AtWork
<1>4. TypeOK'
  BY DEF EndList, IInv, TypeOK
<1> QED
  BY <1>1, <1>2, <1>3, <1>4, WorkRegisters

\* The registers when longjmp is on its way.
LEMMA JumpRegisters ==
  ASSUME TypeOK', Chain(frames, top)', top' > 0, jmp' # 0,
         mode' \in {"compiling", "interpreting", "overflow"}, res' = "run",
         InnermostIn(frames, jmp, top)', topEnv' = F'.env, F'.phase # "reporting"
  PROVE  IInv'
BY DEF IInv, Registers, RecoveryIsInnermost, Innermost

\* The newest activation throws.
LEMMA WorkThrows ==
  ASSUME IInv, AtWork, UNCHANGED <<mode, frames, top, rec, topEnv>>,
         jmp' = rec, res' = "run", sp' \in Nat, exc' \in Values
  PROVE  IInv'
<1>1. F' = F /\ top > 0 /\ MaxFrames \in Nat
  BY BoundsAssumption DEF F, AtWork, Depth
<1>2. Chain(frames, top)' /\ (InnermostIn(frames, jmp, top)' <=> InnermostIn(frames, rec, top))
  BY DEF IInv, Chain, Good, InnermostIn
<1>3. InnermostIn(frames, rec, top)
  BY DEF AtWork
<1>4. jmp' # 0
  BY <1>3 DEF InnermostIn, IInv, TypeOK
<1>5. TypeOK'
  BY DEF IInv, TypeOK
<1> QED
  BY <1>1, <1>2, <1>3, <1>4, <1>5, JumpRegisters DEF AtWork

LEMMA ThrowInv == ASSUME IInv, Throw PROVE IInv'
<1>1. AtWork /\ sp \in Nat /\ res = "run"
  BY WorkFacts DEF Throw, AtStatement, Running, ListPhases
<1> QED
  BY <1>1, WorkThrows, ValuesAssumption DEF Throw, LongJump

LEMMA ReachedTopLevelInv == ASSUME IInv, ReachedTopLevel PROVE IInv'
<1>1. AtWork /\ sp \in Nat
  BY WorkFacts DEF ReachedTopLevel, ListEnded, IInv, Registers, ListPhases
<1> QED
  BY <1>1, WorkThrows, ValuesAssumption DEF ReachedTopLevel, LongJump

LEMMA RaiseExceptionInv == ASSUME IInv, RaiseException PROVE IInv'
<1>1. /\ AtWork /\ sp \in Nat /\ res = "run" /\ F \in Frame /\ Shaped(F) /\ F.kind = "raise"
      /\ F.phase \in {"lookup", "created"}
  <2>1. F \in Frame /\ Shaped(F) /\ F.kind = "raise" /\ F.phase \in {"lookup", "created"}
    BY NewestFrame DEF RaiseException, Running, Shaped, PhasesOf
  <2> QED
    BY <2>1, WorkFacts DEF RaiseException, Running
<1>2. F.temps = 0 /\ F.args = 0
  BY <1>1 DEF Shaped, Frame, ListPhases
<1>3. Held(F) = 1
  BY <1>1, <1>2 DEF Held
<1>4. sp' \in Nat
  BY <1>1, <1>3 DEF RaiseException, AtWork, Frame
<1>5. exc' \in Values
  BY ValuesAssumption DEF RaiseException
<1> QED
  BY <1>1, <1>4, <1>5, WorkThrows DEF RaiseException, LongJump

-----------------------------------------------------------------------------
(* Entering activations.                                                   *)

\* EnterCall, for a call that fits the activation it is made from.
LEMMA EnterCallInv ==
  ASSUME IInv, AtWork, top > 0, res = "run", NEW f, SameActivation(f), Armed(f) <=> Armed(F),
         f.phase \notin {"reporting", "reported"},
         NEW kind \in Calls, NEW phase \in PhasesOf(kind), NEW own \in {0, 1}, NEW args \in Nat,
         EnterCall(f, kind, phase, own, args),
         kind = "call" => own = 1 /\ sp + 1 = f.spb + Held(f),
         kind = "ccall" => sp = f.spb + Held(f),
         args > 0 => phase = "native",
         UNCHANGED <<mode, exc, jmp, res>>
  PROVE  IInv'
<1> DEFINE g == [NoFrame EXCEPT !.kind = kind, !.phase = phase, !.own = own,
                                !.args = args, !.spb = sp + own, !.recb = rec,
                                !.env = topEnv + 1]
<1>1. sp \in Nat /\ rec \in Nat /\ topEnv \in Nat /\ phase \in {"args", "body", "native"}
  BY DEF IInv, TypeOK, Calls, PhasesOf
<1>2. g.kind = kind /\ g.phase = phase /\ g.own = own /\ g.args = args /\ g.spb = sp + own
      /\ g.recb = rec /\ g.env = topEnv + 1 /\ g.temps = 0
  BY DEF NoFrame
<1>3. g \in Frame
  <2>1. sp + own \in Nat /\ topEnv + 1 \in Nat /\ kind \in Kinds /\ phase \in Phases
    BY <1>1 DEF Kinds, Phases, Calls
  <2> QED
    BY <1>1, <2>1, NoFrameType, Zenon DEF Frame
<1>4. EnterFrom(f, g) /\ topEnv' = g.env /\ rec' = top + 1 /\ sp' = sp + own + args
  BY <1>2 DEF EnterCall
<1>5. Shaped(g)
  BY <1>2, <1>3 DEF Shaped, Calls, Sessions
<1>6. Armed(g) /\ g.kind # "report" /\ g.kind \notin Sessions
  BY <1>2 DEF Armed, Calls, Sessions
<1>7. Held(g) = args
  BY <1>1, <1>2 DEF Held
<1>8. sp' = g.spb + Held(g)
  BY <1>1, <1>2, <1>4, <1>7
<1>9. Continues(f, g)
  <2>1. StartsAbove(f, g)
    <3>1. f.spb + Held(f) \in Nat
      BY HeldType DEF SameActivation, Frame
    <3>2. CASE kind = "call"
      BY <1>1, <1>2, <3>1, <3>2 DEF StartsAbove
    <3>3. CASE kind = "ccall"
      BY <1>1, <1>2, <3>1, <3>3 DEF StartsAbove
    <3> QED
      BY <3>2, <3>3 DEF Calls
  <2>2. g.env = f.env + 1
    BY <1>2 DEF AtWork, SameActivation
  <2> QED
    BY <1>2, <1>6, <2>1, <2>2 DEF Continues, Calls
<1> QED
  BY <1>1, <1>2, <1>3, <1>4, <1>5, <1>6, <1>8, <1>9, WorkEnter

LEMMA CallExpressionInv == ASSUME IInv, CallExpression PROVE IInv'
<1> DEFINE f == [F EXCEPT !.temps = @ + 1]
<1>1. /\ AtWork /\ top > 0 /\ F \in Frame /\ Shaped(F) /\ res = "run"
      /\ F.phase \in ListPhases \union {"args"}
  BY WorkFacts DEF CallExpression, Evaluating, Running, ListPhases
<1>2. SameActivation(f) /\ (Armed(f) <=> Armed(F)) /\ f.phase = F.phase
  BY <1>1 DEF SameActivation, Shaped, Frame, Armed
<1>3. Held(f) = Held(F) + 1
  BY <1>1 DEF Held, Frame
<1>4. sp + 1 = f.spb + Held(f)
  BY <1>1, <1>2, <1>3, HeldType DEF AtWork, SameActivation, Frame
<1>5. "call" \in Calls /\ "args" \in PhasesOf("call") /\ f.phase \notin {"reporting", "reported"}
  BY <1>1, <1>2 DEF Calls, PhasesOf, ListPhases
<1>6. EnterCall(f, "call", "args", 1, 0) /\ UNCHANGED <<mode, exc, jmp, res>>
  BY DEF CallExpression
<1> HIDE DEF f
<1> QED
  BY <1>1, <1>2, <1>4, <1>5, <1>6, EnterCallInv

LEMMA CallFromCInv == ASSUME IInv, CallFromC PROVE IInv'
<1>1. /\ AtWork /\ top > 0 /\ F \in Frame /\ Shaped(F) /\ res = "run"
      /\ F.phase \notin {"reporting", "reported"}
  BY WorkFacts DEF CallFromC, Running
<1>2. SameActivation(F)
  BY <1>1 DEF SameActivation
<1>3. PICK own, args \in {0, 1}, phase \in {"body", "native"} :
        /\ phase = "body" => args = 0
        /\ EnterCall(F, "ccall", phase, own, args)
  BY DEF CallFromC
<1>4. "ccall" \in Calls /\ phase \in PhasesOf("ccall") /\ args \in Nat /\ (args > 0 => phase = "native")
  BY <1>3 DEF Calls, PhasesOf
<1>5. sp = F.spb + Held(F) /\ UNCHANGED <<mode, exc, jmp, res>>
  BY <1>1 DEF CallFromC, AtWork
<1> QED
  BY <1>1, <1>2, <1>3, <1>4, <1>5, EnterCallInv

LEMMA ForeachInv == ASSUME IInv, Foreach PROVE IInv'
<1> DEFINE g == [NoFrame EXCEPT !.kind = "foreach", !.phase = "iterator", !.env = F.env,
                                !.spb = sp, !.result = "normal"]
<1>1. /\ AtWork /\ top > 0 /\ F \in Frame /\ Shaped(F) /\ res = "run" /\ sp \in Nat
      /\ F.phase \in ListPhases /\ F.temps = 0
  BY WorkFacts DEF Foreach, AtStatement, Running, ListPhases
<1>2. SameActivation(F)
  BY <1>1 DEF SameActivation
<1>3. g.kind = "foreach" /\ g.phase = "iterator" /\ g.own = 0 /\ g.args = 0 /\ g.spb = sp
      /\ g.env = F.env /\ g.temps = 0 /\ g.result = "normal"
  BY DEF NoFrame
<1>4. g \in Frame
  <2>1. F.env \in Nat /\ sp \in Nat
    BY <1>1 DEF Frame
  <2>2. "foreach" \in Kinds /\ "iterator" \in Phases /\ "normal" \in ResultTypes
    BY DEF Kinds, Phases, ResultTypes
  <2> QED
    BY <2>1, <2>2, NoFrameType, Zenon DEF Frame
<1>5. Shaped(g) /\ ~Armed(g)
  BY <1>3, <1>4 DEF Shaped, PhasesOf, Armed, Sessions, ResultTypes
<1>6. Held(g) = 1
  BY <1>3 DEF Held
<1>7. Continues(F, g)
  BY <1>1, <1>3 DEF Continues, StartsAbove, AtWork, Sessions, Calls, ListPhases
<1>8. EnterFrom(F, g) /\ sp' = g.spb + Held(g) /\ topEnv' = g.env /\ rec' = rec
  BY <1>1, <1>3, <1>6 DEF Foreach, AtWork
<1> QED
  BY <1>1, <1>2, <1>3, <1>4, <1>5, <1>7, <1>8, WorkEnter DEF Foreach, Calls

LEMMA TryInv == ASSUME IInv, Try PROVE IInv'
<1>1. /\ AtWork /\ top > 0 /\ F \in Frame /\ Shaped(F) /\ res = "run" /\ sp \in Nat /\ rec \in Nat
      /\ F.phase \in ListPhases /\ F.temps = 0
  BY WorkFacts DEF Try, AtStatement, Running, ListPhases
<1>2. SameActivation(F)
  BY <1>1 DEF SameActivation
<1>3. PICK c, h \in BOOLEAN :
        EnterFrom(F, [NoFrame EXCEPT !.kind = "try", !.phase = "try", !.env = F.env,
                               !.spb = sp, !.recb = rec, !.catch = c, !.finally = h])
  BY DEF Try
<1> DEFINE g == [NoFrame EXCEPT !.kind = "try", !.phase = "try", !.env = F.env,
                                !.spb = sp, !.recb = rec, !.catch = c, !.finally = h]
<1>4. g.kind = "try" /\ g.phase = "try" /\ g.own = 0 /\ g.args = 0 /\ g.spb = sp
      /\ g.env = F.env /\ g.temps = 0 /\ g.recb = rec
  BY DEF NoFrame
<1>5. g \in Frame
  <2>1. F.env \in Nat /\ sp \in Nat /\ rec \in Nat
    BY <1>1 DEF Frame
  <2>2. "try" \in Kinds /\ "try" \in Phases
    BY DEF Kinds, Phases
  <2> QED
    BY <2>1, <2>2, <1>3, NoFrameType, Zenon DEF Frame
<1>6. Shaped(g) /\ Armed(g)
  BY <1>4, <1>5 DEF Shaped, PhasesOf, Armed, Sessions
<1>7. Held(g) = 0
  BY <1>4 DEF Held
<1>8. Continues(F, g)
  BY <1>1, <1>4 DEF Continues, StartsAbove, AtWork, Sessions, Calls, ListPhases
<1>9. sp' = g.spb + Held(g) /\ topEnv' = g.env /\ rec' = top + 1
  BY <1>1, <1>4, <1>7 DEF Try, AtWork
<1> QED
  BY <1>1, <1>2, <1>3, <1>4, <1>5, <1>6, <1>8, <1>9, WorkEnter DEF Try

LEMMA RuntimeErrorInv == ASSUME IInv, RuntimeError PROVE IInv'
<1> DEFINE g == [NoFrame EXCEPT !.kind = "raise", !.phase = "lookup", !.env = F.env, !.spb = sp]
<1>1. /\ AtWork /\ top > 0 /\ F \in Frame /\ Shaped(F) /\ res = "run" /\ sp \in Nat
      /\ F.phase \notin {"reporting", "reported"}
  BY WorkFacts DEF RuntimeError, CanFail, Running, ListPhases
<1>2. SameActivation(F)
  BY <1>1 DEF SameActivation
<1>3. g.kind = "raise" /\ g.phase = "lookup" /\ g.own = 0 /\ g.args = 0 /\ g.spb = sp
      /\ g.env = F.env /\ g.temps = 0
  BY DEF NoFrame
<1>4. g \in Frame
  <2>1. F.env \in Nat /\ sp \in Nat
    BY <1>1 DEF Frame
  <2>2. "raise" \in Kinds /\ "lookup" \in Phases
    BY DEF Kinds, Phases
  <2> QED
    BY <2>1, <2>2, NoFrameType, Zenon DEF Frame
<1>5. Shaped(g) /\ ~Armed(g)
  BY <1>3, <1>4 DEF Shaped, PhasesOf, Armed, Sessions
<1>6. Held(g) = 1
  BY <1>3 DEF Held
<1>7. Continues(F, g)
  BY <1>1, <1>3 DEF Continues, StartsAbove, AtWork, Sessions, Calls
<1>8. EnterFrom(F, g) /\ sp' = g.spb + Held(g) /\ topEnv' = g.env /\ rec' = rec
  BY <1>1, <1>3, <1>6 DEF RuntimeError, AtWork
<1> QED
  BY <1>1, <1>2, <1>3, <1>4, <1>5, <1>7, <1>8, WorkEnter DEF RuntimeError, Calls

-----------------------------------------------------------------------------
(* Leaving activations.                                                    *)

\* An activation that is no session was entered from another one.
LEMMA EnteredFrom ==
  ASSUME IInv, NEW n \in 1 .. top, frames[n].kind \notin Sessions
  PROVE  /\ n - 1 \in 1 .. top /\ n - 1 \in Depth /\ n - 1 \in Nat \ {0} /\ n \in Depth
         /\ frames[n - 1] \in Frame /\ Shaped(frames[n - 1]) /\ Good(frames, n - 1)
         /\ frames[n] \in Frame /\ Shaped(frames[n]) /\ Good(frames, n)
         /\ Continues(frames[n - 1], frames[n])
<1>1. top \in Nat /\ top <= MaxFrames /\ MaxFrames \in Nat /\ Good(frames, n) /\ frames \in [Depth -> Frame]
  BY BoundsAssumption DEF IInv, TypeOK, Chain
<1>2. n > 1
  BY <1>1 DEF Good
<1>3. Good(frames, n - 1)
  BY <1>1, <1>2 DEF IInv, Chain
<1> QED
  BY <1>1, <1>2, <1>3 DEF Good, Depth

\* The newest activation ends with f going on below it.
FitsBelow(f) ==
  /\ f \in Frame /\ Shaped(f)
  /\ f.kind = Caller.kind /\ f.spb = Caller.spb /\ f.own = Caller.own
  /\ f.env = Caller.env /\ f.recb = Caller.recb
  /\ Armed(f) <=> Armed(Caller)

LEMMA WorkReturn ==
  ASSUME IInv, top > 1, NEW f, FitsBelow(f), ReturnTo(f), f.phase \notin {"reporting", "reported"},
         UNCHANGED <<mode, exc>>, jmp' = 0, rec' \in Nat, InnermostIn(frames, rec', top - 1),
         topEnv' = f.env, sp' = f.spb + Held(f), res' \in ResultTypes \union {"run"},
         res' # "run" => f.phase \in ListPhases /\ f.temps = 0
  PROVE  IInv'
<1>0. top \in Nat /\ top > 0
  BY DEF IInv, TypeOK
<1>1. /\ f \in Frame /\ top \in Depth /\ top - 1 \in Depth /\ MaxFrames \in Nat
      /\ top' = top - 1
  BY <1>0, NewestFrame DEF FitsBelow, ReturnTo, Depth
<1>2. /\ F' = f /\ frames' \in [Depth -> Frame] /\ Chain(frames, top)'
      /\ \A k \in Nat : InnermostIn(frames', k, top - 1) <=> InnermostIn(frames, k, top - 1)
  BY DropNewest DEF FitsBelow
<1>3. InnermostIn(frames', rec', top')
  BY <1>1, <1>2
<1>4. AtWork'
  <2>1. sp' = F'.spb + Held(F)' /\ topEnv' = F'.env
    BY <1>2 DEF Held
  <2>2. mode \in {"compiling", "interpreting", "overflow"}
    BY <1>0 DEF IInv, Registers
  <2> QED
    BY <1>1, <1>2, <1>3, <2>1, <2>2 DEF AtWork, Depth
<1>5. TypeOK'
  <2>1. sp' \in Nat /\ topEnv' \in Nat
    BY <1>1, HeldType DEF Frame
  <2>2. rec' \in 0 .. MaxFrames
    BY <1>1, <1>3 DEF InnermostIn, Depth
  <2> QED
    BY <1>1, <1>2, <2>1, <2>2 DEF IInv, TypeOK, Depth
<1> QED
  BY <1>1, <1>2, <1>4, <1>5, WorkRegisters

LEMMA ThrowReturn ==
  ASSUME IInv, top > 1, NEW f, FitsBelow(f), ReturnTo(f), f.phase # "reporting",
         UNCHANGED <<mode, exc>>, jmp' \in Nat, InnermostIn(frames, jmp', top - 1),
         rec' \in 0 .. MaxFrames,
         topEnv' = f.env, sp' \in Nat, res' = "run"
  PROVE  IInv'
<1>0. top \in Nat /\ top > 0
  BY DEF IInv, TypeOK
<1>1. /\ f \in Frame /\ top \in Depth /\ top - 1 \in Depth /\ MaxFrames \in Nat
      /\ top' = top - 1
  BY <1>0, NewestFrame DEF FitsBelow, ReturnTo, Depth
<1>2. /\ F' = f /\ frames' \in [Depth -> Frame] /\ Chain(frames, top)'
      /\ \A k \in Nat : InnermostIn(frames', k, top - 1) <=> InnermostIn(frames, k, top - 1)
  BY DropNewest DEF FitsBelow
<1>3. InnermostIn(frames', jmp', top') /\ jmp' # 0 /\ jmp' \in 0 .. MaxFrames
  <2>1. InnermostIn(frames', jmp', top')
    BY <1>1, <1>2
  <2>2. jmp' \in 1 .. top'
    BY <2>1 DEF InnermostIn
  <2> QED
    BY <1>1, <2>1, <2>2 DEF Depth
<1>4. InnermostIn(frames, jmp, top)'
  BY <1>3
<1>5. TypeOK'
  <2>1. topEnv' \in Nat
    BY <1>1 DEF Frame
  <2> QED
    BY <1>1, <1>2, <1>3, <2>1 DEF IInv, TypeOK, Depth
<1>6. mode' \in {"compiling", "interpreting", "overflow"}
  BY <1>0 DEF IInv, Registers
<1> QED
  BY <1>1, <1>2, <1>3, <1>4, <1>5, <1>6, JumpRegisters DEF Depth

LEMMA ReturnFromCallInv == ASSUME IInv, ReturnFromCall PROVE IInv'
<1> DEFINE f == Resume(Caller)
<1>1. /\ AtWork /\ top > 0 /\ F \in Frame /\ Shaped(F) /\ sp \in Nat /\ top \in Nat
      /\ F.phase \in {"body", "native"} /\ F.kind \in Calls /\ jmp = 0
  BY WorkFacts DEF ReturnFromCall, Running, ListEnded, Calls
<1>2. F.temps = 0
  BY <1>1 DEF ReturnFromCall, IInv, Registers, Shaped, ListEnded, Running, ListPhases, Frame
<1>3. /\ top > 1 /\ Caller \in Frame /\ Shaped(Caller) /\ Continues(Caller, F) /\ Good(frames, top)
  BY <1>1, EnteredFrom DEF F, Caller, Calls, Sessions
<1>4. /\ Caller.phase \notin {"reporting", "reported"} /\ StartsAbove(Caller, F)
      /\ F.env = Caller.env + 1
  BY <1>1, <1>3 DEF Continues, Calls
<1>5. FitsBelow(f) /\ f.phase \notin {"reporting", "reported"} /\ Held(f) = Held(Caller)
  <2>1. CASE Caller.phase = "lookup"
    <3>1. Caller.kind = "raise" /\ Caller.temps = 0 /\ Caller.args = 0
      BY <1>3, <2>1 DEF Shaped, PhasesOf, Frame, Kinds, ListPhases
    <3>2. f = [Caller EXCEPT !.phase = "created"]
      BY <2>1 DEF Resume
    <3>3. f \in Frame
      BY <1>3, <3>2 DEF Frame, Phases
    <3> QED
      BY <1>3, <2>1, <3>1, <3>2, <3>3 DEF FitsBelow, Frame, Shaped, PhasesOf, Armed, Held, Sessions
  <2>2. CASE Caller.phase = "print"
    <3>1. Caller.kind = "report" /\ Caller.temps = 0 /\ Caller.args = 0
      BY <1>3, <2>2 DEF Shaped, PhasesOf, Frame, Kinds, ListPhases
    <3>2. f = [Caller EXCEPT !.phase = "printed"]
      BY <2>2 DEF Resume
    <3>3. f \in Frame
      BY <1>3, <3>2 DEF Frame, Phases
    <3> QED
      BY <1>3, <2>2, <3>1, <3>2, <3>3 DEF FitsBelow, Frame, Shaped, PhasesOf, Armed, Held, Sessions
  <2>3. CASE Caller.phase \notin {"lookup", "print"}
    BY <1>3, <1>4, <2>3 DEF Resume, FitsBelow
  <2> QED
    BY <2>1, <2>2, <2>3
<1>6. rec' \in Nat /\ InnermostIn(frames, rec', top - 1)
  BY <1>1, <1>3 DEF ReturnFromCall, RestoreHandler, Good, F, Calls, Frame
<1>7. topEnv' = f.env
  BY <1>1, <1>3, <1>4, <1>5 DEF ReturnFromCall, DisposeEnvironment, AtWork, FitsBelow, Frame
<1>8. sp' = f.spb + Held(f)
  <2>1. Held(F) = F.args
    BY <1>1, <1>2 DEF Held, Frame
  <2>2. sp = F.spb + F.args /\ F.args \in Nat /\ F.own \in {0, 1} /\ F.spb \in Nat
    BY <1>1, <2>1 DEF AtWork, Frame
  <2>3. F.spb = f.spb + Held(f) + (IF F.kind = "ccall" THEN F.own ELSE 0)
    BY <1>4, <1>5 DEF StartsAbove, FitsBelow
  <2>4. f.spb + Held(f) \in Nat
    BY <1>5, HeldType DEF FitsBelow, Frame
  <2>5. CASE F.kind = "call"
    <3>1. F.own = 1
      BY <1>1, <2>5 DEF Shaped
    <3> QED
      BY <2>2, <2>3, <2>4, <2>5, <3>1 DEF ReturnFromCall
  <2>6. CASE F.kind = "ccall"
    BY <2>2, <2>3, <2>4, <2>6 DEF ReturnFromCall
  <2> QED
    BY <1>1, <2>5, <2>6 DEF Calls
<1>9. ReturnTo(f) /\ UNCHANGED <<mode, exc>> /\ jmp' = 0 /\ res' = "run"
  BY <1>1 DEF ReturnFromCall
<1> HIDE DEF f
<1> QED
  BY <1>3, <1>5, <1>6, <1>7, <1>8, <1>9, WorkReturn

LEMMA ForeachDoneInv == ASSUME IInv, ForeachDone PROVE IInv'
<1>1. /\ AtWork /\ top > 0 /\ F \in Frame /\ Shaped(F) /\ sp \in Nat /\ top \in Nat
      /\ F.phase \in {"iterate", "each"} /\ jmp = 0
  BY WorkFacts DEF ForeachDone, Running, ListEnded
<1>2. F.kind = "foreach" /\ F.args = 0
  BY <1>1 DEF Shaped, PhasesOf, Frame, Kinds
<1>3. F.temps = 0
  BY <1>1 DEF ForeachDone, Running, IInv, Registers, Shaped, ListEnded, ListPhases, Frame
<1>4. /\ top > 1 /\ Caller \in Frame /\ Shaped(Caller) /\ Continues(Caller, F)
  BY <1>1, <1>2, EnteredFrom DEF F, Caller, Sessions
<1>5. /\ Caller.phase \in ListPhases /\ Caller.temps = 0 /\ StartsAbove(Caller, F)
      /\ F.env = Caller.env
  BY <1>2, <1>4 DEF Continues, Calls, ListPhases
<1>6. rec \in Nat /\ InnermostIn(frames, rec, top - 1)
  <2>1. ~Armed(frames[top])
    BY <1>1, <1>2 DEF Armed, F
  <2>2. InnermostIn(frames, rec, top) /\ top \in Nat \ {0}
    BY <1>1 DEF AtWork
  <2> QED
    BY <2>1, <2>2, InnermostBelow DEF InnermostIn
<1>7. sp' = Caller.spb + Held(Caller)
  <2>1. Held(F) = 2
    BY <1>1, <1>2, <1>3 DEF Held
  <2>2. sp = F.spb + 2 /\ F.spb = Caller.spb + Held(Caller) /\ Caller.spb + Held(Caller) \in Nat
    BY <1>1, <1>2, <1>4, <1>5, <2>1, HeldType DEF AtWork, StartsAbove, Frame
  <2> QED
    BY <2>2 DEF ForeachDone, ShrinkForeach
<1>8. FitsBelow(Caller)
  BY <1>4 DEF FitsBelow
<1>9. /\ res' \in ResultTypes \union {"run"}
      /\ ReturnTo(Caller) /\ UNCHANGED <<mode, exc>> /\ jmp' = 0 /\ rec' = rec
      /\ topEnv' = Caller.env
  <2>1. F.result \in ResultTypes
    BY <1>1, <1>2 DEF Shaped
  <2> QED
    BY <1>1, <1>5, <2>1 DEF ForeachDone, Deliver, IInv, TypeOK, AtWork, ResultTypes
<1> QED
  BY <1>4, <1>5, <1>6, <1>7, <1>8, <1>9, WorkReturn DEF ListPhases

\* A try statement ends: the exception that is pending is thrown again.
LEMMA LeaveTryInv ==
  ASSUME IInv, AtWork, top > 0, F.kind = "try", F.temps = 0, F.args = 0,
         NEW r \in ResultTypes \union {"uninit"}, NEW s, LeaveTry(r, s), s = F.spb,
         rec' \in Nat, InnermostIn(frames, rec', top - 1), UNCHANGED <<mode, topEnv, exc>>
  PROVE  IInv'
<1>1. /\ F \in Frame /\ Shaped(F) /\ top > 1 /\ Caller \in Frame /\ Shaped(Caller)
      /\ Continues(Caller, F) /\ top \in Nat /\ Good(frames, top) /\ jmp = 0
      /\ MaxFrames \in Nat /\ top <= MaxFrames
  BY NewestFrame, EnteredFrom DEF F, Caller, Sessions, Depth, AtWork
<1>2. /\ Caller.phase \in ListPhases /\ Caller.temps = 0 /\ F.spb = Caller.spb + Held(Caller)
      /\ F.env = Caller.env
  <2>1. Caller.phase \in ListPhases /\ Caller.temps = 0 /\ StartsAbove(Caller, F) /\ F.env = Caller.env
    BY <1>1 DEF Continues, Calls, ListPhases
  <2> QED
    BY <1>1, <2>1, HeldType DEF StartsAbove, Frame
<1>3. FitsBelow(Caller) /\ ReturnTo(Caller) /\ topEnv' = Caller.env /\ sp' = Caller.spb + Held(Caller)
  BY <1>1, <1>2 DEF FitsBelow, LeaveTry, AtWork
<1>4. Caller.phase \notin {"reporting", "reported"}
  BY <1>2 DEF ListPhases
<1>5. CASE jmp' = F.recb /\ res' = "run"
  <2>1. F.recb \in Nat /\ InnermostIn(frames, F.recb, top - 1)
    BY <1>1 DEF Good, F, Frame
  <2>2. rec' \in 0 .. MaxFrames /\ sp' \in Nat
    BY <1>1, <1>3, HeldType DEF InnermostIn, Frame
  <2> QED
    BY <1>1, <1>3, <1>4, <1>5, <2>1, <2>2, ThrowReturn
<1>6. CASE jmp' = 0 /\ res' \in ResultTypes \union {"run"}
  BY <1>1, <1>2, <1>3, <1>4, <1>6, WorkReturn
<1> QED
  BY <1>1, <1>5, <1>6 DEF LeaveTry, OuterHandler, LongJump, Deliver, ResultTypes

LEMMA TryDoneInv == ASSUME IInv, TryDone PROVE IInv'
<1>1. /\ AtWork /\ top > 0 /\ F \in Frame /\ Shaped(F) /\ sp \in Nat /\ top \in Nat /\ F.temps = 0
      /\ F.phase \in {"try", "catch"} /\ res \in ResultTypes /\ Good(frames, top)
  BY WorkFacts, NewestFrame DEF TryDone, ListEnded, IInv, TypeOK, Registers
<1>2. F.kind = "try" /\ F.args = 0
  BY <1>1 DEF Shaped, PhasesOf, Frame, Kinds
<1>3. ShrunkAfterCatch = F.spb
  BY <1>1, <1>2 DEF ShrunkAfterCatch, Held, AtWork, Frame
<1>4. rec' = F.recb /\ F.recb \in Nat /\ InnermostIn(frames, F.recb, top - 1)
  BY <1>1, <1>2 DEF TryDone, RestoreHandler, Good, F, Frame
<1>5. UNCHANGED <<mode, topEnv, exc>>
  BY DEF TryDone
<1>6. CASE LeaveTry(res, ShrunkAfterCatch)
  BY <1>1, <1>2, <1>3, <1>4, <1>5, <1>6, LeaveTryInv
<1>7. CASE /\ Become([F EXCEPT !.phase = "finally", !.result = res])
           /\ sp' = ShrunkAfterCatch /\ res' = "run" /\ UNCHANGED jmp
  <2> DEFINE f == [F EXCEPT !.phase = "finally", !.result = res]
  <2>1. /\ f \in Frame /\ f.phase = "finally" /\ f.kind = "try" /\ f.spb = F.spb /\ f.own = F.own
        /\ f.env = F.env /\ f.recb = F.recb /\ f.temps = 0 /\ f.args = 0
    BY <1>1, <1>2 DEF Frame, Phases
  <2>2. SameActivation(f) /\ ~Armed(f)
    BY <1>1, <1>2, <2>1 DEF SameActivation, Shaped, PhasesOf, Armed, Sessions
  <2>3. Held(f) = 0
    BY <2>1 DEF Held
  <2>4. /\ F' = f /\ frames' \in [Depth -> Frame] /\ Chain(frames, top)'
        /\ top' = top /\ frames' = [frames EXCEPT ![top] = f]
    BY <1>1, <1>7, <2>2, ChangeNewest DEF Become
  <2>5. /\ MaxFrames \in Nat /\ top \in Depth /\ top \in Nat \ {0} /\ frames \in [Depth -> Frame]
    BY <1>1, NewestFrame DEF IInv, TypeOK
  <2>6. InnermostIn(frames', rec', top')
    <3>1. \A m \in 1 .. top - 1 : frames'[m] = frames[m]
      BY <2>4, <2>5 DEF Depth
    <3>2. ~Armed(frames'[top])
      BY <2>2, <2>4 DEF F
    <3>3. InnermostIn(frames', rec', top - 1)
      BY <1>4, <2>5, <3>1 DEF InnermostIn
    <3> QED
      BY <2>4, <2>5, <3>2, <3>3, InnermostBelow
  <2>7. AtWork'
    <3>1. sp' = F'.spb + Held(F)' /\ topEnv' = F'.env
      <4>1. sp' = f.spb + Held(f) /\ topEnv' = f.env
        BY <1>1, <1>3, <1>5, <1>7, <2>1, <2>3 DEF AtWork, Frame
      <4> QED
        BY <2>4, <4>1 DEF Held
    <3> QED
      BY <1>1, <1>5, <1>7, <2>1, <2>4, <2>6, <3>1 DEF AtWork, Depth
  <2>8. TypeOK'
    <3>1. sp' \in Nat /\ rec' \in 0 .. MaxFrames
      BY <1>1, <1>3, <1>4, <1>7, <2>4, <2>5, <2>6 DEF Frame, InnermostIn, Depth
    <3> QED
      BY <1>5, <1>7, <2>4, <3>1 DEF IInv, TypeOK
  <2> QED
    BY <1>7, <2>4, <2>5, <2>7, <2>8, WorkRegisters
<1> QED
  BY <1>6, <1>7 DEF TryDone

LEMMA FinallyDoneInv == ASSUME IInv, FinallyDone PROVE IInv'
<1>1. /\ AtWork /\ top > 0 /\ F \in Frame /\ Shaped(F) /\ sp \in Nat /\ top \in Nat \ {0}
      /\ F.temps = 0 /\ F.phase = "finally" /\ rec \in Nat
  BY WorkFacts DEF FinallyDone, ListEnded, IInv, TypeOK, Registers
<1>2. F.kind = "try" /\ F.args = 0
  BY <1>1 DEF Shaped, PhasesOf, Frame, Kinds
<1>3. sp = F.spb
  BY <1>1, <1>2 DEF Held, AtWork, Frame
<1>4. rec' \in Nat /\ InnermostIn(frames, rec', top - 1)
  <2>1. ~Armed(frames[top])
    BY <1>1, <1>2 DEF Armed, F
  <2> QED
    BY <1>1, <2>1, InnermostBelow DEF AtWork, FinallyDone
<1>5. F.result \in ResultTypes \union {"uninit"}
  BY <1>1 DEF Frame
<1> QED
  BY <1>1, <1>2, <1>3, <1>4, <1>5, LeaveTryInv DEF FinallyDone

LEMMA ReportDoneInv == ASSUME IInv, ReportDone PROVE IInv'
<1> DEFINE f == [Caller EXCEPT !.phase = "reported"]
<1>1. /\ top > 0 /\ F \in Frame /\ Shaped(F) /\ top \in Nat \ {0} /\ top \in Depth /\ F.kind = "report"
      /\ res = "run" /\ jmp = 0 /\ topEnv = F.env /\ MaxFrames \in Nat
  BY NewestFrame DEF ReportDone, Running
<1>2. /\ top > 1 /\ Caller \in Frame /\ Shaped(Caller) /\ Continues(Caller, F)
      /\ top - 1 \in Depth
  BY <1>1, EnteredFrom DEF F, Caller, Sessions
<1>3. Caller.phase = "reporting" /\ F.env = Caller.env
  BY <1>1, <1>2 DEF Continues, Calls
<1>4. f \in Frame /\ f.phase = "reported"
  BY <1>2 DEF Frame, Phases
<1>5. Caller.kind \in {"compile", "interpret", "report"}
  BY <1>2, <1>3 DEF Shaped, PhasesOf, Frame, Kinds
<1>6. f.kind = Caller.kind /\ f.spb = Caller.spb /\ f.own = Caller.own /\ f.temps = Caller.temps
      /\ f.env = Caller.env /\ f.recb = Caller.recb /\ f.args = Caller.args
  BY <1>2 DEF Frame
<1>7. Shaped(f) /\ (Armed(f) <=> Armed(Caller))
  BY <1>2, <1>3, <1>4, <1>5, <1>6 DEF Shaped, PhasesOf, Armed, Calls
<1>8. /\ ReturnTo(f) /\ top' = top - 1 /\ jmp' = 0 /\ res' = "run"
      /\ UNCHANGED <<mode, rec, sp, topEnv, exc>>
  BY <1>1 DEF ReportDone, ReturnTo
<1> HIDE DEF f
<1>9. F' = f /\ frames' \in [Depth -> Frame] /\ Chain(frames, top)'
  BY <1>2, <1>4, <1>6, <1>7, <1>8, DropNewest
<1>10. TypeOK'
  BY <1>1, <1>8, <1>9 DEF IInv, TypeOK
<1>11. Registers'
  BY <1>1, <1>2, <1>3, <1>4, <1>6, <1>8, <1>9 DEF IInv, Registers, RecoveryIsInnermost
<1> QED
  BY <1>9, <1>10, <1>11 DEF IInv

-----------------------------------------------------------------------------
(* Sessions.                                                               *)

\* A session that the program is in is its only activation.
LEMMA SessionEnds ==
  ASSUME IInv, F.kind \in Sessions, top > 0, Drop, mode' \in {"ready", "done"},
         sp' \in Nat, exc' \in Values, res' = "run", jmp' = 0, UNCHANGED <<rec, topEnv>>
  PROVE  IInv'
<1>1. /\ top \in Nat \ {0} /\ top \in Depth /\ Good(frames, top) /\ topEnv = F.env
      /\ frames \in [Depth -> Frame] /\ MaxFrames \in Nat
  BY NewestFrame DEF IInv, TypeOK
<1>2. top = 1 /\ topEnv = 0
  BY <1>1 DEF Good, Continues, F
<1>3. top' = 0 /\ Chain(frames, top)'
  BY <1>2 DEF Drop, Chain
<1>4. frames' \in [Depth -> Frame]
  BY <1>1, NoFrameType DEF Drop
<1>5. TypeOK'
  BY <1>1, <1>3, <1>4 DEF IInv, TypeOK
<1>6. Registers'
  BY <1>2, <1>3 DEF Registers, RecoveryIsInnermost
<1> QED
  BY <1>3, <1>5, <1>6 DEF IInv

LEMMA CompileDoneInv == ASSUME IInv, CompileDone PROVE IInv'
<1>1. F.kind \in Sessions
  BY NewestFrame DEF CompileDone, Running, Shaped, PhasesOf, Sessions, Frame, Kinds
<1> QED
  BY <1>1, SessionEnds DEF CompileDone, Running, IInv, TypeOK

LEMMA InterpretDoneInv == ASSUME IInv, InterpretDone PROVE IInv'
BY SessionEnds DEF InterpretDone, ListEnded, IInv, TypeOK, Sessions

LEMMA SessionFailedInv == ASSUME IInv, SessionFailed PROVE IInv'
BY SessionEnds, ValuesAssumption DEF SessionFailed, Running, Sessions

LEMMA SessionBegins ==
  ASSUME IInv, top = 0, jmp = 0, NEW kind \in Sessions, NEW phase \in PhasesOf(kind) \ {"reporting", "reported"},
         mode' \in {"compiling", "interpreting"}, rec' = top + 1,
         Enter([NoFrame EXCEPT !.kind = kind, !.phase = phase, !.spb = sp]),
         UNCHANGED <<sp, topEnv, exc, jmp, res>>
  PROVE  IInv'
<1> DEFINE g == [NoFrame EXCEPT !.kind = kind, !.phase = phase, !.spb = sp]
<1>1. sp \in Nat /\ topEnv = 0 /\ res = "run" /\ frames \in [Depth -> Frame]
      /\ MaxFrames \in Nat /\ MaxFrames >= 4
  BY BoundsAssumption DEF IInv, TypeOK, Registers, ResultTypes
<1>2. g.kind = kind /\ g.phase = phase /\ g.spb = sp /\ g.env = 0 /\ g.temps = 0 /\ g.args = 0
  BY DEF NoFrame
<1>3. g \in Frame
  <2>1. kind \in Kinds /\ phase \in Phases
    BY DEF Sessions, PhasesOf, Kinds, Phases
  <2> QED
    BY <1>1, <2>1, NoFrameType, Zenon DEF Frame
<1>4. top' = 1 /\ frames' \in [Depth -> Frame] /\ frames'[1] = g
  BY <1>1, <1>3 DEF Enter, Depth
<1> HIDE DEF g
<1>5. Shaped(g) /\ Armed(g) /\ phase \in {"parse", "run"}
  BY <1>2, <1>3 DEF Shaped, Sessions, PhasesOf, Armed
<1>6. Held(g) = 0
  BY <1>2, <1>5 DEF Held
<1>7. Chain(frames, top)'
  BY <1>2, <1>4, <1>5 DEF Chain, Good, InnermostIn, Sessions, Calls
<1>8. AtWork'
  <2>1. F' = g
    BY <1>4 DEF F
  <2>2. sp' = F'.spb + Held(F)' /\ topEnv' = F'.env
    BY <1>1, <1>2, <1>6, <2>1 DEF Held
  <2>3. InnermostIn(frames, rec, top)'
    BY <1>4, <1>5 DEF InnermostIn
  <2> QED
    BY <1>1, <1>2, <1>4, <1>5, <2>1, <2>2, <2>3 DEF AtWork, Depth
<1>9. TypeOK'
  BY <1>1, <1>4 DEF IInv, TypeOK
<1> QED
  BY <1>1, <1>7, <1>8, <1>9, WorkRegisters

LEMMA CompileInv == ASSUME IInv, Compile PROVE IInv'
<1>1. top = 0
  BY DEF Compile, IInv, Registers
<1>2. jmp = 0
  BY <1>1 DEF IInv, Registers, RecoveryIsInnermost, Innermost, InnermostIn
<1>3. "compile" \in Sessions /\ "parse" \in PhasesOf("compile") \ {"reporting", "reported"}
  BY DEF Sessions, PhasesOf
<1> QED
  BY <1>1, <1>2, <1>3, SessionBegins DEF Compile

LEMMA InterpretInv == ASSUME IInv, Interpret PROVE IInv'
<1>1. top = 0
  BY DEF Interpret, IInv, Registers
<1>2. jmp = 0
  BY <1>1 DEF IInv, Registers, RecoveryIsInnermost, Innermost, InnermostIn
<1>3. "interpret" \in Sessions /\ "run" \in PhasesOf("interpret") \ {"reporting", "reported"}
  BY DEF Sessions, PhasesOf
<1> QED
  BY <1>1, <1>2, <1>3, SessionBegins DEF Interpret

LEMMA SetCommandLineArgsInv == ASSUME IInv, SetCommandLineArgs PROVE IInv'
<1>1. top = 0 /\ Chain(frames, top)'
  BY DEF SetCommandLineArgs, IInv, Registers, Chain
<1>2. TypeOK'
  BY DEF SetCommandLineArgs, IInv, TypeOK
<1>3. Registers'
  BY <1>1 DEF SetCommandLineArgs, IInv, Registers, RecoveryIsInnermost, F, Innermost, InnermostIn
<1> QED
  BY <1>1, <1>2, <1>3 DEF IInv

LEMMA StackOverflowInv == ASSUME IInv, StackOverflow PROVE IInv'
<1>1. Chain(frames, top)'
  BY DEF StackOverflow, IInv, Chain, Good, InnermostIn
<1>2. TypeOK'
  BY DEF StackOverflow, IInv, TypeOK
<1>3. Registers'
  BY DEF StackOverflow, IInv, Registers, RecoveryIsInnermost, F, Held, Innermost, InnermostIn
<1> QED
  BY <1>1, <1>2, <1>3 DEF IInv

-----------------------------------------------------------------------------
(* Landing.                                                                *)

LEMMA JumpFacts ==
  ASSUME IInv, jmp > 0
  PROVE  /\ top \in Nat \ {0} /\ top \in Depth /\ jmp \in 1 .. top /\ jmp \in Depth
         /\ MaxFrames \in Nat /\ frames \in [Depth -> Frame]
         /\ Armed(frames[jmp]) /\ Good(frames, jmp) /\ Shaped(frames[jmp]) /\ frames[jmp] \in Frame
         /\ topEnv = frames[jmp].env /\ res = "run"
         /\ mode \in {"compiling", "interpreting", "overflow"}
<1>1. jmp \in Nat /\ top \in Nat /\ top <= MaxFrames /\ MaxFrames \in Nat /\ frames \in [Depth -> Frame]
  BY BoundsAssumption DEF IInv, TypeOK
<1>2. InnermostIn(frames, jmp, top)
  BY <1>1 DEF IInv, Registers, RecoveryIsInnermost, Innermost
<1>3. jmp \in 1 .. top /\ Armed(frames[jmp])
  BY <1>2 DEF InnermostIn
<1>4. Good(frames, jmp) /\ Good(frames, top)
  BY <1>1, <1>3 DEF IInv, Chain
<1>5. topEnv = frames[top].env
  BY <1>1, <1>3 DEF IInv, Registers, F
<1>6. topEnv = frames[jmp].env
  BY <1>2, <1>3, <1>4, <1>5 DEF Good
<1>7. res = "run" /\ mode \in {"compiling", "interpreting", "overflow"}
  BY <1>1, <1>3 DEF IInv, Registers, TypeOK
<1>8. Shaped(frames[jmp]) /\ frames[jmp] \in Frame
  BY <1>4 DEF Good, Shaped
<1> QED
  BY <1>1, <1>3, <1>4, <1>6, <1>7, <1>8 DEF Depth

LEMMA CutFrames ==
  ASSUME NEW k \in Depth, NEW f \in Frame, frames \in [Depth -> Frame], CutTo(k, f), MaxFrames \in Nat
  PROVE  /\ top' = k /\ frames' \in [Depth -> Frame] /\ frames'[k] = f
         /\ \A m \in 1 .. k - 1 : frames'[m] = frames[m]
BY NoFrameType DEF CutTo, Depth

LEMMA LandInCallInv == ASSUME IInv, LandInCall PROVE IInv'
<1> DEFINE k == jmp - 1
<1>1. jmp > 0 /\ frames[jmp].kind \in Calls
  BY DEF LandInCall, Calls
<1>2. /\ top \in Nat \ {0} /\ jmp \in 1 .. top /\ MaxFrames \in Nat /\ frames \in [Depth -> Frame]
      /\ Good(frames, jmp) /\ topEnv = frames[jmp].env /\ res = "run" /\ frames[jmp] \in Frame
      /\ mode \in {"compiling", "interpreting", "overflow"}
  BY <1>1, JumpFacts
<1>3. /\ k \in Nat \ {0} /\ k \in Depth /\ k \in 0 .. top /\ frames[k] \in Frame
      /\ Continues(frames[k], frames[jmp])
  <2>1. frames[jmp].kind \notin Sessions
    BY <1>1 DEF Calls, Sessions
  <2> QED
    BY <1>2, <2>1, EnteredFrom
<1>4. frames[k].phase # "reporting" /\ frames[jmp].env = frames[k].env + 1
  BY <1>1, <1>3 DEF Continues, Calls
<1>5. InnermostIn(frames, frames[jmp].recb, k) /\ frames[jmp].recb \in Nat
  BY <1>1, <1>2 DEF Good, Frame
<1>6. CutTo(k, frames[k]) /\ jmp' = frames[jmp].recb /\ sp' = frames[jmp].spb
      /\ topEnv' = topEnv - 1 /\ UNCHANGED <<mode, rec, exc, res>>
  BY DEF LandInCall, DisposeEnvironment, LongJump, OuterHandler
<1> HIDE DEF k
<1>7. /\ top' = k /\ frames' \in [Depth -> Frame] /\ frames'[k] = frames[k]
      /\ \A m \in 1 .. k - 1 : frames'[m] = frames[m]
  BY <1>2, <1>3, <1>6, CutFrames
<1>8. \A m \in 1 .. k : frames'[m] = frames[m]
  BY <1>3, <1>7
<1>9. Chain(frames, top)'
  <2>1. Chain(frames', k)
    BY <1>2, <1>3, <1>8, ChainCut DEF IInv
  <2> QED
    BY <1>7, <2>1
<1>10. InnermostIn(frames', jmp', top')
  <2>1. InnermostIn(frames', frames[jmp].recb, k)
    BY <1>3, <1>5, <1>8 DEF InnermostIn
  <2> QED
    BY <1>6, <1>7, <2>1
<1>11. F' = frames[k] /\ topEnv' = frames[k].env
  BY <1>2, <1>3, <1>4, <1>6, <1>7 DEF F, Frame
<1>12. jmp' \in 1 .. top' /\ top' \in Depth
  BY <1>3, <1>7, <1>10 DEF InnermostIn
<1>13. TypeOK'
  <2>1. jmp' \in 0 .. MaxFrames /\ top' \in 0 .. MaxFrames /\ sp' \in Nat /\ topEnv' \in Nat
    <3>1. sp' \in Nat /\ topEnv' \in Nat
      BY <1>2, <1>3, <1>6, <1>11 DEF Frame
    <3>2. top' \in 0 .. MaxFrames /\ jmp' \in 0 .. MaxFrames
      BY <1>2, <1>12 DEF Depth
    <3> QED
      BY <3>1, <3>2
  <2> QED
    BY <1>6, <1>7, <2>1 DEF IInv, TypeOK
<1> QED
  BY <1>2, <1>4, <1>6, <1>9, <1>10, <1>11, <1>12, <1>13, JumpRegisters DEF Depth

LEMMA LandInTryInv == ASSUME IInv, LandInTry PROVE IInv'
<1> DEFINE f == [frames[jmp] EXCEPT !.caught = exc]
<1> DEFINE g == [f EXCEPT !.phase = IF f.catch THEN "catch" ELSE "finally", !.temps = 0]
<1>1. jmp > 0 /\ frames[jmp].kind = "try"
  BY DEF LandInTry
<1>2. /\ top \in Nat \ {0} /\ jmp \in 1 .. top /\ MaxFrames \in Nat /\ frames \in [Depth -> Frame]
      /\ Good(frames, jmp) /\ topEnv = frames[jmp].env /\ res = "run" /\ frames[jmp] \in Frame
      /\ mode \in {"compiling", "interpreting", "overflow"} /\ jmp \in Depth
      /\ Armed(frames[jmp]) /\ Shaped(frames[jmp])
  BY <1>1, JumpFacts
<1>3. exc \in Values /\ NullValue \in Values
  BY ValuesAssumption DEF IInv, TypeOK
<1>4. /\ f \in Frame /\ f.kind = "try" /\ f.spb = frames[jmp].spb /\ f.own = frames[jmp].own
      /\ f.env = frames[jmp].env /\ f.recb = frames[jmp].recb /\ f.args = frames[jmp].args
      /\ f.catch = frames[jmp].catch
  BY <1>1, <1>2, <1>3 DEF Frame
<1>5. frames[jmp].args = 0
  BY <1>1, <1>2 DEF Shaped, PhasesOf, Frame
<1>6. CutTo(jmp, g) /\ CatchStack(f) /\ ClearedIfCaught(f) /\ RestoreHandler(f)
      /\ jmp' = 0 /\ UNCHANGED <<mode, topEnv, res>>
  BY DEF LandInTry
<1> HIDE DEF f
<1>7. /\ g \in Frame /\ g.kind = "try" /\ g.spb = f.spb /\ g.own = f.own /\ g.env = f.env
      /\ g.recb = f.recb /\ g.args = f.args /\ g.temps = 0
      /\ g.phase = (IF f.catch THEN "catch" ELSE "finally")
  BY <1>4 DEF Frame, Phases
<1> HIDE DEF g
<1>8. Shaped(g) /\ ~Armed(g)
  BY <1>4, <1>5, <1>7 DEF Shaped, PhasesOf, Armed, Sessions
<1>9. Held(g) = (IF f.catch THEN 1 ELSE 0)
  BY <1>4, <1>5, <1>7 DEF Held
<1>10. /\ top' = jmp /\ frames' \in [Depth -> Frame] /\ frames'[jmp] = g
       /\ \A m \in 1 .. jmp - 1 : frames'[m] = frames[m]
  BY <1>2, <1>6, <1>7, CutFrames
<1>11. Chain(frames', jmp)
  <2>1. Chain(frames, jmp)
    <3>1. jmp \in 0 .. top
      BY <1>2
    <3> QED
      BY <1>2, <3>1, ChainCut DEF IInv
  <2> QED
    BY <1>1, <1>2, <1>4, <1>7, <1>8, <1>10, <2>1, ChainChange
<1>12. InnermostIn(frames', rec', top')
  <2>1. rec' = frames[jmp].recb /\ InnermostIn(frames, frames[jmp].recb, jmp - 1)
    BY <1>1, <1>2, <1>4, <1>6 DEF Good, RestoreHandler
  <2>2. InnermostIn(frames', rec', jmp - 1)
    BY <1>2, <1>10, <2>1 DEF InnermostIn
  <2>3. jmp \in Nat \ {0} /\ ~Armed(frames'[jmp])
    BY <1>2, <1>8, <1>10
  <2> QED
    BY <1>10, <2>2, <2>3, InnermostBelow
<1>13. F' = g
  BY <1>10 DEF F
<1>14. sp' = g.spb + Held(g)
  BY <1>4, <1>6, <1>7, <1>9 DEF CatchStack, Frame
<1>15. AtWork'
  <2>1. sp' = F'.spb + Held(F)'
    BY <1>13, <1>14 DEF Held
  <2> QED
    BY <1>2, <1>4, <1>6, <1>7, <1>10, <1>12, <1>13, <2>1 DEF AtWork, Depth
<1>16. TypeOK'
  <2>1. sp' \in Nat
    BY <1>7, <1>14, HeldType DEF Frame
  <2>2. exc' \in Values
    BY <1>3, <1>6 DEF ClearedIfCaught
  <2>3. rec' \in 0 .. MaxFrames
    <3>1. rec' \in 1 .. top'
      BY <1>12 DEF InnermostIn
    <3> QED
      BY <1>2, <1>10, <3>1 DEF Depth
  <2> QED
    BY <1>2, <1>6, <1>10, <2>1, <2>2, <2>3 DEF IInv, TypeOK, Depth
<1> QED
  BY <1>2, <1>6, <1>10, <1>11, <1>15, <1>16, WorkRegisters

LEMMA LandInReportInv == ASSUME IInv, LandInReport PROVE IInv'
<1> DEFINE f == [frames[jmp] EXCEPT !.phase = "reporting"]
<1>1. /\ jmp > 0 /\ jmp < MaxFrames /\ frames[jmp].kind \in Sessions \union {"report"}
      /\ top' = jmp + 1 /\ rec' = jmp + 1 /\ jmp' = 0 /\ UNCHANGED <<mode, sp, topEnv, exc, res>>
  BY DEF LandInReport, Sessions
<1>2. /\ top \in Nat \ {0} /\ jmp \in 1 .. top /\ MaxFrames \in Nat /\ frames \in [Depth -> Frame]
      /\ Good(frames, jmp) /\ topEnv = frames[jmp].env /\ res = "run" /\ frames[jmp] \in Frame
      /\ mode \in {"compiling", "interpreting", "overflow"} /\ jmp \in Depth
      /\ Armed(frames[jmp]) /\ Shaped(frames[jmp])
  BY <1>1, JumpFacts
<1>3. sp \in Nat
  BY DEF IInv, TypeOK
<1>4. /\ f \in Frame /\ f.kind = frames[jmp].kind /\ f.spb = frames[jmp].spb
      /\ f.own = frames[jmp].own /\ f.env = frames[jmp].env /\ f.recb = frames[jmp].recb
      /\ f.args = frames[jmp].args /\ f.temps = frames[jmp].temps /\ f.phase = "reporting"
  BY <1>2 DEF Frame, Phases
<1>5. ReportFrame.kind = "report" /\ ReportFrame.phase = "print" /\ ReportFrame.spb = sp
      /\ ReportFrame.env = 0 /\ ReportFrame.temps = 0 /\ ReportFrame.args = 0
  BY DEF ReportFrame, NoFrame
<1>6. ReportFrame \in Frame
  <2>1. "report" \in Kinds /\ "print" \in Phases
    BY DEF Kinds, Phases
  <2> QED
    BY <1>3, <2>1, NoFrameType, Zenon DEF ReportFrame, Frame
<1>7. /\ frames' \in [Depth -> Frame] /\ frames'[jmp] = f /\ frames'[jmp + 1] = ReportFrame
      /\ \A m \in 1 .. jmp - 1 : frames'[m] = frames[m]
  <2>1. frames' = [i \in Depth |-> IF i < jmp THEN frames[i]
                                  ELSE IF i = jmp THEN f
                                  ELSE IF i = jmp + 1 THEN ReportFrame ELSE NoFrame]
    BY <1>2 DEF LandInReport
  <2>2. \A i \in Depth : frames[i] \in Frame
    BY <1>2
  <2>3. jmp + 1 \in Depth /\ \A m \in 1 .. jmp - 1 : m \in Depth /\ m < jmp
    BY <1>1, <1>2 DEF Depth
  <2> HIDE DEF f
  <2>4. frames' \in [Depth -> Frame]
    BY <1>4, <1>6, <2>1, <2>2, NoFrameType
  <2> QED
    BY <1>2, <2>1, <2>3, <2>4 DEF Depth
<1> HIDE DEF f
<1>8. frames[jmp].env = 0 /\ frames[jmp].args = 0
  BY <1>1, <1>2 DEF Shaped, PhasesOf, Sessions, Frame
<1>9. Shaped(f) /\ ~Armed(f)
  BY <1>1, <1>2, <1>4, <1>8 DEF Shaped, PhasesOf, Armed, Sessions
<1>10. Shaped(ReportFrame) /\ Armed(ReportFrame) /\ Held(ReportFrame) = 0
  BY <1>5, <1>6 DEF Shaped, PhasesOf, Armed, Sessions, Held
<1>11. Chain(frames', jmp)
  <2>1. Chain(frames, jmp)
    <3>1. jmp \in 0 .. top
      BY <1>2
    <3> QED
      BY <1>2, <3>1, ChainCut DEF IInv
  <2> QED
    BY <1>1, <1>2, <1>4, <1>7, <1>9, <2>1, ChainChange
<1>12. \A m \in 1 .. jmp : ~Armed(frames'[m])
  <2>1. \A m \in 1 .. jmp - 1 : ~Armed(frames[m])
    <3>1. CASE frames[jmp].kind = "report"
      BY <1>2, <3>1 DEF Good
    <3>2. CASE frames[jmp].kind \in Sessions
      BY <1>2, <3>2 DEF Good, Continues
    <3> QED
      BY <1>1, <3>1, <3>2
  <2> QED
    BY <1>2, <1>7, <1>9, <2>1
<1>13. Continues(f, ReportFrame)
  BY <1>4, <1>5, <1>8 DEF Continues, Calls, Sessions
<1>14. Chain(frames', jmp + 1)
  BY <1>2, <1>5, <1>7, <1>10, <1>11, <1>12, <1>13, ChainEnter DEF Calls
<1>15. F' = ReportFrame
  BY <1>1, <1>7 DEF F
<1>16. InnermostIn(frames', rec', top')
  BY <1>1, <1>2, <1>7, <1>10, NewHandler
<1>17. AtWork'
  <2>1. Held(F)' = 0 /\ F'.spb = sp /\ F'.env = 0 /\ F'.phase = "print"
    BY <1>5, <1>10, <1>15 DEF Held
  <2> QED
    BY <1>1, <1>2, <1>3, <1>8, <1>16, <2>1 DEF AtWork, Depth
<1>18. TypeOK'
  BY <1>1, <1>2, <1>7 DEF IInv, TypeOK
<1> QED
  BY <1>1, <1>2, <1>14, <1>17, <1>18, WorkRegisters

-----------------------------------------------------------------------------
(* The theorems.                                                           *)

LEMMA InitInv == Init => IInv
<1> SUFFICES ASSUME Init PROVE IInv
  OBVIOUS
<1>1. TypeOK
  BY NoFrameType, BoundsAssumption, ValuesAssumption DEF Init, TypeOK
<1>2. Chain(frames, top) /\ Registers
  BY DEF Init, Chain, Registers, RecoveryIsInnermost
<1> QED
  BY <1>1, <1>2 DEF IInv

LEMMA StutterInv == ASSUME IInv, UNCHANGED vars PROVE IInv'
<1>1. Chain(frames, top)' /\ Registers' /\ TypeOK'
  BY DEF IInv, vars, Chain, Good, InnermostIn, Registers, RecoveryIsInnermost, Innermost, F, Held,
         TypeOK
<1> QED
  BY <1>1 DEF IInv

LEMMA NextInv == IInv /\ [Next]_vars => IInv'
<1> SUFFICES ASSUME IInv, [Next]_vars PROVE IInv'
  OBVIOUS
<1>1. CASE Session
  BY <1>1, CompileInv, CompileDoneInv, SetCommandLineArgsInv, InterpretInv, InterpretDoneInv,
     SessionFailedInv, ReportDoneInv, StackOverflowInv DEF Session
<1>2. CASE Expression
  BY <1>2, PushOperandInv, PopOperandInv, CallExpressionInv, EnterBodyInv, CallFromCInv,
     ReturnFromCallInv DEF Expression
<1>3. CASE Statement
  BY <1>3, EndListInv, ReachedTopLevelInv, ForeachInv, ForeachIteratorInv, ForeachBodyInv,
     ForeachNextInv, ForeachDoneInv, TryInv, TryDoneInv, FinallyDoneInv DEF Statement
<1>4. CASE Raise
  BY <1>4, ThrowInv, RuntimeErrorInv, RaiseExceptionInv DEF Raise
<1>5. CASE Land
  BY <1>5, LandInCallInv, LandInTryInv, LandInReportInv DEF Land
<1>6. CASE UNCHANGED vars
  BY <1>6, StutterInv
<1> QED
  BY <1>1, <1>2, <1>3, <1>4, <1>5, <1>6 DEF Next, Exit

\* The inductive invariant holds in every behaviour.
THEOREM Invariance == Spec => []IInv
BY InitInv, NextInv, PTL DEF Spec

\* The C locals and the interpreter's fields keep their types: the value stack
\* and the environment chain never lose more than they hold (eval.c pop_value,
\* dispose_local_environment).
THEOREM TypeCorrectness == Spec => []TypeOK
<1>1. IInv => TypeOK
  BY DEF IInv
<1> QED
  BY <1>1, Invariance, PTL

\* current_recovery_environment is the innermost live handler whenever something
\* can be thrown, and a longjmp skips none (execute.c try, eval.c calls,
\* interface.c sessions).
THEOREM RecoveryPoint == Spec => []RecoveryIsInnermost
<1>1. IInv => RecoveryIsInnermost
  BY DEF IInv, Registers
<1> QED
  BY <1>1, Invariance, PTL

\* Every call disposes of the environment it has allocated (eval.c).
THEOREM Environments == Spec => []OwnEnvironment
<1>1. IInv => OwnEnvironment
  <2> SUFFICES ASSUME IInv PROVE OwnEnvironment
    OBVIOUS
  <2>1. jmp # 0 => jmp > 0
    BY DEF IInv, TypeOK
  <2> QED
    BY <2>1, JumpFacts DEF OwnEnvironment, IInv, Registers
<1> QED
  BY <1>1, Invariance, PTL

\* Each activation finds its own operands on top of the value stack, whatever
\* was thrown and caught above it (eval.c, execute.c).
THEOREM ExactStack == Spec => []StackIsExact
<1>1. IInv => StackIsExact
  <2> SUFFICES ASSUME IInv PROVE StackIsExact
    OBVIOUS
  <2>1. ASSUME NEW i \in 2 .. top, frames[i - 1].phase # "reporting"
        PROVE  StartsAbove(frames[i - 1], frames[i])
    <3>1. Good(frames, i) /\ i > 1
      BY <2>1 DEF IInv, Chain, TypeOK
    <3> QED
      BY <2>1, <3>1 DEF Good, Continues
  <2> QED
    BY <2>1 DEF StackIsExact, IInv, Registers
<1> QED
  BY <1>1, Invariance, PTL

-----------------------------------------------------------------------------
(* The exception that is current.                                          *)
(*                                                                         *)
(* exc outlives the longjmp only in a finally block that it has entered or *)
(* in the error report: some activation is there to use it (Kept).  When   *)
(* no try statement runs meanwhile, that activation is the only one to     *)
(* catch anything, so exc is still what it was entered with (Sole).        *)

\* f has current_exception still to use: a disjunct of ExceptionPending.
Pending(f) ==
  \/ f.phase = "finally" /\ ~f.catch /\ f.caught # NoValue
  \/ f.phase = "print"

\* What its setjmp has returned with is known to the block f runs.
Fresh(f) ==
  /\ f.phase = "try" => f.caught = NoValue
  /\ f.phase = "catch" => f.catch

Reports == {"printed", "reported"}

\* No try statement runs while an exception is pending, and none is null.
Orderly == ~TriesWhilePending /\ NullValue \notin Thrown \union Created

\* Frame i, which is pending, is the newest that has caught anything.
Sole(fr, i, n, e, j) ==
  /\ \A m \in i + 1 .. n : fr[m].kind \notin {"try", "report"}
  /\ fr[i].phase = "finally" => fr[i].caught # NullValue /\ (j = 0 => e = fr[i].caught)

Kept(fr, n, e, j) ==
  /\ \A i \in 1 .. n : Fresh(fr[i])
  /\ j = 0 /\ e # NullValue => \/ \E i \in 1 .. n : Pending(fr[i])
                               \/ n > 0 /\ fr[n].phase \in Reports
  /\ Orderly => /\ j # 0 => e # NullValue
                /\ \A i \in 1 .. n : Pending(fr[i]) => Sole(fr, i, n, e, j)

\* The value stack is empty where the session begins.
Base ==
  ~BadArguments => /\ top = 0 => sp = 0
                   /\ top > 0 => frames[1].spb = 0

Accounted == Kept(frames, top, exc, jmp) /\ Base

\* g goes on for f and is pending only if f is.
Turns(f, g) ==
  /\ g.kind = f.kind /\ g.spb = f.spb
  /\ Fresh(f) => Fresh(g)
  /\ Pending(g) => Pending(f) /\ g.caught = f.caught /\ g.phase = f.phase

Resembles(f, g) == Turns(f, g) /\ (Pending(f) => Pending(g))

LEMMA KeptGoingOn ==
  ASSUME NEW fr, NEW fr2, NEW n \in Nat \ {0}, NEW e,
         \A m \in 1 .. n - 1 : fr2[m] = fr[m], Resembles(fr[n], fr2[n]),
         fr[n].phase \notin Reports, Kept(fr, n, e, 0)
  PROVE  Kept(fr2, n, e, 0)
<1>1. ASSUME NEW m \in 1 .. n PROVE Resembles(fr[m], fr2[m])
  <2>1. CASE m = n
    BY <2>1
  <2>2. CASE m \in 1 .. n - 1
    BY <2>2 DEF Resembles, Turns
  <2> QED
    BY <2>1, <2>2
<1>2. \A i \in 1 .. n : Fresh(fr2[i])
  BY <1>1 DEF Resembles, Turns, Kept
<1>3. e # NullValue => \E i \in 1 .. n : Pending(fr2[i])
  BY <1>1 DEF Resembles, Kept
<1>4. ASSUME Orderly, NEW i \in 1 .. n, Pending(fr2[i]) PROVE Sole(fr2, i, n, e, 0)
  <2>1. Sole(fr, i, n, e, 0) /\ fr2[i].caught = fr[i].caught /\ fr2[i].phase = fr[i].phase
    BY <1>1, <1>4 DEF Resembles, Turns, Kept
  <2>2. \A m \in i + 1 .. n : fr2[m].kind = fr[m].kind
    BY <1>1 DEF Resembles, Turns
  <2> QED
    BY <2>1, <2>2 DEF Sole
<1> QED
  BY <1>2, <1>3, <1>4 DEF Kept

LEMMA KeptEntering ==
  ASSUME NEW fr, NEW n \in Nat \ {0}, NEW e,
         Kept(fr, n, e, 0), fr[n].phase \notin Reports,
         Fresh(fr[n + 1]), ~Pending(fr[n + 1]),
         Orderly => \/ fr[n + 1].kind \notin {"try", "report"}
                    \/ \A i \in 1 .. n : ~Pending(fr[i])
  PROVE  Kept(fr, n + 1, e, 0)
<1>1. \A i \in 1 .. n + 1 : Fresh(fr[i])
  BY DEF Kept
<1>2. e # NullValue => \E i \in 1 .. n + 1 : Pending(fr[i])
  BY DEF Kept
<1>3. ASSUME Orderly, NEW i \in 1 .. n + 1, Pending(fr[i]) PROVE Sole(fr, i, n + 1, e, 0)
  <2>1. i \in 1 .. n
    BY <1>3
  <2>2. Sole(fr, i, n, e, 0) /\ fr[n + 1].kind \notin {"try", "report"}
    BY <1>3, <2>1 DEF Kept
  <2> QED
    BY <2>1, <2>2 DEF Sole
<1> QED
  BY <1>1, <1>2, <1>3 DEF Kept

\* What returns uses the exception up, or an activation below it still has it.
LEMMA KeptReturning ==
  ASSUME NEW fr, NEW fr2, NEW n \in Nat, n > 1, NEW e,
         \A m \in 1 .. n - 2 : fr2[m] = fr[m], Turns(fr[n - 1], fr2[n - 1]),
         e # NullValue =>
           \/ fr2[n - 1].phase \in Reports
           \/ /\ ~Pending(fr[n]) /\ fr[n].phase \notin Reports
              /\ Pending(fr[n - 1]) => Pending(fr2[n - 1]),
         Kept(fr, n, e, 0)
  PROVE  Kept(fr2, n - 1, e, 0)
<1>1. ASSUME NEW m \in 1 .. n - 1 PROVE Turns(fr[m], fr2[m])
  <2>1. CASE m = n - 1
    BY <2>1
  <2>2. CASE m \in 1 .. n - 2
    BY <2>2 DEF Turns
  <2> QED
    BY <2>1, <2>2
<1>2. \A i \in 1 .. n - 1 : Fresh(fr2[i])
  BY <1>1 DEF Turns, Kept
<1>3. e # NullValue => \/ \E i \in 1 .. n - 1 : Pending(fr2[i])
                       \/ fr2[n - 1].phase \in Reports
  <2> SUFFICES ASSUME e # NullValue, fr2[n - 1].phase \notin Reports
               PROVE  \E i \in 1 .. n - 1 : Pending(fr2[i])
    OBVIOUS
  <2>1. PICK i \in 1 .. n : Pending(fr[i])
    BY DEF Kept
  <2>2. i \in 1 .. n - 1
    BY <2>1
  <2>3. CASE i = n - 1
    BY <2>1, <2>2, <2>3
  <2>4. CASE i \in 1 .. n - 2
    BY <2>1, <2>2, <2>4
  <2> QED
    BY <2>2, <2>3, <2>4
<1>4. ASSUME Orderly, NEW i \in 1 .. n - 1, Pending(fr2[i]) PROVE Sole(fr2, i, n - 1, e, 0)
  <2>1. Sole(fr, i, n, e, 0) /\ fr2[i].caught = fr[i].caught /\ fr2[i].phase = fr[i].phase
    BY <1>1, <1>4 DEF Turns, Kept
  <2>2. \A m \in i + 1 .. n - 1 : fr2[m].kind = fr[m].kind
    BY <1>1 DEF Turns
  <2> QED
    BY <2>1, <2>2 DEF Sole
<1> QED
  BY <1>2, <1>3, <1>4 DEF Kept

\* Something is thrown, by one of the activations up to k.
LEMMA KeptThrowing ==
  ASSUME NEW fr, NEW fr2, NEW n \in Nat, NEW k \in 0 .. n, NEW e, NEW e2, NEW j, NEW j2, j2 # 0,
         \A m \in 1 .. k : fr2[m] = fr[m], Orderly => e2 # NullValue, Kept(fr, n, e, j)
  PROVE  Kept(fr2, k, e2, j2)
<1>1. ASSUME Orderly, NEW i \in 1 .. k, Pending(fr2[i]) PROVE Sole(fr2, i, k, e2, j2)
  <2>1. Sole(fr, i, n, e, j) /\ fr2[i] = fr[i] /\ \A m \in i + 1 .. k : fr2[m] = fr[m]
    BY <1>1 DEF Kept
  <2> QED
    BY <2>1 DEF Sole
<1>2. \A i \in 1 .. k : Fresh(fr2[i])
  BY DEF Kept
<1> QED
  BY <1>1, <1>2 DEF Kept

\* longjmp lands in frame k, which is then the newest to catch anything; when it
\* reports, that is the one entered from it, n2.
LEMMA KeptLanding ==
  ASSUME NEW fr, NEW fr2, NEW n \in Nat, NEW k \in 1 .. n, NEW e, NEW e2, NEW j, j # 0,
         NEW n2 \in {k, k + 1},
         Kept(fr, n, e, j),
         k = 1 \/ fr[k].kind \in {"try", "report"},
         \A m \in 1 .. k - 1 : fr2[m] = fr[m],
         \A m \in k .. n2 : Fresh(fr2[m]),
         \A m \in k .. n2 - 1 : ~Pending(fr2[m]),
         e2 # NullValue => Pending(fr2[n2]),
         Pending(fr2[n2]) /\ fr2[n2].phase = "finally" => fr2[n2].caught = e /\ e2 = e
  PROVE  Kept(fr2, n2, e2, 0)
<1>1. ASSUME NEW i \in 1 .. n2 PROVE Fresh(fr2[i])
  BY DEF Kept
<1>2. e2 # NullValue => \E i \in 1 .. n2 : Pending(fr2[i])
  BY n2 \in 1 .. n2
<1>3. ASSUME Orderly, NEW i \in 1 .. n2, Pending(fr2[i]) PROVE Sole(fr2, i, n2, e2, 0)
  <2>1. CASE i < k
    <3>1. i \in 1 .. k - 1 /\ k # 1 /\ i \in 1 .. n /\ k \in i + 1 .. n
      BY <2>1
    <3>2. Sole(fr, i, n, e, j)
      BY <1>3, <3>1 DEF Kept
    <3> QED
      BY <3>1, <3>2 DEF Sole
  <2>2. CASE i \in k .. n2 - 1
    BY <1>3, <2>2
  <2>3. CASE i = n2
    BY <1>3, <2>3 DEF Sole, Kept
  <2> QED
    BY <2>1, <2>2, <2>3
<1> QED
  BY <1>1, <1>2, <1>3 DEF Kept

-----------------------------------------------------------------------------
(* The steps, once more.                                                   *)

LEMMA FrameArray ==
  ASSUME IInv, top > 0
  PROVE  /\ top \in Nat \ {0} /\ top \in Depth /\ frames \in [Depth -> Frame]
         /\ MaxFrames \in Nat /\ F \in Frame /\ Shaped(F) /\ F = frames[top]
BY NewestFrame DEF IInv, TypeOK, F

LEMMA GoesOn ==
  ASSUME IInv, Accounted, top > 0, jmp = 0, F.phase \notin Reports, NEW f \in Frame, Become(f),
         Resembles(F, f), UNCHANGED <<exc, jmp>>
  PROVE  Accounted'
<1>1. /\ top \in Nat \ {0} /\ top \in Depth /\ frames \in [Depth -> Frame] /\ MaxFrames \in Nat
      /\ F = frames[top]
  BY FrameArray
<1>2. /\ top' = top /\ frames'[top] = f /\ \A m \in 1 .. top - 1 : frames'[m] = frames[m]
  BY <1>1 DEF Become, Depth
<1>3. Kept(frames', top, exc, 0)
  BY <1>1, <1>2, KeptGoingOn DEF Accounted
<1>4. frames'[1].spb = frames[1].spb
  <2>1. CASE top = 1
    BY <1>1, <1>2, <2>1 DEF Resembles, Turns
  <2>2. CASE top # 1
    BY <1>1, <1>2, <2>2
  <2> QED
    BY <2>1, <2>2
<1> QED
  BY <1>1, <1>2, <1>3, <1>4 DEF Accounted, Base

LEMMA Enters ==
  ASSUME IInv, Accounted, top > 0, jmp = 0, F.phase \notin Reports, NEW f \in Frame, NEW g \in Frame,
         EnterFrom(f, g), Resembles(F, f), f.phase \notin Reports, UNCHANGED <<exc, jmp>>,
         Fresh(g), ~Pending(g), Orderly => g.kind \notin {"try", "report"} \/ ~ExceptionPending
  PROVE  Accounted'
<1>1. /\ top \in Nat \ {0} /\ top \in Depth /\ frames \in [Depth -> Frame] /\ MaxFrames \in Nat
      /\ F = frames[top]
  BY FrameArray
<1>2. /\ top' = top + 1 /\ frames'[top] = f /\ frames'[top + 1] = g
      /\ \A m \in 1 .. top - 1 : frames'[m] = frames[m]
  BY <1>1 DEF EnterFrom, Depth
<1>3. Kept(frames', top, exc, 0)
  BY <1>1, <1>2, KeptGoingOn DEF Accounted
<1>4. Kept(frames', top + 1, exc, 0)
  <2>1. ASSUME ~ExceptionPending, NEW i \in 1 .. top PROVE ~Pending(frames'[i])
    <3>1. ~Pending(frames[i])
      BY <2>1 DEF ExceptionPending, Pending
    <3>2. CASE i = top
      BY <1>1, <1>2, <3>1, <3>2 DEF Resembles, Turns
    <3>3. CASE i # top
      BY <1>1, <1>2, <3>1, <3>3
    <3> QED
      BY <3>2, <3>3
  <2> QED
    BY <1>1, <1>2, <1>3, <2>1, KeptEntering
<1>5. frames'[1].spb = frames[1].spb
  <2>1. CASE top = 1
    BY <1>1, <1>2, <2>1 DEF Resembles, Turns
  <2>2. CASE top # 1
    BY <1>1, <1>2, <2>2
  <2> QED
    BY <2>1, <2>2
<1> QED
  BY <1>1, <1>2, <1>4, <1>5 DEF Accounted, Base

LEMMA Returns ==
  ASSUME IInv, Accounted, top > 1, jmp = 0, NEW f \in Frame, ReturnTo(f), Turns(Caller, f),
         exc # NullValue =>
           \/ f.phase \in Reports
           \/ ~Pending(F) /\ F.phase \notin Reports /\ (Pending(Caller) => Pending(f)),
         UNCHANGED <<exc, jmp>>
  PROVE  Accounted'
<1>0. top \in Nat
  BY DEF IInv, TypeOK
<1>1. /\ top \in Nat \ {0} /\ top \in Depth /\ frames \in [Depth -> Frame] /\ MaxFrames \in Nat
      /\ F = frames[top] /\ Caller = frames[top - 1]
  BY <1>0, FrameArray DEF Caller
<1>2. /\ top' = top - 1 /\ frames'[top - 1] = f
      /\ \A m \in 1 .. top - 2 : frames'[m] = frames[m]
  BY <1>1 DEF ReturnTo, Depth
<1>3. Kept(frames', top - 1, exc, 0)
  BY <1>1, <1>2, KeptReturning DEF Accounted
<1>4. frames'[1].spb = frames[1].spb
  <2>1. CASE top - 1 = 1
    BY <1>1, <1>2, <2>1 DEF Turns
  <2>2. CASE top - 1 # 1
    BY <1>1, <1>2, <2>2
  <2> QED
    BY <2>1, <2>2
<1> QED
  BY <1>1, <1>2, <1>3, <1>4 DEF Accounted, Base

\* A step that changes none of these leaves the account as it is.
LEMMA Stays ==
  ASSUME Accounted, UNCHANGED <<frames, top, exc, jmp>>, top = 0 => UNCHANGED sp
  PROVE  Accounted'
BY DEF Accounted, Base, Kept, Sole

\* The activations stay while something is thrown.
LEMMA Throws ==
  ASSUME IInv, Accounted, top > 0, UNCHANGED <<frames, top>>, jmp' \in Nat \ {0},
         Orderly => exc' # NullValue
  PROVE  Accounted'
<1>1. top \in Nat \ {0} /\ top \in 0 .. top
  BY FrameArray
<1>2. Kept(frames, top, exc', jmp')
  BY <1>1, KeptThrowing DEF Accounted
<1> QED
  BY <1>1, <1>2 DEF Accounted, Base

\* A step of an expression, or of a loop, in the newest activation.
WorksOn == PushOperand \/ PopOperand \/ EnterBody \/ ForeachIterator \/ ForeachBody \/ ForeachNext

LEMMA WorksOnAccounted == ASSUME IInv, Accounted, WorksOn PROVE Accounted'
<1>1. /\ top > 0 /\ jmp = 0 /\ UNCHANGED <<exc, jmp>>
      /\ F.phase \in ListPhases \union {"args", "iterator", "iterate"}
  BY DEF WorksOn, PushOperand, PopOperand, EnterBody, ForeachIterator, ForeachBody, ForeachNext,
         Evaluating, Running, ListEnded, ListPhases
<1>2. F \in Frame /\ F.phase \notin Reports
  BY <1>1, FrameArray DEF Reports, ListPhases
<1>3. Fresh(F)
  BY <1>1, FrameArray DEF Accounted, Kept
<1>4. ASSUME NEW f \in Frame, Become(f), f.kind = F.kind, f.spb = F.spb, f.catch = F.catch,
             f.caught = F.caught, \/ f.phase = F.phase
                                  \/ /\ F.phase \in {"args", "iterator", "iterate", "each"}
                                     /\ f.phase \in {"body", "native", "iterate", "each"}
      PROVE  Accounted'
  <2>1. Resembles(F, f)
    BY <1>3, <1>4 DEF Resembles, Turns, Fresh, Pending
  <2> QED
    BY <1>1, <1>2, <1>4, <2>1, GoesOn
<1>5. CASE PushOperand
  <2> DEFINE f == [F EXCEPT !.temps = @ + 1]
  <2>1. f \in Frame /\ Become(f)
    BY <1>2, <1>5 DEF PushOperand, Frame
  <2> QED
    BY <1>2, <1>4, <2>1 DEF Frame
<1>6. CASE PopOperand
  <2> DEFINE f == [F EXCEPT !.temps = @ - 1]
  <2>1. f \in Frame /\ Become(f)
    BY <1>2, <1>6 DEF PopOperand, Frame
  <2> QED
    BY <1>2, <1>4, <2>1 DEF Frame
<1>7. CASE EnterBody
  <2>1. CASE Become([F EXCEPT !.phase = "body"])
    <3> DEFINE f == [F EXCEPT !.phase = "body"]
    <3>1. f \in Frame
      BY <1>2 DEF Frame, Phases
    <3> QED
      BY <1>2, <1>4, <1>7, <2>1, <3>1 DEF Frame, EnterBody
  <2>2. CASE Become([F EXCEPT !.phase = "native", !.args = F.temps, !.temps = 0])
    <3> DEFINE f == [F EXCEPT !.phase = "native", !.args = F.temps, !.temps = 0]
    <3>1. f \in Frame
      BY <1>2 DEF Frame, Phases
    <3> QED
      BY <1>2, <1>4, <1>7, <2>2, <3>1 DEF Frame, EnterBody
  <2> QED
    BY <1>7, <2>1, <2>2 DEF EnterBody
<1>8. CASE ForeachIterator
  <2> DEFINE f == [F EXCEPT !.phase = "iterate"]
  <2>1. f \in Frame /\ Become(f)
    BY <1>2, <1>8 DEF ForeachIterator, Frame, Phases
  <2> QED
    BY <1>2, <1>4, <1>8, <2>1 DEF Frame, ForeachIterator
<1>9. CASE ForeachBody
  <2> DEFINE f == [F EXCEPT !.phase = "each"]
  <2>1. f \in Frame /\ Become(f)
    BY <1>2, <1>9 DEF ForeachBody, Frame, Phases
  <2> QED
    BY <1>2, <1>4, <1>9, <2>1 DEF Frame, ForeachBody
<1>10. CASE ForeachNext
  <2>1. PICK r \in {"normal", res} : Become([F EXCEPT !.phase = "iterate", !.result = r])
    BY <1>10 DEF ForeachNext
  <2> DEFINE f == [F EXCEPT !.phase = "iterate", !.result = r]
  <2>2. res \in ResultTypes
    BY <1>10 DEF ForeachNext, ListEnded, IInv, TypeOK
  <2>3. f \in Frame
    BY <1>2, <2>1, <2>2 DEF Frame, Phases, ResultTypes
  <2> QED
    BY <1>2, <1>4, <1>10, <2>1, <2>3 DEF Frame, ForeachNext
<1> QED
  BY <1>5, <1>6, <1>7, <1>8, <1>9, <1>10 DEF WorksOn

\* A call, a foreach, a try statement or an error report begins.
Begins == CallExpression \/ CallFromC \/ Foreach \/ Try \/ RuntimeError

LEMMA BeginsAccounted == ASSUME IInv, Accounted, Begins PROVE Accounted'
<1>1. /\ top > 0 /\ jmp = 0 /\ UNCHANGED <<exc, jmp>>
      /\ F.phase \in ListPhases \union {"args", "native", "iterator", "iterate", "parse", "lookup", "print"}
  BY DEF Begins, CallExpression, CallFromC, Foreach, Try, RuntimeError, CanFail,
         Evaluating, AtStatement, Running, ListPhases
<1>2. F \in Frame /\ F.phase \notin Reports /\ sp \in Nat /\ rec \in Nat /\ topEnv \in Nat
  BY <1>1, FrameArray DEF Reports, ListPhases, IInv, TypeOK
<1>3. Fresh(F)
  BY <1>1, FrameArray DEF Accounted, Kept
<1>4. ASSUME NEW f \in Frame, NEW g \in Frame, EnterFrom(f, g), f.kind = F.kind, f.spb = F.spb,
             f.catch = F.catch, f.caught = F.caught, f.phase = F.phase,
             g.caught = NoValue, g.phase \notin {"catch", "print"},
             g.kind # "report", g.kind = "try" /\ Orderly => ~ExceptionPending
      PROVE  Accounted'
  <2>1. Resembles(F, f) /\ Fresh(g) /\ ~Pending(g)
    BY <1>3, <1>4 DEF Resembles, Turns, Fresh, Pending
  <2> QED
    BY <1>1, <1>2, <1>4, <2>1, Enters
<1>5. ASSUME NEW f \in Frame, f.kind = F.kind, f.spb = F.spb, f.catch = F.catch,
             f.caught = F.caught, f.phase = F.phase,
             NEW kind \in Calls, NEW phase \in {"args", "body", "native"}, NEW own \in {0, 1},
             NEW args \in Nat, EnterCall(f, kind, phase, own, args)
      PROVE  Accounted'
  <2> DEFINE g == [NoFrame EXCEPT !.kind = kind, !.phase = phase, !.own = own,
                                  !.args = args, !.spb = sp + own, !.recb = rec,
                                  !.env = topEnv + 1]
  <2>1. g.kind = kind /\ g.phase = phase /\ g.caught = NoValue
    BY DEF NoFrame
  <2>2. g \in Frame
    <3>1. sp + own \in Nat /\ topEnv + 1 \in Nat /\ kind \in Kinds /\ phase \in Phases
      BY <1>2 DEF Kinds, Phases, Calls
    <3> QED
      BY <1>2, <3>1, NoFrameType, Zenon DEF Frame
  <2>3. EnterFrom(f, g)
    BY <1>5 DEF EnterCall
  <2>4. kind \notin {"report", "try"} /\ phase \notin {"catch", "print"}
    BY DEF Calls
  <2> HIDE DEF g
  <2> QED
    BY <1>4, <1>5, <2>1, <2>2, <2>3, <2>4
<1>6. CASE CallExpression
  <2> DEFINE f == [F EXCEPT !.temps = @ + 1]
  <2>1. f \in Frame /\ f.kind = F.kind /\ f.spb = F.spb /\ f.catch = F.catch
        /\ f.caught = F.caught /\ f.phase = F.phase
    BY <1>2 DEF Frame
  <2>2. EnterCall(f, "call", "args", 1, 0) /\ "call" \in Calls
    BY <1>6 DEF CallExpression, Calls
  <2> HIDE DEF f
  <2> QED
    BY <1>5, <2>1, <2>2
<1>7. CASE CallFromC
  <2>1. PICK own, args \in {0, 1}, phase \in {"body", "native"} : EnterCall(F, "ccall", phase, own, args)
    BY <1>7 DEF CallFromC
  <2>2. "ccall" \in Calls /\ args \in Nat /\ phase \in {"args", "body", "native"}
    BY <2>1 DEF Calls
  <2> QED
    BY <1>2, <1>5, <2>1, <2>2
<1>8. CASE Foreach
  <2> DEFINE g == [NoFrame EXCEPT !.kind = "foreach", !.phase = "iterator", !.env = F.env,
                                  !.spb = sp, !.result = "normal"]
  <2>1. g \in Frame
    <3>1. "foreach" \in Kinds /\ "iterator" \in Phases /\ F.env \in Nat /\ "normal" \in ResultTypes
      BY <1>2 DEF Kinds, Phases, Frame, ResultTypes
    <3> QED
      BY <1>2, <3>1, NoFrameType, Zenon DEF Frame
  <2>2. g.kind = "foreach" /\ g.phase = "iterator" /\ g.caught = NoValue
    BY DEF NoFrame
  <2>3. EnterFrom(F, g)
    BY <1>8 DEF Foreach
  <2> HIDE DEF g
  <2> QED
    BY <1>2, <1>4, <2>1, <2>2, <2>3
<1>9. CASE Try
  <2>1. PICK c, f \in BOOLEAN :
          EnterFrom(F, [NoFrame EXCEPT !.kind = "try", !.phase = "try", !.env = F.env,
                                !.spb = sp, !.recb = rec,
                                !.catch = c, !.finally = f])
    BY <1>9 DEF Try
  <2> DEFINE g == [NoFrame EXCEPT !.kind = "try", !.phase = "try", !.env = F.env,
                                !.spb = sp, !.recb = rec,
                                !.catch = c, !.finally = f]
  <2>2. g \in Frame
    <3>1. "try" \in Kinds /\ "try" \in Phases /\ F.env \in Nat
      BY <1>2 DEF Kinds, Phases, Frame
    <3> QED
      BY <1>2, <3>1, NoFrameType, Zenon DEF Frame
  <2>3. g.kind = "try" /\ g.phase = "try" /\ g.caught = NoValue
    BY DEF NoFrame
  <2>4. EnterFrom(F, g)
    BY <2>1
  <2>5. Orderly => ~ExceptionPending
    BY <1>9 DEF Try, Orderly
  <2> HIDE DEF g
  <2> QED
    BY <1>2, <1>4, <2>2, <2>3, <2>4, <2>5
<1>10. CASE RuntimeError
  <2> DEFINE g == [NoFrame EXCEPT !.kind = "raise", !.phase = "lookup", !.env = F.env, !.spb = sp]
  <2>1. g \in Frame
    <3>1. "raise" \in Kinds /\ "lookup" \in Phases /\ F.env \in Nat
      BY <1>2 DEF Kinds, Phases, Frame
    <3> QED
      BY <1>2, <3>1, NoFrameType, Zenon DEF Frame
  <2>2. g.kind = "raise" /\ g.phase = "lookup" /\ g.caught = NoValue
    BY DEF NoFrame
  <2>3. EnterFrom(F, g)
    BY <1>10 DEF RuntimeError
  <2> HIDE DEF g
  <2> QED
    BY <1>2, <1>4, <2>1, <2>2, <2>3
<1> QED
  BY <1>6, <1>7, <1>8, <1>9, <1>10 DEF Begins

LEMMA ReturnFromCallAccounted == ASSUME IInv, Accounted, ReturnFromCall PROVE Accounted'
<1> DEFINE f == Resume(Caller)
<1>1. /\ AtWork /\ top > 0 /\ F \in Frame /\ Shaped(F) /\ top \in Nat
      /\ F.phase \in {"body", "native"} /\ F.kind \in Calls /\ jmp = 0 /\ jmp' = 0 /\ exc' = exc
      /\ ReturnTo(f)
  BY WorkFacts DEF ReturnFromCall, Running, ListEnded, Calls
<1>2. top > 1 /\ Caller \in Frame /\ top - 1 \in 1 .. top /\ Continues(Caller, F)
  BY <1>1, EnteredFrom DEF F, Caller, Calls, Sessions
<1>3. Fresh(Caller)
  BY <1>2 DEF Accounted, Kept, Caller
<1>4. ~Pending(F) /\ F.phase \notin Reports
  BY <1>1 DEF Pending, Reports
<1>5. f \in Frame /\ Turns(Caller, f) /\ (f.phase \in Reports \/ (Pending(Caller) => Pending(f)))
  <2>1. CASE Caller.phase = "lookup"
    <3>1. f = [Caller EXCEPT !.phase = "created"]
      BY <2>1 DEF Resume
    <3>2. f \in Frame /\ f.phase = "created"
      BY <1>2, <3>1 DEF Frame, Phases
    <3>3. f.kind = Caller.kind /\ f.spb = Caller.spb
      BY <1>2, <3>1 DEF Frame
    <3> QED
      BY <2>1, <3>2, <3>3 DEF Turns, Fresh, Pending, Reports
  <2>2. CASE Caller.phase = "print"
    <3>1. f = [Caller EXCEPT !.phase = "printed"]
      BY <2>2 DEF Resume
    <3>2. f \in Frame /\ f.phase = "printed"
      BY <1>2, <3>1 DEF Frame, Phases
    <3>3. f.kind = Caller.kind /\ f.spb = Caller.spb
      BY <1>2, <3>1 DEF Frame
    <3> QED
      BY <2>2, <3>2, <3>3 DEF Turns, Fresh, Pending, Reports
  <2>3. CASE Caller.phase \notin {"lookup", "print"}
    BY <1>2, <1>3, <2>3 DEF Resume, Turns
  <2> QED
    BY <2>1, <2>2, <2>3
<1> HIDE DEF f
<1> QED
  BY <1>1, <1>2, <1>4, <1>5, Returns

LEMMA ForeachDoneAccounted == ASSUME IInv, Accounted, ForeachDone PROVE Accounted'
<1>1. /\ AtWork /\ top > 0 /\ F \in Frame /\ Shaped(F) /\ top \in Nat
      /\ F.phase \in {"iterate", "each"} /\ jmp = 0 /\ jmp' = 0 /\ exc' = exc /\ ReturnTo(Caller)
  BY WorkFacts DEF ForeachDone, Running, ListEnded
<1>2. F.kind = "foreach"
  BY <1>1 DEF Shaped, PhasesOf, Frame, Kinds
<1>3. top > 1 /\ Caller \in Frame
  BY <1>1, <1>2, EnteredFrom DEF F, Caller, Sessions
<1>4. ~Pending(F) /\ F.phase \notin Reports /\ Turns(Caller, Caller)
  BY <1>1 DEF Pending, Reports, Turns
<1> QED
  BY <1>1, <1>3, <1>4, Returns

LEMMA ReportDoneAccounted == ASSUME IInv, Accounted, ReportDone PROVE Accounted'
<1> DEFINE f == [Caller EXCEPT !.phase = "reported"]
<1>1. /\ top > 0 /\ F \in Frame /\ top \in Nat \ {0} /\ F.kind = "report" /\ jmp = 0
      /\ ReturnTo(f) /\ jmp' = 0 /\ exc' = exc
  BY NewestFrame DEF ReportDone, Running
<1>2. top > 1 /\ Caller \in Frame
  BY <1>1, EnteredFrom DEF F, Caller, Sessions
<1>3. f \in Frame /\ f.phase = "reported" /\ f.kind = Caller.kind /\ f.spb = Caller.spb
  BY <1>2 DEF Frame, Phases
<1>4. Turns(Caller, f) /\ f.phase \in Reports
  BY <1>3 DEF Turns, Fresh, Pending, Reports
<1> HIDE DEF f
<1> QED
  BY <1>1, <1>2, <1>3, <1>4, Returns

\* A try statement ends: what it has pending is thrown, or nothing is.
LEMMA LeaveTryAccounted ==
  ASSUME IInv, Accounted, top > 0, jmp = 0, F.kind = "try", NEW r, NEW s, LeaveTry(r, s),
         exc' = exc
  PROVE  Accounted'
<1>1. /\ F \in Frame /\ Shaped(F) /\ top > 1 /\ Caller \in Frame /\ top \in Nat \ {0}
      /\ Good(frames, top) /\ Continues(Caller, F) /\ top - 1 \in 0 .. top /\ ReturnTo(Caller)
      /\ top \in Depth /\ frames \in [Depth -> Frame] /\ MaxFrames \in Nat
  BY FrameArray, NewestFrame, EnteredFrom DEF F, Caller, Sessions, LeaveTry
<1>2. CASE ~F.catch /\ exc # NullValue
  <2>1. jmp' = F.recb /\ F.recb \in 1 .. top - 1 /\ jmp' # 0
    BY <1>1, <1>2 DEF LeaveTry, LongJump, OuterHandler, Good, InnermostIn, F, Calls
  <2>2. top' = top - 1 /\ \A m \in 1 .. top - 1 : frames'[m] = frames[m]
    BY <1>1 DEF ReturnTo, Caller, Depth
  <2>3. Kept(frames', top - 1, exc, jmp')
    BY <1>1, <1>2, <2>1, <2>2, KeptThrowing DEF Accounted
  <2> QED
    BY <1>1, <2>2, <2>3 DEF Accounted, Base
<1>3. CASE F.catch \/ exc = NullValue
  <2>1. jmp' = 0
    BY <1>3 DEF LeaveTry
  <2>2. F.phase \notin Reports /\ F.phase # "print"
    BY <1>1 DEF Shaped, PhasesOf, Reports
  <2>3. exc # NullValue => ~Pending(F)
    BY <1>3, <2>2 DEF Pending
  <2>4. Turns(Caller, Caller)
    BY DEF Turns
  <2> QED
    BY <1>1, <2>1, <2>2, <2>3, <2>4, Returns
<1> QED
  BY <1>2, <1>3

LEMMA TryDoneAccounted == ASSUME IInv, Accounted, TryDone PROVE Accounted'
<1>1. /\ top > 0 /\ F \in Frame /\ Shaped(F) /\ F.phase \in {"try", "catch"} /\ res \in ResultTypes
      /\ jmp = 0 /\ exc' = exc
  BY FrameArray DEF TryDone, ListEnded, IInv, TypeOK
<1>2. F.kind = "try" /\ Fresh(F) /\ F.phase \notin Reports
  BY <1>1, FrameArray DEF Shaped, PhasesOf, Frame, Kinds, Accounted, Kept, Reports
<1>3. CASE LeaveTry(res, ShrunkAfterCatch)
  BY <1>1, <1>2, <1>3, LeaveTryAccounted
<1>4. CASE Become([F EXCEPT !.phase = "finally", !.result = res]) /\ UNCHANGED jmp
  <2> DEFINE f == [F EXCEPT !.phase = "finally", !.result = res]
  <2>1. /\ f \in Frame /\ f.phase = "finally" /\ f.kind = F.kind /\ f.spb = F.spb
        /\ f.catch = F.catch /\ f.caught = F.caught
    BY <1>1 DEF Frame, Phases
  <2>2. Resembles(F, f)
    BY <1>1, <1>2, <2>1 DEF Resembles, Turns, Fresh, Pending
  <2> QED
    BY <1>1, <1>2, <1>4, <2>1, <2>2, GoesOn
<1> QED
  BY <1>3, <1>4 DEF TryDone

LEMMA FinallyDoneAccounted == ASSUME IInv, Accounted, FinallyDone PROVE Accounted'
<1>1. /\ top > 0 /\ F \in Frame /\ Shaped(F) /\ F.phase = "finally" /\ jmp = 0 /\ exc' = exc
  BY FrameArray DEF FinallyDone, ListEnded
<1>2. F.kind = "try"
  BY <1>1 DEF Shaped, PhasesOf, Frame, Kinds
<1> QED
  BY <1>1, <1>2, LeaveTryAccounted DEF FinallyDone

LEMMA RaiseAccounted ==
  ASSUME IInv, Accounted, Throw \/ ReachedTopLevel \/ RaiseException
  PROVE  Accounted'
<1>1. /\ top > 0 /\ jmp = 0 /\ F.phase # "reported" /\ jmp' = rec /\ UNCHANGED <<frames, top>>
  BY NewestFrame
     DEF Throw, ReachedTopLevel, RaiseException, AtStatement, Running, ListEnded, LongJump,
         ListPhases, Shaped, PhasesOf, IInv, Registers
<1>2. jmp' \in Nat \ {0}
  BY <1>1 DEF IInv, TypeOK, Registers, RecoveryIsInnermost, Innermost, InnermostIn
<1>3. Orderly => exc' # NullValue
  BY ValuesAssumption DEF Throw, ReachedTopLevel, RaiseException, Orderly
<1> QED
  BY <1>1, <1>2, <1>3, Throws

\* The session begins and ends on an empty stack, with no exception.
LEMMA EmptyAccounted ==
  ASSUME top' = 0, jmp' = 0, exc' = NullValue, ~BadArguments => sp' = 0
  PROVE  Accounted'
BY DEF Accounted, Kept, Base

LEMMA BeginAccounted ==
  ASSUME IInv, Accounted, top = 0, NEW g, Enter(g), g \in Frame, g.spb = sp, Fresh(g), ~Pending(g),
         UNCHANGED <<exc, jmp>>
  PROVE  Accounted'
<1>1. /\ frames \in [Depth -> Frame] /\ MaxFrames \in Nat /\ MaxFrames >= 4
      /\ jmp = 0 /\ exc = NullValue
  BY BoundsAssumption DEF IInv, TypeOK, Registers, RecoveryIsInnermost, Innermost, InnermostIn,
                          Accounted, Kept
<1>2. top' = 1 /\ frames'[1] = g
  BY <1>1 DEF Enter, Depth
<1>3. Kept(frames', 1, exc, 0)
  BY <1>1, <1>2 DEF Kept, Sole
<1> QED
  BY <1>1, <1>2, <1>3 DEF Accounted, Base

LEMMA SessionAccounted ==
  ASSUME IInv, Accounted, Compile \/ Interpret \/ SetCommandLineArgs \/ StackOverflow
  PROVE  Accounted'
<1>1. CASE Compile \/ Interpret
  <2>1. top = 0 /\ sp \in Nat
    BY <1>1 DEF Compile, Interpret, IInv, Registers, TypeOK
  <2>2. ASSUME NEW kind \in Sessions, NEW phase \in {"parse", "run"},
               Enter([NoFrame EXCEPT !.kind = kind, !.phase = phase, !.spb = sp])
        PROVE  Accounted'
    <3> DEFINE g == [NoFrame EXCEPT !.kind = kind, !.phase = phase, !.spb = sp]
    <3>1. g.phase = phase /\ g.spb = sp /\ g.caught = NoValue
      BY DEF NoFrame
    <3>2. g \in Frame
      <4>1. kind \in Kinds /\ phase \in Phases
        BY DEF Sessions, Kinds, Phases
      <4> QED
        BY <2>1, <4>1, NoFrameType, Zenon DEF Frame
    <3>3. UNCHANGED <<exc, jmp>> /\ Enter(g)
      BY <1>1, <2>2 DEF Compile, Interpret
    <3> HIDE DEF g
    <3> QED
      BY <2>1, <3>1, <3>2, <3>3, BeginAccounted DEF Fresh, Pending
  <2> QED
    BY <1>1, <2>2 DEF Compile, Interpret, Sessions
<1>2. CASE SetCommandLineArgs
  BY <1>2 DEF SetCommandLineArgs, IInv, Registers, Accounted, Kept, Base, Sole
<1>3. CASE StackOverflow
  BY <1>3, Stays DEF StackOverflow
<1> QED
  BY <1>1, <1>2, <1>3

\* A session that ends is the only activation, and started where the stack was.
LEMMA DoneAccounted ==
  ASSUME IInv, Accounted, CompileDone \/ InterpretDone \/ SessionFailed
  PROVE  Accounted'
<1>1. /\ top > 0 /\ jmp = 0 /\ jmp' = 0 /\ Drop
      /\ F.kind \in Sessions /\ F.phase # "reporting"
  BY NewestFrame DEF CompileDone, InterpretDone, SessionFailed, ListEnded, Running, Sessions,
                     Shaped, PhasesOf, Frame, Kinds
<1>2. top = 1 /\ F = frames[1] /\ Shaped(F) /\ F \in Frame
  BY <1>1, NewestFrame DEF Good, Continues, F, Sessions
<1>3. top' = 0
  BY <1>1, <1>2 DEF Drop
<1>4. CASE SessionFailed
  BY <1>1, <1>3, <1>4, EmptyAccounted DEF SessionFailed
<1>5. CASE CompileDone \/ InterpretDone
  <2>1. F.phase \in {"parse", "run"} /\ F.temps = 0 /\ UNCHANGED <<sp, exc>>
    <3>1. CASE CompileDone
      BY <1>2, <3>1 DEF CompileDone, Shaped, ListPhases, Frame
    <3>2. CASE InterpretDone
      <4>1. F.kind = "interpret" /\ res # "run" /\ UNCHANGED <<sp, exc>>
        BY <3>2 DEF InterpretDone
      <4>2. F.phase \in ListPhases /\ F.temps = 0
        BY <4>1 DEF IInv, Registers
      <4> QED
        BY <1>2, <4>1, <4>2 DEF Shaped, PhasesOf, ListPhases
    <3> QED
      BY <1>5, <3>1, <3>2
  <2>2. exc = NullValue
    <3>1. ~Pending(F) /\ F.phase \notin Reports
      BY <2>1 DEF Pending, Reports
    <3> QED
      BY <1>1, <1>2, <3>1 DEF Accounted, Kept
  <2>3. ~BadArguments => sp = 0
    <3>1. F.args = 0 /\ Held(F) = 0
      BY <1>2, <2>1 DEF Shaped, Held, Frame
    <3>2. sp = F.spb
      BY <1>1, <1>2, <2>1, <3>1 DEF IInv, Registers, Frame
    <3> QED
      BY <1>2, <3>2 DEF Accounted, Base
  <2> QED
    BY <1>1, <1>3, <2>1, <2>2, <2>3, EmptyAccounted
<1> QED
  BY <1>4, <1>5

LEMMA LandInCallAccounted == ASSUME IInv, Accounted, LandInCall PROVE Accounted'
<1> DEFINE k == jmp - 1
<1>1. jmp > 0 /\ frames[jmp].kind \in Calls
  BY DEF LandInCall, Calls
<1>2. /\ top \in Nat \ {0} /\ jmp \in 1 .. top /\ MaxFrames \in Nat /\ frames \in [Depth -> Frame]
      /\ Good(frames, jmp)
  BY <1>1, JumpFacts
<1>3. k \in Nat \ {0} /\ k \in Depth /\ k \in 0 .. top /\ frames[k] \in Frame
  <2>1. frames[jmp].kind \notin Sessions
    BY <1>1 DEF Calls, Sessions
  <2> QED
    BY <1>2, <2>1, EnteredFrom
<1>4. CutTo(k, frames[k]) /\ jmp' = frames[jmp].recb /\ exc' = exc
  BY DEF LandInCall, LongJump, OuterHandler
<1>5. jmp' \in Nat \ {0}
  BY <1>1, <1>2, <1>4 DEF Good, InnermostIn
<1> HIDE DEF k
<1>6. top' = k /\ \A m \in 1 .. k : frames'[m] = frames[m]
  <2>1. top' = k /\ frames'[k] = frames[k] /\ \A m \in 1 .. k - 1 : frames'[m] = frames[m]
    BY <1>2, <1>3, <1>4, CutFrames
  <2> QED
    BY <1>3, <2>1
<1>7. Orderly => exc # NullValue
  BY <1>1 DEF Accounted, Kept
<1>8. Kept(frames', k, exc, jmp')
  BY <1>2, <1>3, <1>5, <1>6, <1>7, KeptThrowing DEF Accounted
<1> QED
  BY <1>3, <1>2, <1>4, <1>6, <1>8 DEF Accounted, Base

LEMMA LandInTryAccounted == ASSUME IInv, Accounted, LandInTry PROVE Accounted'
<1> DEFINE f == [frames[jmp] EXCEPT !.caught = exc]
<1> DEFINE g == [f EXCEPT !.phase = IF f.catch THEN "catch" ELSE "finally", !.temps = 0]
<1>1. jmp > 0 /\ frames[jmp].kind = "try"
  BY DEF LandInTry
<1>2. /\ top \in Nat \ {0} /\ jmp \in 1 .. top /\ MaxFrames \in Nat /\ frames \in [Depth -> Frame]
      /\ frames[jmp] \in Frame /\ jmp \in Depth
  BY <1>1, JumpFacts
<1>3. exc \in Values /\ exc # NoValue
  BY ValuesAssumption DEF IInv, TypeOK
<1>4. /\ f \in Frame /\ f.spb = frames[jmp].spb /\ f.caught = exc
      /\ f.catch = frames[jmp].catch
  BY <1>1, <1>2, <1>3 DEF Frame
<1>5. CutTo(jmp, g) /\ ClearedIfCaught(f) /\ jmp' = 0
  BY DEF LandInTry
<1> HIDE DEF f
<1>6. /\ g \in Frame /\ g.spb = f.spb /\ g.catch = f.catch /\ g.caught = exc
      /\ g.phase = (IF f.catch THEN "catch" ELSE "finally")
  BY <1>4 DEF Frame, Phases
<1> HIDE DEF g
<1>7. top' = jmp /\ frames'[jmp] = g /\ \A m \in 1 .. jmp - 1 : frames'[m] = frames[m]
  BY <1>2, <1>5, <1>6, CutFrames
<1>8. Fresh(g) /\ (exc' # NullValue => Pending(g)) /\ (g.phase = "finally" => exc' = exc)
  BY <1>3, <1>5, <1>6 DEF Fresh, Pending, ClearedIfCaught
<1>9. Kept(frames', jmp, exc', 0)
  <2>1. top \in Nat /\ jmp \in {jmp, jmp + 1} /\ jmp # 0
    BY <1>1, <1>2
  <2>2. Kept(frames, top, exc, jmp)
    BY DEF Accounted
  <2>3. \A m \in jmp .. jmp : Fresh(frames'[m])
    BY <1>2, <1>7, <1>8
  <2> QED
    BY <1>1, <1>2, <1>6, <1>7, <1>8, <2>1, <2>2, <2>3, KeptLanding
<1>10. frames'[1].spb = frames[1].spb
  <2>1. CASE jmp = 1
    BY <1>4, <1>6, <1>7, <2>1
  <2>2. CASE jmp # 1
    BY <1>2, <1>7, <2>2
  <2> QED
    BY <2>1, <2>2
<1> QED
  BY <1>2, <1>5, <1>7, <1>9, <1>10 DEF Accounted, Base

LEMMA LandInReportAccounted == ASSUME IInv, Accounted, LandInReport PROVE Accounted'
<1> DEFINE f == [frames[jmp] EXCEPT !.phase = "reporting"]
<1>1. /\ jmp > 0 /\ jmp < MaxFrames /\ frames[jmp].kind \in Sessions \union {"report"}
      /\ top' = jmp + 1 /\ jmp' = 0 /\ exc' = exc
  BY DEF LandInReport, Sessions
<1>2. /\ top \in Nat \ {0} /\ jmp \in 1 .. top /\ MaxFrames \in Nat /\ frames \in [Depth -> Frame]
      /\ frames[jmp] \in Frame /\ jmp \in Depth /\ Good(frames, jmp)
  BY <1>1, JumpFacts
<1>3. f.spb = frames[jmp].spb /\ f.phase = "reporting"
  BY <1>2 DEF Frame, Phases
<1>4. ReportFrame.phase = "print"
  BY DEF ReportFrame, NoFrame
<1>5. /\ frames'[jmp] = f /\ frames'[jmp + 1] = ReportFrame
      /\ \A m \in 1 .. jmp - 1 : frames'[m] = frames[m]
  <2>1. frames' = [i \in Depth |-> IF i < jmp THEN frames[i]
                                  ELSE IF i = jmp THEN f
                                  ELSE IF i = jmp + 1 THEN ReportFrame ELSE NoFrame]
    BY <1>2 DEF LandInReport
  <2>2. jmp + 1 \in Depth /\ \A m \in 1 .. jmp - 1 : m \in Depth /\ m < jmp
    BY <1>1, <1>2 DEF Depth
  <2> HIDE DEF f
  <2> QED
    BY <1>2, <2>1, <2>2 DEF Depth
<1> HIDE DEF f
<1>6. Fresh(f) /\ Fresh(ReportFrame) /\ ~Pending(f) /\ Pending(ReportFrame)
  BY <1>3, <1>4 DEF Fresh, Pending
<1>7. jmp = 1 \/ frames[jmp].kind \in {"try", "report"}
  BY <1>1, <1>2 DEF Good, Continues
<1>8. Kept(frames', jmp + 1, exc, 0)
  <2>1. top \in Nat /\ jmp + 1 \in {jmp, jmp + 1} /\ jmp # 0
    BY <1>1, <1>2
  <2>2. Kept(frames, top, exc, jmp)
    BY DEF Accounted
  <2>3. \A m \in jmp .. jmp + 1 : Fresh(frames'[m])
    BY <1>2, <1>5, <1>6
  <2>4. \A m \in jmp .. (jmp + 1) - 1 : ~Pending(frames'[m])
    BY <1>2, <1>5, <1>6
  <2>5. Pending(frames'[jmp + 1]) /\ frames'[jmp + 1].phase # "finally"
    BY <1>4, <1>5, <1>6
  <2> DEFINE n2 == jmp + 1
  <2>6. n2 \in {jmp, jmp + 1}
    OBVIOUS
  <2> HIDE DEF n2
  <2>7. Kept(frames', n2, exc, 0)
    <3>1. n2 = jmp + 1
      BY DEF n2
    <3> QED
      BY <1>2, <1>5, <1>7, <2>1, <2>2, <2>3, <2>4, <2>5, <2>6, <3>1, KeptLanding
  <2> QED
    BY <2>7 DEF n2
<1>9. frames'[1].spb = frames[1].spb
  <2>1. CASE jmp = 1
    BY <1>3, <1>5, <2>1
  <2>2. CASE jmp # 1
    BY <1>2, <1>5, <2>2
  <2> QED
    BY <2>1, <2>2
<1> QED
  BY <1>1, <1>2, <1>8, <1>9 DEF Accounted, Base

LEMMA InitAccounted == Init => Accounted
BY DEF Init, Accounted, Kept, Base

LEMMA NextAccounted == IInv /\ Accounted /\ [Next]_vars => Accounted'
<1> SUFFICES ASSUME IInv, Accounted, [Next]_vars PROVE Accounted'
  OBVIOUS
<1>1. CASE Session
  BY <1>1, SessionAccounted, DoneAccounted, ReportDoneAccounted DEF Session
<1>2. CASE Expression
  BY <1>2, WorksOnAccounted, BeginsAccounted, ReturnFromCallAccounted
     DEF Expression, WorksOn, Begins
<1>3. CASE EndList
  BY <1>3, Stays DEF EndList
<1>4. CASE Statement
  BY <1>3, <1>4, WorksOnAccounted, BeginsAccounted, RaiseAccounted, ForeachDoneAccounted,
     TryDoneAccounted, FinallyDoneAccounted DEF Statement, WorksOn, Begins
<1>5. CASE Raise
  BY <1>5, RaiseAccounted, BeginsAccounted DEF Raise, Begins
<1>6. CASE Land
  BY <1>6, LandInCallAccounted, LandInTryAccounted, LandInReportAccounted DEF Land
<1>7. CASE UNCHANGED vars
  BY <1>7, Stays DEF vars
<1> QED
  BY <1>1, <1>2, <1>4, <1>5, <1>6, <1>7 DEF Next, Exit

\* Every exception that is current has somewhere to go.
LEMMA ExceptionsAccounted == Spec => []Accounted
BY InitAccounted, NextAccounted, Invariance, InitInv, NextInv, PTL DEF Spec

\* A session leaves no value on the stack, no local environment and no exception
\* (interface.c CRB_interpret and its assertion), when the arguments of main()
\* were all multibyte strings.
THEOREM RootsAreReleased ==
  ASSUME ~BadArguments
  PROVE  Spec => []RootsReleased
<1>1. IInv /\ Accounted => RootsReleased
  <2> SUFFICES ASSUME IInv, Accounted, mode = "done"
               PROVE  sp = 0 /\ topEnv = 0 /\ exc = NullValue
    BY DEF RootsReleased, InterpretStackAssertion
  <2>1. top = 0 /\ topEnv = 0
    BY DEF IInv, Registers
  <2>2. jmp = 0
    BY <2>1 DEF IInv, Registers, RecoveryIsInnermost, Innermost, InnermostIn
  <2> QED
    BY <2>1, <2>2 DEF Accounted, Kept, Base
<1> QED
  BY <1>1, Invariance, ExceptionsAccounted, PTL

\* Only FinallyDone ends a finally block.
LEMMA EndOfFinally ==
  ASSUME IInv, [Next]_vars, LeavesFinally
  PROVE  FinallyDone
<1>1. /\ mode = "interpreting" /\ jmp = 0 /\ top > 0 /\ res # "run" /\ F.phase = "finally"
      /\ top' = top - 1 /\ top \in Nat
  BY DEF LeavesFinally, ListEnded, IInv, TypeOK
<1>2. F.kind = "try"
  BY <1>1, FrameArray DEF Shaped, PhasesOf, Frame, Kinds
<1>3. ~Session
  BY <1>1, <1>2 DEF Session, Compile, CompileDone, SetCommandLineArgs, Interpret, InterpretDone,
                    SessionFailed, ReportDone, StackOverflow, Running
<1>4. ~Expression
  BY <1>1 DEF Expression, PushOperand, PopOperand, CallExpression, EnterBody, CallFromC,
              ReturnFromCall, Evaluating, Running
<1>5. Statement => FinallyDone
  BY <1>1, <1>2 DEF Statement, EndList, ReachedTopLevel, Foreach, ForeachIterator, ForeachBody,
              ForeachNext, ForeachDone, Try, TryDone, AtStatement, Running
<1>6. ~Raise
  BY <1>1 DEF Raise, Throw, RuntimeError, RaiseException, AtStatement, CanFail, Running
<1>7. ~Land /\ ~UNCHANGED vars
  BY <1>1 DEF Land, LandInCall, LandInTry, LandInReport, vars
<1> QED
  BY <1>3, <1>4, <1>5, <1>6, <1>7 DEF Next, Exit

\* What a finally block that ends throws.
LEMMA RethrowsAtEnd ==
  ASSUME IInv, Accounted, [Next]_vars, Orderly, LeavesFinally
  PROVE  /\ ~F.catch /\ F.caught # NoValue => jmp' # 0 /\ exc' = F.caught
         /\ F.caught = NoValue => jmp' = 0
<1>1. FinallyDone
  BY EndOfFinally
<1>2. /\ jmp = 0 /\ top > 0 /\ F.phase = "finally" /\ LeaveTry(F.result, sp) /\ exc' = exc
  BY <1>1 DEF FinallyDone, ListEnded
<1>3. /\ top \in Nat \ {0} /\ F = frames[top] /\ F \in Frame /\ Shaped(F) /\ Good(frames, top)
  BY <1>2, FrameArray, NewestFrame
<1>4. F.kind = "try" /\ F.phase \notin Reports
  BY <1>2, <1>3 DEF Shaped, PhasesOf, Frame, Kinds, Reports
<1>5. ASSUME ~F.catch, F.caught # NoValue PROVE jmp' # 0 /\ exc' = F.caught
  <2>1. Pending(F)
    BY <1>2, <1>5 DEF Pending
  <2>2. F.caught # NullValue /\ exc = F.caught
    BY <1>2, <1>3, <2>1 DEF Accounted, Kept, Sole
  <2>3. F.recb # 0
    BY <1>3, <1>4 DEF Good, InnermostIn
  <2> QED
    BY <1>2, <1>5, <2>2, <2>3 DEF LeaveTry, LongJump, OuterHandler
<1>6. ASSUME F.caught = NoValue PROVE jmp' = 0
  <2>1. exc = NullValue
    <3> SUFFICES ASSUME exc # NullValue PROVE FALSE
      OBVIOUS
    <3>1. PICK i \in 1 .. top : Pending(frames[i])
      BY <1>2, <1>3, <1>4 DEF Accounted, Kept
    <3>2. ~Pending(F)
      BY <1>2, <1>6 DEF Pending
    <3>3. top \in i + 1 .. top
      BY <1>3, <3>1, <3>2
    <3> QED
      BY <1>3, <1>4, <3>1, <3>3 DEF Accounted, Kept, Sole
  <2> QED
    BY <1>2, <2>1 DEF LeaveTry
<1> QED
  BY <1>5, <1>6

\* A finally block throws again what was pending when it began, itself, and only
\* that (execute.c execute_try_statement), as long as no try statement runs in
\* between and nothing throws null.
THEOREM FinallyThrowsAgain ==
  ASSUME ~TriesWhilePending, NullValue \notin Thrown \union Created
  PROVE  Spec => FinallyRethrows
<1>1. Orderly
  BY DEF Orderly
<1>2. IInv /\ Accounted /\ [Next]_vars =>
        [LeavesFinally /\ ~F.catch /\ F.caught # NoValue => jmp' # 0 /\ exc' = F.caught]_vars
  BY <1>1, RethrowsAtEnd
<1>3. IInv /\ Accounted /\ [Next]_vars => [LeavesFinally /\ F.caught = NoValue => jmp' = 0]_vars
  BY <1>1, RethrowsAtEnd
<1> QED
  BY <1>2, <1>3, Invariance, ExceptionsAccounted, PTL
     DEF Spec, FinallyRethrows, PendingIsRethrown, NoSpuriousThrow

=============================================================================
