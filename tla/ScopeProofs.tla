----------------------------- MODULE ScopeProofs -----------------------------
(***************************************************************************)
(* Proofs about Scope, for any names, values and functions, and any number *)
(* of scopes and environments.                                             *)
(***************************************************************************)
EXTENDS Scope, LeastNumber, SequenceTheorems

-----------------------------------------------------------------------------
(* Finding a name in one scope.                                            *)

Positions(variables, x) == {k \in 1 .. Len(variables) : variables[k].name = x}

\* IndexIn is the first position of the name, and 0 if it has none.
LEMMA IndexIsFirst ==
  ASSUME NEW s, NEW x, Len(s) \in Nat
  PROVE  /\ IndexIn(s, x) \in 0 .. Len(s)
         /\ IndexIn(s, x) = 0 <=> Positions(s, x) = {}
         /\ IndexIn(s, x) # 0 =>
              IndexIn(s, x) \in Positions(s, x) /\ \A k \in Positions(s, x) : IndexIn(s, x) <= k
<1> DEFINE P == Positions(s, x)
<1>1. P \in SUBSET (1 .. Len(s)) /\ P \in SUBSET Nat
  BY DEF Positions
<1>2. IndexIn(s, x) = IF P # {} THEN CHOOSE k \in P : \A j \in P : k <= j ELSE 0
  BY DEF IndexIn, SelectInSeq, Min, Positions
<1> HIDE DEF P
<1>3. CASE P = {}
  BY <1>2, <1>3 DEF P
<1>4. CASE P # {}
  <2>1. \E k \in P : \A j \in P : k <= j
    BY <1>1, <1>4, Least
  <2> DEFINE c == CHOOSE k \in P : \A j \in P : k <= j
  <2>2. c \in P /\ \A j \in P : c <= j
    BY <2>1
  <2>3. IndexIn(s, x) = c
    BY <1>2, <1>4
  <2> HIDE DEF c
  <2>4. c \in 1 .. Len(s) /\ c # 0
    BY <1>1, <2>2
  <2> QED
    BY <1>4, <2>2, <2>3, <2>4 DEF P
<1> QED
  BY <1>3, <1>4

\* A name that has been found is found at the same place when variables are added behind, and
\* so is the absence of one when none of them has it.
LEMMA IndexIsKept ==
  ASSUME NEW s, NEW t, NEW x, Len(s) \in Nat, Len(t) \in Nat, Len(s) <= Len(t),
         \A k \in 1 .. Len(s) : t[k].name = s[k].name,
         IndexIn(s, x) # 0 \/ \A k \in Len(s) + 1 .. Len(t) : t[k].name # x
  PROVE  IndexIn(t, x) = IndexIn(s, x)
<1>1. Positions(s, x) \subseteq Positions(t, x)
  BY DEF Positions
<1>2. CASE IndexIn(s, x) # 0
  <2>1. IndexIn(s, x) \in Positions(s, x) /\ \A k \in Positions(s, x) : IndexIn(s, x) <= k
    BY <1>2, IndexIsFirst
  <2>2. IndexIn(t, x) # 0
    BY <1>1, <2>1, IndexIsFirst
  <2>3. IndexIn(t, x) \in Positions(t, x) /\ \A k \in Positions(t, x) : IndexIn(t, x) <= k
    BY <2>2, IndexIsFirst
  <2> DEFINE i == IndexIn(s, x)
             j == IndexIn(t, x)
  <2>4. i \in 1 .. Len(s) /\ j \in 1 .. Len(t) /\ j <= i
    BY <1>1, <2>1, <2>3 DEF Positions
  <2>5. j \in 1 .. Len(s)
    BY <2>4
  <2>6. j \in Positions(s, x)
    BY <2>3, <2>5 DEF Positions
  <2>7. i <= j
    BY <2>1, <2>6
  <2> QED
    BY <2>4, <2>7
<1>3. CASE IndexIn(s, x) = 0
  <2>1. Positions(s, x) = {}
    BY <1>3, IndexIsFirst
  <2>2. ASSUME NEW k \in Positions(t, x) PROVE FALSE
    <3>1. k \in 1 .. Len(t) /\ t[k].name = x
      BY DEF Positions
    <3>2. CASE k <= Len(s)
      BY <2>1, <3>1, <3>2 DEF Positions
    <3>3. CASE ~(k <= Len(s))
      BY <1>3, <3>1, <3>3
    <3> QED
      BY <3>2, <3>3
  <2>3. Positions(t, x) = {}
    BY <2>2
  <2> QED
    BY <1>3, <2>3, IndexIsFirst
<1> QED
  BY <1>2, <1>3

-----------------------------------------------------------------------------
(* Finding a name along the scopes: of scopes F, with N the scopes outside *)
(* of them.                                                                *)

Chained(F, N) ==
  /\ Len(F) \in Nat
  /\ \A s \in 1 .. Len(F) : Len(F[s]) \in Nat /\ N[s] \in 0 .. s - 1

\* CRB_search_local_variable, as SearchLocal has it
Found(F, N, s, x) ==
  LET found[t \in 0 .. Len(F)] ==
        IF t = 0 THEN Nowhere
        ELSE LET j == IndexIn(F[t], x) IN IF j # 0 THEN <<t, j>> ELSE found[N[t]]
  IN found[s]

LEMMA SearchIsFound == \A s, x : SearchLocal(s, x) = Found(frame, next, s, x)
BY DEF SearchLocal, Found, Scopes

\* f answers for the scopes up to n.
Answers(F, N, f, n, x) ==
  \A t \in 0 .. n :
    f[t] = IF t = 0 THEN Nowhere
           ELSE IF IndexIn(F[t], x) # 0 THEN <<t, IndexIn(F[t], x)>> ELSE f[N[t]]

LEMMA AnswersExist ==
  ASSUME NEW F, NEW N, NEW x, Chained(F, N)
  PROVE  \A n \in 0 .. Len(F) : \E f : Answers(F, N, f, n, x)
<1> DEFINE T == {n \in 0 .. Len(F) : ~\E f : Answers(F, N, f, n, x)}
<1>1. SUFFICES ASSUME T # {} PROVE FALSE
  BY DEF T
<1>2. T \in SUBSET Nat
  BY DEF Chained
<1>3. PICK n \in T : \A m \in T : n <= m
  <2> HIDE DEF T
  <2> QED
    BY <1>1, <1>2, Least
<1>4. n \in 0 .. Len(F) /\ Len(F) \in Nat /\ n \in Nat /\ ~\E f : Answers(F, N, f, n, x)
  BY DEF Chained
<1>5. n # 0
  <2>1. Answers(F, N, [t \in 0 .. 0 |-> Nowhere], 0, x)
    BY DEF Answers
  <2> QED
    BY <1>4, <2>1
<1>6. n - 1 \in 0 .. Len(F) /\ n - 1 \in Nat /\ n \in 1 .. Len(F)
  BY <1>4, <1>5
<1>7. PICK f : Answers(F, N, f, n - 1, x)
  <2>1. n - 1 \notin T
    BY <1>3, <1>4, <1>6
  <2> QED
    BY <1>6, <2>1
<1> DEFINE j == IndexIn(F[n], x)
           g == [t \in 0 .. n |-> IF t = n THEN (IF j # 0 THEN <<n, j>> ELSE f[N[n]]) ELSE f[t]]
<1>8. ASSUME NEW t \in 0 .. n
      PROVE  g[t] = IF t = 0 THEN Nowhere
                    ELSE IF IndexIn(F[t], x) # 0 THEN <<t, IndexIn(F[t], x)>> ELSE g[N[t]]
  <2>1. CASE t = n
    <3>1. N[n] \in 0 .. n /\ N[n] # n
      BY <1>4, <1>6 DEF Chained
    <3> QED
      BY <1>5, <2>1, <3>1
  <2>2. CASE t # n
    <3>1. t \in 0 .. n - 1
      BY <1>4, <2>2
    <3>2. f[t] = IF t = 0 THEN Nowhere
                 ELSE IF IndexIn(F[t], x) # 0 THEN <<t, IndexIn(F[t], x)>> ELSE f[N[t]]
      BY <1>7, <3>1 DEF Answers
    <3>3. t # 0 => N[t] \in 0 .. n /\ N[t] # n
      <4>1. t # 0 => t \in 1 .. Len(F)
        BY <1>4, <3>1
      <4> QED
        BY <1>4, <3>1, <4>1 DEF Chained
    <3> QED
      BY <2>2, <3>2, <3>3
  <2> QED
    BY <2>1, <2>2
<1> HIDE DEF g
<1>9. Answers(F, N, g, n, x)
  BY <1>8 DEF Answers
<1> QED
  BY <1>4, <1>9

\* The equations of CRB_search_local_variable
LEMMA FoundSteps ==
  ASSUME NEW F, NEW N, NEW x, NEW s, Chained(F, N)
  PROVE  /\ Found(F, N, 0, x) = Nowhere
         /\ s \in 1 .. Len(F) =>
              /\ IndexIn(F[s], x) # 0 => Found(F, N, s, x) = <<s, IndexIn(F[s], x)>>
              /\ IndexIn(F[s], x) = 0 => Found(F, N, s, x) = Found(F, N, N[s], x)
<1> DEFINE D == 0 .. Len(F)
           Body(f) == [t \in D |->
                         IF t = 0 THEN Nowhere
                         ELSE IF IndexIn(F[t], x) # 0 THEN <<t, IndexIn(F[t], x)>>
                         ELSE f[N[t]]]
           found == CHOOSE f : f = Body(f)
<1>1. Len(F) \in Nat /\ Len(F) \in D /\ \A t \in 1 .. Len(F) : t \in D /\ t # 0 /\ N[t] \in D
  BY DEF Chained
<1>2. \E f : f = Body(f)
  <2>1. PICK f : Answers(F, N, f, Len(F), x)
    BY <1>1, AnswersExist
  <2> DEFINE g == [t \in D |-> f[t]]
  <2>2. ASSUME NEW t \in D
        PROVE  g[t] = IF t = 0 THEN Nowhere
                      ELSE IF IndexIn(F[t], x) # 0 THEN <<t, IndexIn(F[t], x)>>
                      ELSE g[N[t]]
    <3>1. f[t] = IF t = 0 THEN Nowhere
                 ELSE IF IndexIn(F[t], x) # 0 THEN <<t, IndexIn(F[t], x)>> ELSE f[N[t]]
      BY <2>1 DEF Answers
    <3>2. t # 0 => N[t] \in D
      BY <1>1
    <3> QED
      BY <3>1, <3>2
  <2>3. g = Body(g)
    BY <2>2
  <2> QED
    BY <2>3
<1>3. found = Body(found)
  BY <1>2
<1>4. \A r : Found(F, N, r, x) = found[r]
  BY DEF Found
<1> HIDE DEF found
<1>5. \A t \in D : found[t] = IF t = 0 THEN Nowhere
                              ELSE IF IndexIn(F[t], x) # 0 THEN <<t, IndexIn(F[t], x)>>
                              ELSE found[N[t]]
  BY <1>3
<1>6. 0 \in D
  BY <1>1
<1> QED
  BY <1>1, <1>4, <1>5, <1>6

\* What is found along the scopes lies in one of them.
LEMMA FoundInAScope ==
  ASSUME NEW F, NEW N, NEW x, Chained(F, N), NEW s \in 0 .. Len(F)
  PROVE  \/ Found(F, N, s, x) = Nowhere
         \/ \E t \in 1 .. s : /\ Found(F, N, s, x) = <<t, IndexIn(F[t], x)>>
                              /\ t \in 1 .. Len(F) /\ IndexIn(F[t], x) # 0
<1> DEFINE Fine(n) == \/ Found(F, N, n, x) = Nowhere
                      \/ \E t \in 1 .. n : /\ Found(F, N, n, x) = <<t, IndexIn(F[t], x)>>
                                           /\ t \in 1 .. Len(F) /\ IndexIn(F[t], x) # 0
           T == {n \in 0 .. Len(F) : ~Fine(n)}
<1>1. SUFFICES ASSUME T # {} PROVE FALSE
  BY DEF T
<1>2. T \in SUBSET Nat /\ Len(F) \in Nat
  BY DEF Chained
<1>3. PICK n \in T : \A m \in T : n <= m
  <2> HIDE DEF T
  <2> QED
    BY <1>1, <1>2, Least
<1>4. n \in 0 .. Len(F) /\ n \in Nat /\ ~Fine(n)
  BY <1>2
<1>5. n # 0
  BY <1>4, FoundSteps
<1>6. n \in 1 .. Len(F) /\ n \in 1 .. n
  BY <1>2, <1>4, <1>5
<1>7. Found(F, N, n, x) = IF IndexIn(F[n], x) # 0 THEN <<n, IndexIn(F[n], x)>>
                          ELSE Found(F, N, N[n], x)
  BY <1>6, FoundSteps
<1>8. CASE IndexIn(F[n], x) # 0
  BY <1>4, <1>6, <1>7, <1>8
<1>9. CASE IndexIn(F[n], x) = 0
  <2> DEFINE m == N[n]
  <2>1. m \in 0 .. n - 1
    BY <1>6 DEF Chained
  <2> HIDE DEF m
  <2>2. m \in 0 .. Len(F) /\ ~(n <= m)
    BY <1>2, <1>4, <2>1
  <2>3. Fine(m)
    BY <1>3, <2>2
  <2>4. \A t \in 1 .. m : t \in 1 .. n
    BY <1>4, <2>1
  <2>5. Fine(n)
    BY <1>7, <1>9, <2>3, <2>4 DEF m
  <2> QED
    BY <1>4, <2>5
<1> QED
  BY <1>8, <1>9

\* A search meets only the scope it begins in and older ones: if the name is where it was in
\* these, it is found where it was.
LEMMA FoundIsKept ==
  ASSUME NEW F, NEW N, NEW G, NEW M, NEW x, NEW s \in 0 .. Len(F),
         Chained(F, N), Chained(G, M), Len(F) <= Len(G),
         \A t \in 1 .. s : M[t] = N[t] /\ IndexIn(G[t], x) = IndexIn(F[t], x)
  PROVE  Found(G, M, s, x) = Found(F, N, s, x)
<1> DEFINE T == {n \in 0 .. s : Found(G, M, n, x) # Found(F, N, n, x)}
<1>0. Len(F) \in Nat /\ Len(G) \in Nat /\ s \in Nat
  BY DEF Chained
<1>1. SUFFICES ASSUME T # {} PROVE FALSE
  BY <1>0 DEF T
<1>2. T \in SUBSET Nat
  BY <1>0
<1>3. PICK n \in T : \A m \in T : n <= m
  <2> HIDE DEF T
  <2> QED
    BY <1>1, <1>2, Least
<1>4. n \in 0 .. s /\ n \in Nat /\ Found(G, M, n, x) # Found(F, N, n, x)
  BY <1>0
<1>5. Found(F, N, 0, x) = Nowhere /\ Found(G, M, 0, x) = Nowhere
  BY FoundSteps
<1>6. n # 0
  BY <1>4, <1>5
<1>7. n \in 1 .. Len(F) /\ n \in 1 .. Len(G) /\ n \in 1 .. s
  BY <1>0, <1>4, <1>6
<1>8. Found(F, N, n, x) = IF IndexIn(F[n], x) # 0 THEN <<n, IndexIn(F[n], x)>>
                          ELSE Found(F, N, N[n], x)
  BY <1>7, FoundSteps
<1>9. Found(G, M, n, x) = IF IndexIn(G[n], x) # 0 THEN <<n, IndexIn(G[n], x)>>
                          ELSE Found(G, M, M[n], x)
  BY <1>7, FoundSteps
<1> DEFINE m == N[n]
<1>10. m \in 0 .. n - 1
  BY <1>7 DEF Chained
<1> HIDE DEF m
<1>11. m \in 0 .. s /\ ~(n <= m)
  BY <1>0, <1>4, <1>10
<1>12. Found(G, M, m, x) = Found(F, N, m, x)
  BY <1>3, <1>11
<1> QED
  BY <1>4, <1>7, <1>8, <1>9, <1>12 DEF m

-----------------------------------------------------------------------------
(* Finding a variable.                                                     *)

LEMMA ChainedScopes == TypeOK => Chained(frame, next) /\ Len(environment) \in Nat
BY DEF TypeOK, Chained, Scopes, Variable

\* l is where the name is found from an environment.
Finds(e, x, l) ==
  \/ /\ l[1] \in 1 .. ScopeOf(e) /\ l[1] \in Scopes /\ l[1] # 0
     /\ l = <<l[1], IndexIn(frame[l[1]], x)>> /\ l[2] \in 1 .. Len(frame[l[1]])
     /\ frame[l[1]][l[2]].name = x
  \/ /\ l = <<0, IndexIn(variable, x)>> /\ l[1] = 0 /\ l[2] \in 1 .. Len(variable)
     /\ variable[l[2]].name = x
     /\ e = 0 \/ x \in environment[e].global_variable

LEMMA ScopesOfEnvironments ==
  ASSUME TypeOK, NEW e \in 0 .. Len(environment)
  PROVE  ScopeOf(e) \in 0 .. Len(frame) /\ (e # 0 => ScopeOf(e) \in Scopes)
<1>1. e # 0 => e \in 1 .. Len(environment)
  BY ChainedScopes
<1>2. e # 0 => environment[e] \in Environments
  BY <1>1 DEF TypeOK
<1> QED
  BY <1>2, ChainedScopes DEF ScopeOf, Environments, Scopes, Chained

LEMMA SearchFinds ==
  ASSUME TypeOK, NEW e \in 0 .. Len(environment), NEW x, Search(e, x)[2] # 0
  PROVE  Finds(e, x, Search(e, x))
<1> DEFINE s == ScopeOf(e)
           local == Found(frame, next, s, x)
<1>1. s \in 0 .. Len(frame) /\ Chained(frame, next)
  BY ChainedScopes, ScopesOfEnvironments
<1>2. Search(e, x) = IF local[1] # 0 THEN local ELSE SearchGlobal(e, x)
  BY SearchIsFound DEF Search
<1> HIDE DEF s
<1>3. \/ local = Nowhere
      \/ \E t \in 1 .. s : /\ local = <<t, IndexIn(frame[t], x)>>
                           /\ t \in 1 .. Len(frame) /\ IndexIn(frame[t], x) # 0
  BY <1>1, FoundInAScope
<1> HIDE DEF local
<1>4. CASE local = Nowhere
  <2>1. Search(e, x) = <<0, IndexIn(variable, x)>> /\ (e = 0 \/ x \in environment[e].global_variable)
    BY <1>2, <1>4 DEF SearchGlobal, Nowhere
  <2>2. IndexIn(variable, x) # 0 /\ Len(variable) \in Nat
    BY <2>1 DEF TypeOK
  <2>3. IndexIn(variable, x) \in Positions(variable, x)
    BY <2>2, IndexIsFirst
  <2> QED
    BY <2>1, <2>3 DEF Finds, Positions
<1>5. ASSUME NEW t \in 1 .. s, local = <<t, IndexIn(frame[t], x)>>,
             t \in 1 .. Len(frame), IndexIn(frame[t], x) # 0
      PROVE  Finds(e, x, Search(e, x))
  <2>1. t # 0 /\ Search(e, x) = <<t, IndexIn(frame[t], x)>>
    BY <1>2, <1>5
  <2>2. Len(frame[t]) \in Nat
    BY <1>1, <1>5 DEF Chained
  <2>3. IndexIn(frame[t], x) \in Positions(frame[t], x)
    BY <1>5, <2>2, IndexIsFirst
  <2> QED
    BY <1>5, <2>1, <2>3 DEF Finds, Positions, s, Scopes
<1> QED
  BY <1>3, <1>4, <1>5

LEMMA CurrentEnvironment == TypeOK => Current \in 0 .. Len(environment)
<1> SUFFICES ASSUME TypeOK PROVE Current \in 0 .. Len(environment)
  OBVIOUS
<1>1. Len(environment) \in Nat
  BY ChainedScopes
<1>2. Len(environment) # 0 => environment[Len(environment)].caller \in 0 .. Len(environment) - 1
  BY <1>1 DEF TypeOK
<1> QED
  BY <1>1, <1>2 DEF Current

-----------------------------------------------------------------------------
(* Types.                                                                  *)

Values(n) == Data \union Closures(1 .. n)

LEMMA SequencesGrow == ASSUME NEW S, NEW T, S \subseteq T PROVE Seq(S) \subseteq Seq(T)
<1> SUFFICES ASSUME NEW s \in Seq(S) PROVE s \in Seq(T)
  OBVIOUS
<1>1. Len(s) \in Nat /\ s \in [1 .. Len(s) -> T]
  BY SMT
<1> QED
  BY <1>1

LEMMA ValuesGrow ==
  ASSUME NEW n \in Nat
  PROVE  /\ Values(n) \subseteq Values(n + 1)
         /\ Variable(Values(n)) \subseteq Variable(Values(n + 1))
         /\ Seq(Variable(Values(n))) \subseteq Seq(Variable(Values(n + 1)))
         /\ Seq(Seq(Variable(Values(n)))) \subseteq Seq(Seq(Variable(Values(n + 1))))
<1>1. 1 .. n \subseteq 1 .. n + 1
  OBVIOUS
<1>2. Values(n) \subseteq Values(n + 1)
  BY <1>1 DEF Values, Closures
<1>3. Variable(Values(n)) \subseteq Variable(Values(n + 1))
  BY <1>2 DEF Variable
<1> QED
  BY <1>2, <1>3, SequencesGrow

\* TypeOK with the number of scopes in the place of the scopes
LEMMA Types ==
  TypeOK <=> LET n == Len(frame) IN
             /\ variable \in Seq(Variable(Values(n)))
             /\ frame \in Seq(Seq(Variable(Values(n))))
             /\ next \in Seq(Nat) /\ Len(next) = n /\ \A s \in 1 .. n : next[s] \in 0 .. s - 1
             /\ environment \in Seq(Environments)
             /\ \A e \in 1 .. Len(environment) : environment[e].caller \in 0 .. e - 1
             /\ value \in Values(n)
BY DEF TypeOK, Values, Scopes

\* A store replaces the value of a variable.
LEMMA StoredVariables ==
  ASSUME NEW V, NEW v \in V, NEW s \in Seq(Variable(V)), NEW k \in 1 .. Len(s)
  PROVE  [s EXCEPT ![k].value = v] \in Seq(Variable(V))
<1>1. s[k] \in Variable(V)
  OBVIOUS
<1>2. [s[k] EXCEPT !.value = v] \in Variable(V)
  BY <1>1 DEF Variable
<1> QED
  BY <1>2

LEMMA AddedVariables ==
  ASSUME NEW V, NEW v \in V, NEW s \in Seq(Variable(V)), NEW x \in Names, NEW b \in BOOLEAN
  PROVE  Append(s, [name |-> x, value |-> v, is_final |-> b]) \in Seq(Variable(V))
BY DEF Variable

LEMMA AssignKeepsTypes ==
  ASSUME TypeOK, Assign PROVE TypeOK'
<1> DEFINE n == Len(frame)
           V == Values(n)
<1>1. /\ variable \in Seq(Variable(V)) /\ frame \in Seq(Seq(Variable(V))) /\ value \in V
      /\ n \in Nat /\ n = Len(frame)
  BY Types
<1>2. PICK x \in Names, is_final \in BOOLEAN :
        LET l == Lvalue(Current, x) IN
        \/ l[2] = 0 /\ AddVariable(x, is_final)
        \/ l[2] # 0 /\ ~CannotAssign(Current, l) /\ Store(l)
  BY DEF Assign
<1>3. UNCHANGED <<next, environment, value>>
  BY DEF Assign
<1>4. SUFFICES /\ variable' \in Seq(Variable(V))
               /\ frame' \in Seq(Seq(Variable(V))) /\ Len(frame') = n
  <2>1. Len(frame') = Len(frame) => Scopes' = Scopes
    BY DEF Scopes
  <2> QED
    BY <1>3, <2>1 DEF TypeOK, Values, Scopes, Environments
<1> HIDE DEF V, n
<1>5. CASE AddVariable(x, is_final)
  <2>1. CASE Current = 0
    BY <1>1, <1>5, <2>1, AddedVariables DEF AddVariable
  <2>2. CASE Current # 0
    <3> DEFINE s == ScopeOf(Current)
    <3>1. s \in 1 .. n
      BY <1>1, <2>2, CurrentEnvironment, ScopesOfEnvironments DEF Scopes
    <3>2. /\ variable' = variable
          /\ frame' = [frame EXCEPT ![s] = Append(@, [name |-> x, value |-> value, is_final |-> is_final])]
      BY <1>5, <2>2 DEF AddVariable
    <3> HIDE DEF s
    <3>3. frame[s] \in Seq(Variable(V))
      BY <1>1, <3>1
    <3>4. Append(frame[s], [name |-> x, value |-> value, is_final |-> is_final]) \in Seq(Variable(V))
      BY <1>1, <3>3, AddedVariables
    <3> QED
      BY <1>1, <3>1, <3>2, <3>4
  <2> QED
    BY <2>1, <2>2
<1>6. ASSUME NEW l, l = Lvalue(Current, x), l[2] # 0, Store(l)
      PROVE  /\ variable' \in Seq(Variable(V))
             /\ frame' \in Seq(Seq(Variable(V))) /\ Len(frame') = n
  <2>1. Finds(Current, x, l)
    BY <1>6, CurrentEnvironment, SearchFinds DEF Lvalue
  <2>2. CASE l[1] = 0
    <3>1. variable' = [variable EXCEPT ![l[2]].value = value] /\ frame' = frame
      BY <1>6, <2>2 DEF Store
    <3>2. l[2] \in 1 .. Len(variable)
      BY <2>1, <2>2 DEF Finds
    <3> QED
      BY <1>1, <3>1, <3>2, StoredVariables
  <2>3. CASE l[1] # 0
    <3>1. frame' = [frame EXCEPT ![l[1]][l[2]].value = value] /\ variable' = variable
      BY <1>6, <2>3 DEF Store
    <3>2. l[1] \in 1 .. n /\ l[2] \in 1 .. Len(frame[l[1]])
      BY <1>1, <2>1, <2>3 DEF Finds, Scopes
    <3>3. frame[l[1]] \in Seq(Variable(V))
      BY <1>1, <3>2
    <3>4. [frame[l[1]] EXCEPT ![l[2]].value = value] \in Seq(Variable(V))
      BY <1>1, <3>2, <3>3, StoredVariables
    <3> QED
      BY <1>1, <3>1, <3>2, <3>4
  <2> QED
    BY <2>2, <2>3
<1> QED
  BY <1>2, <1>5, <1>6

LEMMA CallKeepsTypes ==
  ASSUME TypeOK, Call PROVE TypeOK'
<1> DEFINE n == Len(frame)
           d == Len(environment)
           new == [variable |-> n + 1, global_variable |-> {}, function |-> value.function,
                   unbound |-> value.function.parameter, caller |-> Current]
<1>1. /\ variable \in Seq(Variable(Values(n))) /\ frame \in Seq(Seq(Variable(Values(n))))
      /\ value \in Values(n) /\ n \in Nat /\ n = Len(frame) /\ d \in Nat /\ d = Len(environment)
      /\ Len(next) = n /\ \A s \in 1 .. n : next[s] \in 0 .. s - 1
      /\ environment \in Seq(Environments)
      /\ \A e \in 1 .. d : environment[e].caller \in 0 .. e - 1
  BY Types
<1>2. /\ value \notin Data /\ frame' = Append(frame, FirstVariables(value))
      /\ next' = Append(next, value.environment) /\ environment' = Append(environment, new)
      /\ UNCHANGED <<variable, value>>
  BY DEF Call
<1>3. value.function \in Functions /\ value.environment \in 0 .. n /\ value \in Closures(1 .. n)
  BY <1>1, <1>2 DEF Values, Closures
<1>4. /\ value.function.name \in Names \union {NoName} /\ value.function.parameter \in Seq(Names)
      /\ value.function.is_closure \in BOOLEAN
  BY <1>3, FunctionsAssumption
<1>5. FirstVariables(value) \in Seq(Variable(Values(n + 1)))
  <2>1. value \in Values(n + 1)
    BY <1>1, ValuesGrow
  <2> DEFINE first == [name |-> value.function.name, value |-> value, is_final |-> TRUE]
  <2>2. value.function.name # NoName => first \in Variable(Values(n + 1))
    <3> HIDE DEF n
    <3> QED
      BY <1>4, <2>1 DEF Variable
  <2> HIDE DEF first
  <2>3. FirstVariables(value) = IF value.function.is_closure /\ value.function.name # NoName
                                  THEN <<first>> ELSE <<>>
    BY DEF FirstVariables, first
  <2> DEFINE S == Variable(Values(n + 1))
  <2> HIDE DEF S
  <2>4. (first \in S => <<first>> \in Seq(S)) /\ <<>> \in Seq(S)
    OBVIOUS
  <2>5. value.function.is_closure /\ value.function.name # NoName => first \in S
    BY <2>2 DEF S
  <2> QED
    BY <2>3, <2>4, <2>5 DEF S
<1>6. frame' \in Seq(Seq(Variable(Values(n + 1)))) /\ Len(frame') = n + 1
  <2>1. frame \in Seq(Seq(Variable(Values(n + 1))))
    BY <1>1, ValuesGrow
  <2> HIDE DEF n
  <2> QED
    BY <1>1, <1>2, <1>5, <2>1
<1>7. variable' \in Seq(Variable(Values(n + 1))) /\ value' \in Values(n + 1)
  BY <1>1, <1>2, ValuesGrow
<1>8. environment' \in Seq(Environments)' /\ Len(environment') = d + 1
  <2>1. Environments \subseteq Environments'
    <3>1. Scopes \subseteq Scopes'
      BY <1>1, <1>6 DEF Scopes
    <3> QED
      BY <3>1 DEF Environments
  <2>2. environment \in Seq(Environments)'
    BY <1>1, <2>1, SequencesGrow
  <2>3. Current \in Nat
    BY <1>1, CurrentEnvironment
  <2>4. new \in Environments'
    BY <1>1, <1>3, <1>4, <1>6, <2>3 DEF Environments, Scopes
  <2> HIDE DEF new, d
  <2> QED
    BY <1>1, <1>2, <2>2, <2>4
<1>9. ASSUME NEW e \in 1 .. d + 1 PROVE environment'[e].caller \in 0 .. e - 1
  <2>1. CASE e = d + 1
    <3>1. environment'[e] = new
      <4> HIDE DEF new, d
      <4> QED
        BY <1>1, <1>2, <2>1
    <3> QED
      BY <1>1, <2>1, <3>1, CurrentEnvironment
  <2>2. CASE e # d + 1
    <3>1. e \in 1 .. d
      BY <1>1, <2>2
    <3>2. environment'[e] = environment[e]
      <4> HIDE DEF new, d
      <4> QED
        BY <1>1, <1>2, <3>1
    <3> QED
      BY <1>1, <3>1, <3>2
  <2> QED
    BY <2>1, <2>2
<1>10. next' \in Seq(Nat) /\ Len(next') = n + 1 /\ \A s \in 1 .. n + 1 : next'[s] \in 0 .. s - 1
  <2>1. value.environment \in Nat /\ next' = Append(next, value.environment)
    BY <1>1, <1>2, <1>3
  <2>2. next \in Seq(Nat) /\ Len(next) = n
    BY Types
  <2> HIDE DEF n
  <2>3. next' \in Seq(Nat) /\ Len(next') = n + 1
    BY <1>1, <2>1, <2>2
  <2>4. ASSUME NEW s \in 1 .. n + 1 PROVE next'[s] \in 0 .. s - 1
    <3>1. CASE s = n + 1
      BY <1>1, <1>3, <2>1, <2>2, <3>1
    <3>2. CASE s # n + 1
      <4>1. s \in 1 .. n /\ next'[s] = next[s]
        BY <1>1, <2>1, <2>2, <3>2
      <4> QED
        BY <1>1, <4>1
    <3> QED
      BY <3>1, <3>2
  <2> QED
    BY <2>3, <2>4
<1> HIDE DEF n, d
<1> QED
  BY <1>6, <1>7, <1>8, <1>9, <1>10 DEF TypeOK, Values, Scopes

LEMMA BindParameterKeepsTypes ==
  ASSUME TypeOK, BindParameter PROVE TypeOK'
<1> DEFINE n == Len(frame)
           V == Values(n)
           top == Len(environment)
           s == environment[top].variable
           new == [name |-> Head(environment[top].unbound), value |-> value, is_final |-> FALSE]
<1>1. /\ variable \in Seq(Variable(V)) /\ frame \in Seq(Seq(Variable(V))) /\ value \in V
      /\ n \in Nat /\ n = Len(frame) /\ top \in Nat /\ top = Len(environment)
      /\ environment \in Seq(Environments)
  BY Types
<1>2. /\ top # 0 /\ environment[top].unbound # <<>>
      /\ frame' = [frame EXCEPT ![s] = Append(@, new)]
      /\ environment' = [environment EXCEPT ![top].unbound = Tail(@)]
      /\ UNCHANGED <<variable, next, value>>
  BY DEF BindParameter, Running
<1>3. environment[top] \in Environments /\ top \in 1 .. top
  BY <1>1, <1>2
<1>4. s \in 1 .. n /\ environment[top].unbound \in Seq(Names)
  BY <1>3 DEF Environments, Scopes
<1>5. Head(environment[top].unbound) \in Names /\ Tail(environment[top].unbound) \in Seq(Names)
  BY <1>2, <1>4
<1>6. [environment[top] EXCEPT !.unbound = Tail(@)] \in Environments
  BY <1>3, <1>5 DEF Environments
<1>7. frame' \in Seq(Seq(Variable(V))) /\ Len(frame') = n
  <2> HIDE DEF V, n, s
  <2>1. frame[s] \in Seq(Variable(V))
    BY <1>1, <1>4
  <2>2. Append(frame[s], new) \in Seq(Variable(V))
    BY <1>1, <1>5, <2>1, AddedVariables
  <2> HIDE DEF new
  <2> QED
    BY <1>1, <1>2, <1>4, <2>2
<1>8. environment' \in Seq(Environments) /\ Len(environment') = top
  <2> HIDE DEF top, s, new
  <2> QED
    BY <1>1, <1>2, <1>3, <1>6
<1>9. ASSUME NEW e \in 1 .. top PROVE environment'[e].caller = environment[e].caller
  <2> HIDE DEF top, s, new
  <2> QED
    BY <1>1, <1>2, <1>3 DEF Environments
<1>10. Environments' = Environments /\ Values(Len(frame')) = V
  BY <1>7 DEF Environments, Scopes
<1> HIDE DEF V, s, new
<1> QED
  BY <1>1, <1>2, <1>7, <1>8, <1>9, <1>10, Types DEF TypeOK, Values, Scopes, V

\* The environments that are left when some are disposed of
LEMMA PrefixOfEnvironments ==
  ASSUME NEW S, NEW q \in Seq(S), NEW k \in 0 .. Len(q)
  PROVE  /\ SubSeq(q, 1, k) \in Seq(S) /\ Len(SubSeq(q, 1, k)) = k
         /\ \A e \in 1 .. k : SubSeq(q, 1, k)[e] = q[e]
OBVIOUS

\* A step that leaves the variables and the scopes alone, and keeps environments from the bottom
DisposesOf(k) ==
  /\ k \in 0 .. Len(environment) /\ environment' = SubSeq(environment, 1, k)
  /\ UNCHANGED <<variable, frame, next>>

LEMMA ReturnDisposes ==
  ASSUME TypeOK, Return PROVE DisposesOf(Len(environment) - 1) /\ value' \in {value, Null}
<1>1. Len(environment) \in Nat /\ environment \in Seq(Environments)
  BY DEF TypeOK
<1>2. environment # <<>> /\ environment' = SubSeq(environment, 1, Len(environment) - 1)
  BY DEF Return, WithoutTop, Front
<1>3. Len(environment) # 0
  BY <1>1, <1>2
<1> QED
  BY <1>1, <1>2, <1>3 DEF Return, DisposesOf

LEMMA CatchDisposes ==
  ASSUME TypeOK, Catch PROVE (\E k : DisposesOf(k)) /\ value' = Null
<1>1. PICK k \in {0} \union {j \in 1 .. Len(environment) - 1 : Running(j)} :
        environment' = SubSeq(environment, 1, k)
  BY DEF Catch
<1>2. k \in 0 .. Len(environment)
  BY ChainedScopes
<1> QED
  BY <1>1, <1>2 DEF Catch, DisposesOf

LEMMA DisposalKeepsTypes ==
  ASSUME TypeOK, NEW k, DisposesOf(k), value' \in {value, Null} PROVE TypeOK'
<1>1. /\ environment' \in Seq(Environments) /\ Len(environment') = k
      /\ \A e \in 1 .. k : environment'[e] = environment[e] /\ e \in 1 .. Len(environment)
  BY PrefixOfEnvironments DEF TypeOK, DisposesOf
<1>2. value' \in Values(Len(frame))
  BY DataAssumption, Types DEF Values
<1>3. Environments' = Environments
  BY DEF DisposesOf, Environments, Scopes
<1> QED
  BY <1>1, <1>2, <1>3, Types DEF DisposesOf, TypeOK, Values, Scopes

LEMMA GlobalStatementKeepsTypes ==
  ASSUME TypeOK, GlobalStatement PROVE TypeOK'
<1>1. PICK x \in Names :
        environment' = [environment EXCEPT ![Current].global_variable = @ \union {x}]
  BY DEF GlobalStatement
<1> DEFINE c == Current
<1>2. c \in 1 .. Len(environment) /\ environment' = [environment EXCEPT ![c].global_variable = @ \union {x}]
  <2>1. c # 0 /\ c \in 0 .. Len(environment) /\ Len(environment) \in Nat
    BY CurrentEnvironment, ChainedScopes DEF GlobalStatement
  <2> QED
    BY <1>1, <2>1
<1>3. environment \in Seq(Environments)
  BY DEF TypeOK
<1> HIDE DEF c
<1>4. environment[c] \in Environments
  BY <1>2, <1>3
<1>5. [environment[c] EXCEPT !.global_variable = @ \union {x}] \in Environments
  BY <1>4 DEF Environments
<1>6. environment' \in Seq(Environments) /\ Len(environment') = Len(environment)
  BY <1>2, <1>3, <1>5
<1>7. \A e \in 1 .. Len(environment) : environment'[e].caller = environment[e].caller
  BY <1>2, <1>3, <1>4 DEF Environments
<1>8. UNCHANGED <<variable, frame, next, value>>
  BY DEF GlobalStatement
<1>9. Environments' = Environments
  BY <1>8 DEF Environments, Scopes
<1> QED
  BY <1>6, <1>7, <1>8, <1>9 DEF TypeOK, Values, Scopes

\* The result of an expression that changes nothing else
LEMMA ResultKeepsTypes ==
  ASSUME TypeOK, Literal \/ Identifier \/ ClosureExpression
  PROVE  TypeOK' /\ UNCHANGED <<variable, frame, next, environment>>
<1>1. UNCHANGED <<variable, frame, next, environment>>
  BY DEF Literal, Identifier, ClosureExpression
<1>2. SUFFICES value' \in Values(Len(frame))
  BY <1>1 DEF TypeOK, Values, Scopes, Environments
<1>3. CASE Literal
  BY <1>3 DEF Literal, Values
<1>4. CASE ClosureExpression
  BY <1>4, CurrentEnvironment, ScopesOfEnvironments DEF ClosureExpression, Values, Closures, Scopes
<1>5. CASE Identifier
  <2>1. ASSUME NEW x \in Names, NEW l, l = Search(Current, x), l[2] # 0, value' = At(l).value
        PROVE  value' \in Values(Len(frame))
    <3>1. Finds(Current, x, l)
      BY <2>1, CurrentEnvironment, SearchFinds
    <3>2. /\ variable \in Seq(Variable(Values(Len(frame))))
          /\ frame \in Seq(Seq(Variable(Values(Len(frame)))))
      BY Types
    <3>3. At(l) \in Variable(Values(Len(frame)))
      <4>1. CASE l[1] = 0
        <5>1. l[2] \in 1 .. Len(variable) /\ At(l) = variable[l[2]]
          BY <3>1, <4>1 DEF Finds, At
        <5> QED
          BY <3>2, <5>1
      <4>2. CASE l[1] # 0
        <5>1. /\ l[1] \in 1 .. Len(frame) /\ l[2] \in 1 .. Len(frame[l[1]])
              /\ At(l) = frame[l[1]][l[2]]
          BY <3>1, <4>2 DEF Finds, At, Scopes
        <5>2. frame[l[1]] \in Seq(Variable(Values(Len(frame))))
          BY <3>2, <5>1
        <5> QED
          BY <5>1, <5>2
      <4> QED
        BY <4>1, <4>2
    <3> QED
      BY <2>1, <3>3 DEF Variable
  <2>2. ASSUME NEW f \in Functions, value' = [function |-> f, environment |-> 0]
        PROVE  value' \in Values(Len(frame))
    BY <2>2 DEF Values, Closures
  <2> QED
    BY <1>5, <2>1, <2>2 DEF Identifier, FunctionsNamed
<1> QED
  BY <1>1, <1>3, <1>4, <1>5

LEMMA TypesAreKept == TypeOK /\ [Next]_vars => TypeOK'
<1> SUFFICES ASSUME TypeOK, [Next]_vars PROVE TypeOK'
  OBVIOUS
<1>1. CASE Literal \/ Identifier \/ ClosureExpression
  BY <1>1, ResultKeepsTypes
<1>2. CASE Assign
  BY <1>2, AssignKeepsTypes
<1>3. CASE Call
  BY <1>3, CallKeepsTypes
<1>4. CASE BindParameter
  BY <1>4, BindParameterKeepsTypes
<1>5. CASE Return
  BY <1>5, ReturnDisposes, DisposalKeepsTypes
<1>6. CASE Catch
  BY <1>6, CatchDisposes, DisposalKeepsTypes
<1>7. CASE GlobalStatement
  BY <1>7, GlobalStatementKeepsTypes
<1>8. CASE UNCHANGED vars
  BY <1>8 DEF vars, TypeOK, Environments, Scopes
<1> QED
  BY <1>1, <1>2, <1>3, <1>4, <1>5, <1>6, <1>7, <1>8 DEF Next

-----------------------------------------------------------------------------
(* What a step does to the variables.                                      *)

\* Variables t are those of s, with other values perhaps, and others behind them.
Continues(s, t) ==
  /\ Len(s) \in Nat /\ Len(t) \in Nat /\ Len(s) <= Len(t)
  /\ \A k \in 1 .. Len(s) : t[k].name = s[k].name /\ t[k].is_final = s[k].is_final

LEMMA Continued == ASSUME NEW s, Len(s) \in Nat PROVE Continues(s, s)
BY DEF Continues

\* A store changes one variable, and only its value.
LEMMA StoredContinue ==
  ASSUME NEW V, NEW s \in Seq(Variable(V)), NEW v, NEW k \in 1 .. Len(s)
  PROVE  /\ Continues(s, [s EXCEPT ![k].value = v]) /\ Len([s EXCEPT ![k].value = v]) = Len(s)
         /\ \A j \in 1 .. Len(s) : j # k => [s EXCEPT ![k].value = v][j] = s[j]
<1> DEFINE t == [s EXCEPT ![k].value = v]
<1>1. s[k] \in Variable(V) /\ Len(s) \in Nat
  OBVIOUS
<1>2. [s[k] EXCEPT !.value = v].name = s[k].name /\ [s[k] EXCEPT !.value = v].is_final = s[k].is_final
  BY <1>1 DEF Variable
<1>3. Len(t) = Len(s) /\ \A j \in 1 .. Len(s) : t[j] = IF j = k THEN [s[k] EXCEPT !.value = v] ELSE s[j]
  OBVIOUS
<1> HIDE DEF t
<1>4. ASSUME NEW j \in 1 .. Len(s) PROVE t[j].name = s[j].name /\ t[j].is_final = s[j].is_final
  <2>1. CASE j = k
    BY <1>2, <1>3, <2>1
  <2>2. CASE j # k
    BY <1>3, <2>2
  <2> QED
    BY <2>1, <2>2
<1>5. Continues(s, t)
  BY <1>1, <1>3, <1>4 DEF Continues
<1> QED
  BY <1>3, <1>5 DEF t

\* A new variable is behind the others.
LEMMA AddedContinue ==
  ASSUME NEW V, NEW s \in Seq(V), NEW new
  PROVE  /\ Continues(s, Append(s, new)) /\ Len(Append(s, new)) = Len(s) + 1
         /\ \A j \in 1 .. Len(s) : Append(s, new)[j] = s[j]
         /\ Append(s, new)[Len(s) + 1] = new
<1>1. /\ Len(s) \in Nat /\ Len(Append(s, new)) = Len(s) + 1
      /\ \A j \in 1 .. Len(s) : Append(s, new)[j] = s[j]
      /\ Append(s, new)[Len(s) + 1] = new
  OBVIOUS
<1> QED
  BY <1>1 DEF Continues

\* What an assignment does
Creates(x, is_final) ==
  LET new == [name |-> x, value |-> value, is_final |-> is_final]
      s == ScopeOf(Current) IN
  /\ Search(Current, x)[2] = 0
  /\ \/ /\ Current = 0 /\ FreeForGlobal(x)
        /\ variable' = Append(variable, new) /\ frame' = frame
     \/ /\ Current # 0 /\ s \in Scopes
        /\ frame' = [frame EXCEPT ![s] = Append(@, new)] /\ variable' = variable
Changes(x, l) ==
  /\ Finds(Current, x, l) /\ Search(Current, x) = l /\ ~CannotAssign(Current, l) /\ Store(l)

LEMMA AssignDoes ==
  ASSUME TypeOK, Assign
  PROVE  /\ UNCHANGED <<next, environment, value>>
         /\ \E x \in Names : (\E b \in BOOLEAN : Creates(x, b)) \/ \E l : Changes(x, l)
<1>1. PICK x \in Names, is_final \in BOOLEAN :
        LET l == Lvalue(Current, x) IN
        \/ l[2] = 0 /\ AddVariable(x, is_final)
        \/ l[2] # 0 /\ ~CannotAssign(Current, l) /\ Store(l)
  BY DEF Assign
<1>2. CASE Search(Current, x)[2] = 0 /\ AddVariable(x, is_final)
  <2>1. Current # 0 => ScopeOf(Current) \in Scopes
    BY CurrentEnvironment, ScopesOfEnvironments
  <2>2. Creates(x, is_final)
    BY <1>2, <2>1 DEF AddVariable, Creates
  <2> QED
    BY <2>2 DEF Assign
<1>3. ASSUME NEW l, l = Search(Current, x), l[2] # 0, ~CannotAssign(Current, l), Store(l)
      PROVE  Changes(x, l)
  BY <1>3, CurrentEnvironment, SearchFinds DEF Changes
<1> QED
  BY <1>1, <1>2, <1>3 DEF Lvalue, Assign

\* Scopes continue when one of them is replaced by variables that continue it.
LEMMA OneScopeContinues ==
  ASSUME NEW F, NEW s \in 1 .. Len(F), NEW t, Len(F) \in Nat, DOMAIN F = 1 .. Len(F),
         \A r \in 1 .. Len(F) : Len(F[r]) \in Nat, Continues(F[s], t)
  PROVE  /\ Len([F EXCEPT ![s] = t]) = Len(F) /\ [F EXCEPT ![s] = t][s] = t
         /\ \A r \in 1 .. Len(F) : Continues(F[r], [F EXCEPT ![s] = t][r])
         /\ \A r \in 1 .. Len(F) : r # s => [F EXCEPT ![s] = t][r] = F[r]
<1> DEFINE G == [F EXCEPT ![s] = t]
<1>1. Len(G) = Len(F) /\ \A r \in 1 .. Len(F) : G[r] = IF r = s THEN t ELSE F[r]
  OBVIOUS
<1> HIDE DEF G
<1>2. \A r \in 1 .. Len(F) : Continues(F[r], G[r])
  BY <1>1, Continued
<1> QED
  BY <1>1, <1>2 DEF G

\* What is true of the variables and scopes across every step.
VariablesContinue ==
  /\ Continues(variable, variable') /\ Len(frame) <= Len(frame')
  /\ \A s \in Scopes : Continues(frame[s], frame'[s]) /\ next'[s] = next[s]
  /\ \A s \in Scopes : \A k \in 1 .. Len(frame[s]) : frame[s][k].is_final => frame'[s][k] = frame[s][k]

LEMMA SequencesOfVariables ==
  TypeOK => /\ Len(frame) \in Nat /\ DOMAIN frame = 1 .. Len(frame) /\ Len(variable) \in Nat
            /\ variable \in Seq(Variable(Values(Len(frame))))
            /\ \A s \in Scopes : frame[s] \in Seq(Variable(Values(Len(frame)))) /\ Len(frame[s]) \in Nat
<1> SUFFICES ASSUME TypeOK
             PROVE  /\ Len(frame) \in Nat /\ DOMAIN frame = 1 .. Len(frame) /\ Len(variable) \in Nat
                    /\ variable \in Seq(Variable(Values(Len(frame))))
                    /\ \A s \in Scopes : /\ frame[s] \in Seq(Variable(Values(Len(frame))))
                                         /\ Len(frame[s]) \in Nat
  OBVIOUS
<1> DEFINE V == Variable(Values(Len(frame)))
<1>1. variable \in Seq(V) /\ frame \in Seq(Seq(V))
  BY Types
<1> HIDE DEF V
<1>2. Len(frame) \in Nat /\ DOMAIN frame = 1 .. Len(frame) /\ Len(variable) \in Nat
  BY <1>1
<1>3. \A s \in 1 .. Len(frame) : frame[s] \in Seq(V) /\ Len(frame[s]) \in Nat
  BY <1>1
<1> QED
  BY <1>1, <1>2, <1>3 DEF V, Scopes

LEMMA SameVariablesContinue ==
  ASSUME TypeOK, UNCHANGED <<variable, frame, next>> PROVE VariablesContinue
BY SequencesOfVariables, Continued DEF VariablesContinue

LEMMA ChangedContinue ==
  ASSUME TypeOK, next' = next, NEW x, NEW l, Changes(x, l)
  PROVE  VariablesContinue /\ \A s \in Scopes : Len(frame'[s]) = Len(frame[s])
<1>1. CASE l[1] = 0
  <2>1. variable' = [variable EXCEPT ![l[2]].value = value] /\ frame' = frame /\ l[2] \in 1 .. Len(variable)
    BY <1>1 DEF Changes, Store, Finds
  <2>2. Continues(variable, variable')
    <3>1. variable \in Seq(Variable(Values(Len(frame))))
      BY SequencesOfVariables
    <3> QED
      BY ONLY <2>1, <3>1, StoredContinue
  <2> QED
    BY <2>1, <2>2, SequencesOfVariables, Continued DEF VariablesContinue
<1>2. CASE l[1] # 0
  <2> DEFINE s == l[1]
             k == l[2]
             t == [frame[s] EXCEPT ![k].value = value]
  <2>1. /\ frame' = [frame EXCEPT ![s] = t] /\ variable' = variable /\ s \in Scopes
        /\ k \in 1 .. Len(frame[s]) /\ ~frame[s][k].is_final
    BY <1>2 DEF Changes, Store, Finds, CannotAssign, At
  <2> HIDE DEF s, k
  <2>2. /\ Continues(frame[s], t) /\ Len(t) = Len(frame[s])
        /\ \A j \in 1 .. Len(frame[s]) : j # k => t[j] = frame[s][j]
    <3>1. frame[s] \in Seq(Variable(Values(Len(frame))))
      BY <2>1, SequencesOfVariables
    <3>2. k \in 1 .. Len(frame[s])
      BY <2>1
    <3> DEFINE old == frame[s]
    <3> HIDE DEF old
    <3>3. old \in Seq(Variable(Values(Len(frame)))) /\ k \in 1 .. Len(old)
      BY <3>1, <3>2 DEF old
    <3>4. /\ Continues(old, [old EXCEPT ![k].value = value])
          /\ Len([old EXCEPT ![k].value = value]) = Len(old)
          /\ \A j \in 1 .. Len(old) : j # k => [old EXCEPT ![k].value = value][j] = old[j]
      BY ONLY <3>3, StoredContinue
    <3> QED
      BY <3>4 DEF old
  <2> HIDE DEF t
  <2>3. /\ Len(frame') = Len(frame) /\ frame'[s] = t
        /\ \A r \in Scopes : Continues(frame[r], frame'[r]) /\ (r # s => frame'[r] = frame[r])
    <3>1. /\ Len(frame) \in Nat /\ DOMAIN frame = 1 .. Len(frame) /\ s \in 1 .. Len(frame)
          /\ \A r \in 1 .. Len(frame) : Len(frame[r]) \in Nat
      BY <2>1, SequencesOfVariables DEF Scopes
    <3> QED
      BY ONLY <2>1, <2>2, <3>1, OneScopeContinues DEF Scopes
  <2>4. \A r \in Scopes : \A j \in 1 .. Len(frame[r]) :
          frame[r][j].is_final => frame'[r][j] = frame[r][j]
    BY <2>1, <2>2, <2>3
  <2>5. \A r \in Scopes : Len(frame'[r]) = Len(frame[r])
    BY <2>2, <2>3
  <2> QED
    BY <2>1, <2>3, <2>4, <2>5, SequencesOfVariables, Continued DEF VariablesContinue
<1> QED
  BY <1>1, <1>2

\* A variable is added to the scope s.
AddsTo(s, new) == s \in Scopes /\ frame' = [frame EXCEPT ![s] = Append(@, new)] /\ variable' = variable

LEMMA AddedToAScope ==
  ASSUME TypeOK, next' = next, NEW s, NEW new, AddsTo(s, new)
  PROVE  /\ VariablesContinue /\ Len(frame') = Len(frame)
         /\ \A r \in Scopes : r # s => frame'[r] = frame[r]
         /\ Len(frame'[s]) = Len(frame[s]) + 1 /\ frame'[s][Len(frame[s]) + 1] = new
         /\ \A j \in 1 .. Len(frame[s]) : frame'[s][j] = frame[s][j]
<1> DEFINE t == Append(frame[s], new)
<1>1. /\ s \in Scopes /\ frame' = [frame EXCEPT ![s] = t] /\ variable' = variable
      /\ Len(frame[s]) \in Nat
  BY SequencesOfVariables DEF AddsTo
<1>2. /\ Continues(frame[s], t) /\ Len(t) = Len(frame[s]) + 1 /\ t[Len(frame[s]) + 1] = new
      /\ \A j \in 1 .. Len(frame[s]) : t[j] = frame[s][j]
  BY <1>1, SequencesOfVariables, AddedContinue
<1> HIDE DEF t
<1>3. /\ Len(frame') = Len(frame) /\ frame'[s] = t
      /\ \A r \in Scopes : Continues(frame[r], frame'[r]) /\ (r # s => frame'[r] = frame[r])
  BY <1>1, <1>2, SequencesOfVariables, OneScopeContinues DEF Scopes
<1>4. \A r \in Scopes : \A j \in 1 .. Len(frame[r]) :
        frame[r][j].is_final => frame'[r][j] = frame[r][j]
  BY <1>2, <1>3
<1> QED
  BY <1>1, <1>2, <1>3, <1>4, SequencesOfVariables, Continued DEF VariablesContinue

LEMMA CreatedContinue ==
  ASSUME TypeOK, next' = next, NEW x, NEW b, Creates(x, b) PROVE VariablesContinue
<1> DEFINE new == [name |-> x, value |-> value, is_final |-> b]
<1>1. \/ variable' = Append(variable, new) /\ frame' = frame
      \/ AddsTo(ScopeOf(Current), new)
  BY DEF Creates, AddsTo
<1> HIDE DEF new
<1>2. CASE variable' = Append(variable, new) /\ frame' = frame
  BY <1>2, SequencesOfVariables, AddedContinue, Continued DEF VariablesContinue
<1> QED
  BY <1>1, <1>2, AddedToAScope

\* A parameter is added to the scope of the environment on top.
LEMMA BoundIsAdded ==
  ASSUME TypeOK, BindParameter
  PROVE  /\ next' = next /\ ~Running(Len(environment)) /\ Len(environment) \in 1 .. Len(environment)
         /\ \E new : AddsTo(environment[Len(environment)].variable, new)
<1>1. Len(environment) # 0 /\ Len(environment) \in 1 .. Len(environment)
  BY ChainedScopes DEF BindParameter
<1>2. environment[Len(environment)].variable \in Scopes
  BY <1>1, ScopesOfEnvironments, ChainedScopes DEF ScopeOf
<1> QED
  BY <1>1, <1>2 DEF BindParameter, AddsTo

\* A call adds a scope.
LEMMA CalledContinue ==
  ASSUME TypeOK, Call
  PROVE  /\ VariablesContinue /\ Len(frame') = Len(frame) + 1
         /\ \A s \in Scopes : frame'[s] = frame[s]
         /\ frame'[Len(frame) + 1] = FirstVariables(value)
         /\ next'[Len(frame) + 1] = value.environment
<1> DEFINE first == FirstVariables(value)
           outside == value.environment
<1>1. /\ frame \in Seq(Seq(Variable(Values(Len(frame))))) /\ next \in Seq(Nat) /\ Len(next) = Len(frame)
  BY Types
<1>2. frame' = Append(frame, first) /\ next' = Append(next, outside) /\ variable' = variable
  BY DEF Call
<1> HIDE DEF first, outside
<1>3. /\ Len(frame') = Len(frame) + 1 /\ frame'[Len(frame) + 1] = first
      /\ next'[Len(frame) + 1] = outside
      /\ \A s \in 1 .. Len(frame) : frame'[s] = frame[s] /\ next'[s] = next[s]
  BY <1>1, <1>2
<1>4. \A s \in Scopes : Continues(frame[s], frame'[s]) /\ next'[s] = next[s]
  BY <1>3, SequencesOfVariables, Continued DEF Scopes
<1>5. \A s \in Scopes : frame'[s] = frame[s]
  BY <1>3 DEF Scopes
<1>6. Continues(variable, variable') /\ Len(frame) <= Len(frame')
  BY <1>2, <1>3, SequencesOfVariables, Continued
<1>7. VariablesContinue
  BY <1>4, <1>5, <1>6 DEF VariablesContinue
<1> QED
  BY <1>3, <1>5, <1>7 DEF first, outside

LEMMA StepsContinue == TypeOK /\ [Next]_vars => VariablesContinue
<1> SUFFICES ASSUME TypeOK, [Next]_vars PROVE VariablesContinue
  OBVIOUS
<1>1. CASE UNCHANGED <<variable, frame, next>>
  BY <1>1, SameVariablesContinue
<1>2. CASE Assign
  BY <1>2, AssignDoes, CreatedContinue, ChangedContinue
<1>3. CASE Call
  BY <1>3, CalledContinue
<1>4. CASE BindParameter
  BY <1>4, BoundIsAdded, AddedToAScope
<1> QED
  BY <1>1, <1>2, <1>3, <1>4 DEF Next, vars, Literal, Identifier, ClosureExpression, Return, Catch,
     GlobalStatement

-----------------------------------------------------------------------------
(* The inductive invariant.                                                *)

\* The scope of a later call is newer.
Ordered ==
  \A d, e \in 1 .. Len(environment) :
    d < e => environment[d].variable < environment[e].variable

\* No function between a call and the function it is in has begun to run.
Waiting ==
  \A d, e \in 1 .. Len(environment) : environment[e].caller < d /\ d < e => ~Running(d)

\* The first variable of a closure with a name is the closure itself, for good.
OwnFirst ==
  \A e \in 1 .. Len(environment) :
    LET f == environment[e].function
        s == environment[e].variable IN
    f.is_closure /\ f.name # NoName =>
      /\ Len(frame[s]) # 0
      /\ frame[s][1] =
           [name |-> f.name, value |-> [function |-> f, environment |-> next[s]], is_final |-> TRUE]

\* What a global statement has let in is there, and may be assigned to.
LetIn ==
  ~GlobalFinals =>
    \A e \in 1 .. Len(environment) : \A x \in environment[e].global_variable :
      IndexIn(variable, x) # 0 /\ ~variable[IndexIn(variable, x)].is_final

ScopeInv == TypeOK /\ Ordered /\ Waiting /\ OwnFirst /\ LetIn /\ FunctionsKeepTheirNames

LEMMA ScopeInvInit == Init => ScopeInv
<1> SUFFICES ASSUME Init PROVE ScopeInv
  OBVIOUS
<1>1. variable = <<>> /\ frame = <<>> /\ next = <<>> /\ environment = <<>> /\ value = Null
  BY DEF Init
<1>2. \A S : <<>> \in Seq(S) /\ Len(<<>>) = 0 /\ 1 .. 0 = {}
  OBVIOUS
<1>3. TypeOK
  BY <1>1, <1>2, DataAssumption DEF TypeOK, Scopes
<1> QED
  BY <1>1, <1>2, <1>3 DEF ScopeInv, Ordered, Waiting, OwnFirst, LetIn, FunctionsKeepTheirNames

\* What stays of an environment across every step
Stays(e) ==
  /\ environment'[e].variable = environment[e].variable
  /\ environment'[e].function = environment[e].function
  /\ environment'[e].caller = environment[e].caller
  /\ environment[e].global_variable \subseteq environment'[e].global_variable
  /\ e < Len(environment) \/ Running(e) => environment'[e].unbound = environment[e].unbound

EnvironmentsStay ==
  \A e \in 1 .. Len(environment) : e <= Len(environment') => Stays(e)

LEMMA DisposalLeaves ==
  ASSUME TypeOK, NEW k, DisposesOf(k)
  PROVE  /\ EnvironmentsStay /\ Len(environment') <= Len(environment) /\ Len(environment') \in Nat
         /\ \A e \in 1 .. Len(environment') : environment'[e] = environment[e]
<1>1. /\ Len(environment') = k /\ k \in 0 .. Len(environment) /\ Len(environment) \in Nat
      /\ \A e \in 1 .. k : environment'[e] = environment[e]
  BY PrefixOfEnvironments DEF TypeOK, DisposesOf
<1> QED
  BY <1>1 DEF EnvironmentsStay, Stays

LEMMA BoundLeaves ==
  ASSUME TypeOK, BindParameter
  PROVE  EnvironmentsStay /\ Len(environment') = Len(environment)
         /\ \A e \in 1 .. Len(environment) :
              environment'[e].global_variable = environment[e].global_variable
<1> DEFINE top == Len(environment)
           new == [environment[top] EXCEPT !.unbound = Tail(@)]
<1>1. /\ environment \in Seq(Environments) /\ top \in Nat /\ top = Len(environment) /\ top # 0
      /\ ~Running(top) /\ environment' = [environment EXCEPT ![top] = new]
  BY DEF TypeOK, BindParameter
<1>2. top \in 1 .. top /\ environment[top] \in Environments
  BY <1>1
<1>3. /\ new.variable = environment[top].variable /\ new.function = environment[top].function
      /\ new.caller = environment[top].caller
      /\ new.global_variable = environment[top].global_variable
  BY <1>2 DEF Environments
<1> HIDE DEF new, top
<1>4. Len(environment') = top /\ \A e \in 1 .. top : environment'[e] = IF e = top THEN new ELSE environment[e]
  BY <1>1, <1>2
<1>5. ASSUME NEW e \in 1 .. top
      PROVE  Stays(e) /\ environment'[e].global_variable = environment[e].global_variable
  <2>1. CASE e = top
    BY <1>1, <1>3, <1>4, <2>1 DEF Stays
  <2>2. CASE e # top
    BY <1>4, <2>2 DEF Stays
  <2> QED
    BY <2>1, <2>2
<1> QED
  BY <1>1, <1>4, <1>5 DEF EnvironmentsStay

LEMMA GlobalStatementLeaves ==
  ASSUME TypeOK, GlobalStatement
  PROVE  /\ EnvironmentsStay /\ Len(environment') = Len(environment)
         /\ \E y : /\ IndexIn(variable, y) # 0
                   /\ GlobalFinals \/ ~variable[IndexIn(variable, y)].is_final
                   /\ \A e \in 1 .. Len(environment) :
                        environment'[e].global_variable \subseteq environment[e].global_variable \union {y}
<1>1. PICK y \in Names :
        /\ IndexIn(variable, y) # 0
        /\ GlobalFinals \/ ~variable[IndexIn(variable, y)].is_final
        /\ environment' = [environment EXCEPT ![Current].global_variable = @ \union {y}]
  BY DEF GlobalStatement, At
<1> DEFINE c == Current
           new == [environment[c] EXCEPT !.global_variable = @ \union {y}]
<1>2. c # 0 /\ c \in 0 .. Len(environment) /\ Len(environment) \in Nat
  BY CurrentEnvironment, ChainedScopes DEF GlobalStatement
<1>3. environment' = [environment EXCEPT ![c] = new]
  BY <1>1
<1>4. environment \in Seq(Environments)
  BY DEF TypeOK
<1>5. environment[c] \in Environments
  <2> HIDE DEF c
  <2> QED
    BY <1>2, <1>4
<1>6. /\ new.variable = environment[c].variable /\ new.function = environment[c].function
      /\ new.caller = environment[c].caller /\ new.unbound = environment[c].unbound
      /\ new.global_variable = environment[c].global_variable \union {y}
  <2> HIDE DEF c
  <2> QED
    BY <1>5 DEF Environments
<1> HIDE DEF new, c
<1>7. /\ Len(environment') = Len(environment)
      /\ \A e \in 1 .. Len(environment) : environment'[e] = IF e = c THEN new ELSE environment[e]
  BY <1>2, <1>3, <1>4
<1>8. ASSUME NEW e \in 1 .. Len(environment)
      PROVE  /\ Stays(e)
             /\ environment'[e].global_variable \subseteq environment[e].global_variable \union {y}
  <2>1. CASE e = c
    BY <1>6, <1>7, <2>1 DEF Stays
  <2>2. CASE e # c
    BY <1>7, <2>2 DEF Stays
  <2> QED
    BY <2>1, <2>2
<1> QED
  BY <1>1, <1>7, <1>8 DEF EnvironmentsStay

LEMMA CallLeaves ==
  ASSUME TypeOK, Call
  PROVE  /\ EnvironmentsStay /\ Len(environment') = Len(environment) + 1
         /\ \A e \in 1 .. Len(environment) : environment'[e] = environment[e]
         /\ environment'[Len(environment) + 1] =
              [variable |-> Len(frame) + 1, global_variable |-> {}, function |-> value.function,
               unbound |-> value.function.parameter, caller |-> Current]
<1> DEFINE new == [variable |-> Len(frame) + 1, global_variable |-> {}, function |-> value.function,
                   unbound |-> value.function.parameter, caller |-> Current]
<1>1. environment \in Seq(Environments) /\ environment' = Append(environment, new)
  BY DEF TypeOK, Call
<1> HIDE DEF new
<1>2. /\ Len(environment') = Len(environment) + 1 /\ environment'[Len(environment) + 1] = new
      /\ \A e \in 1 .. Len(environment) : environment'[e] = environment[e]
  BY <1>1
<1> QED
  BY <1>2 DEF new, EnvironmentsStay, Stays

LEMMA SameEnvironmentsStay == environment' = environment => EnvironmentsStay
BY DEF EnvironmentsStay, Stays

\* Every step is a call, or it keeps environments from the bottom; they let in what they did, or
\* one more variable that may be assigned to.
OneMoreIsLetIn ==
  \E y : /\ IndexIn(variable, y) # 0 /\ variable' = variable
         /\ GlobalFinals \/ ~variable[IndexIn(variable, y)].is_final
         /\ \A e \in 1 .. Len(environment) :
              e <= Len(environment') =>
                environment'[e].global_variable \subseteq environment[e].global_variable \union {y}

LEMMA StepsLeave ==
  ASSUME TypeOK, [Next]_vars
  PROVE  /\ EnvironmentsStay
         /\ Call \/ Len(environment') <= Len(environment)
         /\ \/ OneMoreIsLetIn
            \/ \A e \in 1 .. Len(environment) :
                 e <= Len(environment') =>
                   environment'[e].global_variable = environment[e].global_variable
<1>0. Len(environment) \in Nat
  BY ChainedScopes
<1>1. CASE environment' = environment
  BY <1>0, <1>1, SameEnvironmentsStay
<1>2. CASE Call
  BY <1>2, CallLeaves
<1>3. CASE BindParameter
  BY <1>0, <1>3, BoundLeaves
<1>4. CASE Return \/ Catch
  <2>1. \E k : DisposesOf(k)
    BY <1>4, ReturnDisposes, CatchDisposes
  <2>2. /\ EnvironmentsStay /\ Len(environment') <= Len(environment) /\ Len(environment') \in Nat
        /\ \A e \in 1 .. Len(environment') : environment'[e] = environment[e]
    BY <2>1, DisposalLeaves
  <2> QED
    BY <1>0, <2>2
<1>5. CASE GlobalStatement
  <2>1. variable' = variable
    BY <1>5 DEF GlobalStatement
  <2> QED
    BY <1>0, <1>5, <2>1, GlobalStatementLeaves DEF OneMoreIsLetIn
<1> QED
  BY <1>1, <1>2, <1>3, <1>4, <1>5
  DEF Next, vars, Literal, Identifier, ClosureExpression, Assign

-----------------------------------------------------------------------------
(* The invariant is kept.                                                  *)

LEMMA RunningIsBelow ==
  ASSUME TypeOK, Waiting, NEW e \in 1 .. Len(environment), Running(e) PROVE e <= Current
<1> DEFINE top == Len(environment)
<1>1. top \in Nat /\ e \in 1 .. top /\ top # 0 /\ top \in 1 .. top
  BY ChainedScopes
<1>2. CASE Running(top)
  BY <1>1, <1>2 DEF Current
<1>3. CASE ~Running(top)
  <2>1. e < top /\ Current = environment[top].caller /\ Current \in 0 .. top
    BY <1>1, <1>3, CurrentEnvironment DEF Current
  <2>2. ~(environment[top].caller < e)
    BY <1>1, <2>1 DEF Waiting
  <2> QED
    BY <1>1, <2>1, <2>2
<1> QED
  BY <1>2, <1>3

\* The environment a call adds is the newest, and waits for its arguments.
LEMMA NewEnvironment ==
  ASSUME TypeOK, Call
  PROVE  LET new == Len(environment) + 1
             f == value.function IN
         /\ environment'[new].variable = Len(frame) + 1 /\ environment'[new].caller = Current
         /\ environment'[new].global_variable = {} /\ environment'[new].function = f
         /\ f.is_closure /\ f.name # NoName =>
              /\ Len(frame'[Len(frame) + 1]) = 1
              /\ frame'[Len(frame) + 1][1] =
                   [name |-> f.name, is_final |-> TRUE,
                    value |-> [function |-> f, environment |-> next'[Len(frame) + 1]]]
<1> DEFINE s == Len(frame) + 1
           f == value.function
<1>1. /\ environment'[Len(environment) + 1].variable = s
      /\ environment'[Len(environment) + 1].caller = Current
      /\ environment'[Len(environment) + 1].global_variable = {}
      /\ environment'[Len(environment) + 1].function = f
  BY CallLeaves
<1>2. frame'[s] = FirstVariables(value) /\ next'[s] = value.environment
  BY CalledContinue
<1>3. value = [function |-> f, environment |-> value.environment]
  <2>1. value \in Closures(Scopes)
    BY DEF Call, TypeOK
  <2> QED
    BY <2>1 DEF Closures
<1> HIDE DEF s
<1>4. CASE f.is_closure /\ f.name # NoName
  <2>1. frame'[s] = <<[name |-> f.name, value |-> value, is_final |-> TRUE]>>
    BY <1>2, <1>4 DEF FirstVariables
  <2>2. Len(frame'[s]) = 1 /\ frame'[s][1] = [name |-> f.name, value |-> value, is_final |-> TRUE]
    BY <2>1
  <2> QED
    BY <1>1, <1>2, <1>3, <1>4, <2>2 DEF s
<1> QED
  BY <1>1, <1>4 DEF s

LEMMA OrderedIsKept ==
  ASSUME TypeOK, Ordered, [Next]_vars PROVE Ordered'
<1>1. EnvironmentsStay /\ (Call \/ Len(environment') <= Len(environment)) /\ Len(environment) \in Nat
      /\ Len(environment') \in Nat
  BY StepsLeave, ChainedScopes, TypesAreKept, SMTT(30) DEF TypeOK
<1>2. SUFFICES ASSUME NEW d \in 1 .. Len(environment'), NEW e \in 1 .. Len(environment'), d < e
               PROVE  environment'[d].variable < environment'[e].variable
  BY DEF Ordered
<1>3. CASE e <= Len(environment)
  BY <1>1, <1>2, <1>3 DEF Ordered, EnvironmentsStay, Stays
<1>4. CASE ~(e <= Len(environment))
  <2>1. Call /\ e = Len(environment) + 1 /\ d \in 1 .. Len(environment)
    BY <1>1, <1>2, <1>4, CallLeaves
  <2>2. environment'[e].variable = Len(frame) + 1 /\ environment'[d].variable = environment[d].variable
    BY <1>1, <2>1, NewEnvironment DEF EnvironmentsStay, Stays
  <2>3. environment[d].variable \in 1 .. Len(frame) /\ Len(frame) \in Nat
    BY <2>1, <1>1, ScopesOfEnvironments, ChainedScopes DEF ScopeOf, Scopes, Chained
  <2> QED
    BY <2>2, <2>3
<1> QED
  BY <1>3, <1>4

LEMMA WaitingIsKept ==
  ASSUME TypeOK, Waiting, [Next]_vars PROVE Waiting'
<1>1. EnvironmentsStay /\ (Call \/ Len(environment') <= Len(environment)) /\ Len(environment) \in Nat
      /\ Len(environment') \in Nat
  BY StepsLeave, ChainedScopes, TypesAreKept DEF TypeOK
<1>2. SUFFICES ASSUME NEW d \in 1 .. Len(environment'), NEW e \in 1 .. Len(environment'),
                      environment'[e].caller < d, d < e
               PROVE  environment'[d].unbound # <<>>
  BY DEF Waiting, Running
<1>3. CASE e <= Len(environment)
  <2>1. d \in 1 .. Len(environment) /\ d < Len(environment) /\ e \in 1 .. Len(environment)
    BY <1>1, <1>2, <1>3
  <2>2. environment'[d].unbound = environment[d].unbound /\ environment'[e].caller = environment[e].caller
    BY <1>1, <1>2, <2>1 DEF EnvironmentsStay, Stays
  <2> QED
    BY <1>2, <2>1, <2>2 DEF Waiting, Running
<1>4. CASE ~(e <= Len(environment))
  <2>1. Call /\ e = Len(environment) + 1 /\ d \in 1 .. Len(environment)
    BY <1>1, <1>2, <1>4, CallLeaves
  <2>2. environment'[e].caller = Current /\ environment'[d] = environment[d]
    BY <2>1, NewEnvironment, CallLeaves
  <2>3. Current \in 0 .. Len(environment)
    BY CurrentEnvironment
  <2>4. ~Running(d)
    BY <1>1, <1>2, <2>1, <2>2, <2>3, RunningIsBelow
  <2> QED
    BY <2>2, <2>4 DEF Running
<1> QED
  BY <1>3, <1>4

LEMMA OwnFirstIsKept ==
  ASSUME TypeOK, OwnFirst, [Next]_vars PROVE OwnFirst'
<1>1. EnvironmentsStay /\ (Call \/ Len(environment') <= Len(environment)) /\ Len(environment) \in Nat
      /\ Len(environment') \in Nat /\ VariablesContinue
  BY StepsLeave, ChainedScopes, TypesAreKept, StepsContinue DEF TypeOK
<1>2. SUFFICES ASSUME NEW e \in 1 .. Len(environment')
               PROVE  LET f == environment'[e].function
                          s == environment'[e].variable IN
                      f.is_closure /\ f.name # NoName =>
                        /\ Len(frame'[s]) # 0
                        /\ frame'[s][1] = [name |-> f.name, is_final |-> TRUE,
                                           value |-> [function |-> f, environment |-> next'[s]]]
  BY DEF OwnFirst
<1>3. CASE e <= Len(environment)
  <2> DEFINE f == environment[e].function
             s == environment[e].variable
  <2>1. environment'[e].function = f /\ environment'[e].variable = s /\ e \in 1 .. Len(environment)
    BY <1>1, <1>2, <1>3 DEF EnvironmentsStay, Stays
  <2>2. s \in Scopes
    BY <1>1, <2>1, ScopesOfEnvironments DEF ScopeOf
  <2>3. Continues(frame[s], frame'[s]) /\ next'[s] = next[s]
        /\ \A k \in 1 .. Len(frame[s]) : frame[s][k].is_final => frame'[s][k] = frame[s][k]
    BY <1>1, <2>2 DEF VariablesContinue
  <2>4. f.is_closure /\ f.name # NoName =>
          /\ Len(frame[s]) # 0
          /\ frame[s][1] =
               [name |-> f.name, value |-> [function |-> f, environment |-> next[s]], is_final |-> TRUE]
    BY <2>1 DEF OwnFirst
  <2> HIDE DEF f, s
  <2>5. CASE f.is_closure /\ f.name # NoName
    <3>1. Len(frame[s]) # 0 /\ Len(frame[s]) \in Nat /\ Len(frame'[s]) # 0 /\ 1 \in 1 .. Len(frame[s])
      BY <2>3, <2>4, <2>5 DEF Continues
    <3>2. frame[s][1].is_final
      BY <2>4, <2>5
    <3>3. frame'[s][1] = frame[s][1]
      BY <2>3, <3>1, <3>2
    <3> QED
      BY <2>1, <2>3, <2>4, <2>5, <3>1, <3>3
  <2> QED
    BY <2>1, <2>5
<1>4. CASE ~(e <= Len(environment))
  <2>1. Call /\ e = Len(environment) + 1
    BY <1>1, <1>2, <1>4, CallLeaves
  <2> DEFINE f == value.function
             s == Len(frame) + 1
  <2>2. /\ environment'[e].variable = s /\ environment'[e].function = f
        /\ f.is_closure /\ f.name # NoName =>
             /\ Len(frame'[s]) = 1
             /\ frame'[s][1] = [name |-> f.name, is_final |-> TRUE,
                                value |-> [function |-> f, environment |-> next'[s]]]
    BY <2>1, NewEnvironment
  <2> HIDE DEF f, s
  <2> QED
    BY <2>2
<1> QED
  BY <1>3, <1>4

LEMMA LetInIsKept ==
  ASSUME TypeOK, LetIn, [Next]_vars PROVE LetIn'
<1>1. /\ EnvironmentsStay /\ (Call \/ Len(environment') <= Len(environment))
      /\ Len(environment) \in Nat /\ Len(environment') \in Nat /\ Continues(variable, variable')
  BY StepsLeave, ChainedScopes, TypesAreKept, StepsContinue DEF TypeOK, VariablesContinue
<1>2. SUFFICES ASSUME ~GlobalFinals, NEW e \in 1 .. Len(environment'),
                      NEW x \in environment'[e].global_variable
               PROVE  IndexIn(variable', x) # 0 /\ ~variable'[IndexIn(variable', x)].is_final
  BY DEF LetIn
<1>3. ASSUME IndexIn(variable, x) # 0, ~variable[IndexIn(variable, x)].is_final
      PROVE  IndexIn(variable', x) # 0 /\ ~variable'[IndexIn(variable', x)].is_final
  <2>1. IndexIn(variable', x) = IndexIn(variable, x)
    BY <1>1, <1>3, IndexIsKept DEF Continues
  <2>2. IndexIn(variable, x) \in 1 .. Len(variable)
    BY <1>1, <1>3, IndexIsFirst DEF Continues
  <2> QED
    BY <1>1, <1>3, <2>1, <2>2 DEF Continues
<1>4. CASE e <= Len(environment)
  <2>1. e \in 1 .. Len(environment)
    BY <1>1, <1>2, <1>4
  <2>2. CASE x \in environment[e].global_variable
    BY <1>2, <1>3, <2>1, <2>2 DEF LetIn
  <2>3. CASE x \notin environment[e].global_variable
    <3>1. OneMoreIsLetIn
      BY <1>2, <2>1, <2>3, StepsLeave
    <3>2. PICK y : /\ IndexIn(variable, y) # 0
                   /\ GlobalFinals \/ ~variable[IndexIn(variable, y)].is_final
                   /\ \A d \in 1 .. Len(environment) :
                        d <= Len(environment') =>
                          environment'[d].global_variable \subseteq environment[d].global_variable \union {y}
      BY <3>1 DEF OneMoreIsLetIn
    <3>3. x = y
      BY <1>2, <2>1, <2>3, <3>2
    <3> QED
      BY <1>2, <1>3, <3>2, <3>3
  <2> QED
    BY <2>2, <2>3
<1>5. CASE ~(e <= Len(environment))
  <2>1. Call /\ e = Len(environment) + 1
    BY <1>1, <1>2, <1>5, CallLeaves
  <2> QED
    BY <1>2, <2>1, NewEnvironment
<1> QED
  BY <1>4, <1>5

\* A global variable that a step adds has not the name of a function.
LEMMA FunctionsKeepTheirNamesIsKept ==
  ASSUME TypeOK, FunctionsKeepTheirNames, [Next]_vars PROVE FunctionsKeepTheirNames'
<1>1. Continues(variable, variable')
  BY StepsContinue DEF VariablesContinue
<1>2. SUFFICES ASSUME NEW j \in 1 .. Len(variable') PROVE FunctionsNamed(variable'[j].name) = {}
  BY DEF FunctionsKeepTheirNames, FunctionsNamed
<1>3. CASE j <= Len(variable)
  <2>1. j \in 1 .. Len(variable) /\ variable'[j].name = variable[j].name
    BY <1>1, <1>2, <1>3 DEF Continues
  <2> QED
    BY <2>1 DEF FunctionsKeepTheirNames
<1>4. CASE ~(j <= Len(variable))
  <2>1. Len(variable') # Len(variable) /\ variable' # variable
    BY <1>1, <1>2, <1>4 DEF Continues
  <2>2. Assign
    BY <2>1 DEF Next, vars, Literal, Identifier, ClosureExpression, Call, BindParameter, Return, Catch,
       GlobalStatement
  <2>3. ASSUME NEW x, NEW l, Changes(x, l) PROVE FALSE
    <3>1. \/ variable' = variable
          \/ l[2] \in 1 .. Len(variable) /\ variable' = [variable EXCEPT ![l[2]].value = value]
      BY <2>3 DEF Changes, Store, Finds
    <3>2. Len(variable') = Len(variable)
      BY <3>1, SequencesOfVariables, StoredContinue
    <3> QED
      BY <2>1, <3>2
  <2>4. PICK x \in Names, b \in BOOLEAN : Creates(x, b)
    BY <2>2, <2>3, AssignDoes
  <2> DEFINE new == [name |-> x, value |-> value, is_final |-> b]
  <2>5. FreeForGlobal(x) /\ variable' = Append(variable, new) /\ new.name = x
    BY <2>1, <2>4 DEF Creates
  <2> HIDE DEF new
  <2>6. j = Len(variable) + 1 /\ variable'[j] = new
    <3>1. Len(variable') = Len(variable) + 1 /\ variable'[Len(variable) + 1] = new
      BY <2>5, SequencesOfVariables, AddedContinue
    <3> QED
      BY <1>1, <1>2, <1>4, <3>1 DEF Continues
  <2> QED
    BY <2>5, <2>6 DEF FreeForGlobal
<1> QED
  BY <1>3, <1>4

LEMMA ScopeInvIsKept == ScopeInv /\ [Next]_vars => ScopeInv'
BY TypesAreKept, OrderedIsKept, WaitingIsKept, OwnFirstIsKept, LetInIsKept,
   FunctionsKeepTheirNamesIsKept DEF ScopeInv

\* The inductive invariant holds in every reachable state.
THEOREM ScopeInvariance == Spec => []ScopeInv
BY ScopeInvInit, ScopeInvIsKept, PTL DEF Spec

\* The variables, scopes and environments have their types (eval.c, util.c).
THEOREM ScopeTypes == Spec => []TypeOK
<1>1. ScopeInv => TypeOK
  BY DEF ScopeInv
<1> QED
  BY <1>1, ScopeInvariance, PTL

-----------------------------------------------------------------------------
(* Final variables and global variables.                                   *)

\* A global variable changes only when it is found and assigned to.
LEMMA GlobalsAreAssigned ==
  ASSUME TypeOK, [Next]_vars, NEW j \in 1 .. Len(variable), variable'[j] # variable[j]
  PROVE  \E x : Changes(x, <<0, j>>)
<1>1. Assign
  BY DEF Next, vars, Literal, Identifier, ClosureExpression, Call, BindParameter, Return, Catch,
     GlobalStatement
<1>2. ASSUME NEW x, NEW b, Creates(x, b) PROVE FALSE
  <2> DEFINE new == [name |-> x, value |-> value, is_final |-> b]
  <2>1. variable' = variable \/ variable' = Append(variable, new)
    BY <1>2 DEF Creates
  <2> HIDE DEF new
  <2> QED
    BY <2>1, SequencesOfVariables, AddedContinue
<1>3. ASSUME NEW x, NEW l, Changes(x, l) PROVE l = <<0, j>>
  <2>1. CASE l[1] = 0
    <3>1. l = <<0, l[2]>> /\ l[2] \in 1 .. Len(variable)
      BY <1>3, <2>1 DEF Changes, Finds
    <3>2. variable' = [variable EXCEPT ![l[2]].value = value]
      BY <1>3, <2>1 DEF Changes, Store
    <3>3. l[2] = j
      BY <3>1, <3>2, SequencesOfVariables, StoredContinue
    <3> QED
      BY <3>1, <3>3
  <2>2. CASE l[1] # 0
    BY <1>3, <2>2 DEF Changes, Store
  <2> QED
    BY <2>1, <2>2
<1> QED
  BY <1>1, <1>2, <1>3, AssignDoes

\* A final variable keeps its value, unless a global statement has let it in (eval.c:636-642).
THEOREM FinalsStay == ASSUME ~GlobalFinals PROVE Spec => FinalIsForever
<1>1. ASSUME ScopeInv, [Next]_vars, NEW l \in Locations, At(l).is_final PROVE At(l)' = At(l)
  <2>0. TypeOK /\ VariablesContinue /\ LetIn
    BY <1>1, StepsContinue DEF ScopeInv
  <2>1. CASE \E j \in 1 .. Len(variable) : l = <<0, j>>
    <3>1. PICK j \in 1 .. Len(variable) : l = <<0, j>>
      BY <2>1
    <3>2. At(l) = variable[j] /\ At(l)' = variable'[j]
      BY <3>1 DEF At
    <3>3. SUFFICES ASSUME variable'[j] # variable[j] PROVE FALSE
      BY <3>2
    <3>4. PICK x : Changes(x, <<0, j>>)
      BY <1>1, <2>0, <3>3, GlobalsAreAssigned
    <3>5. Finds(Current, x, <<0, j>>) /\ ~(Current = 0 /\ variable[j].is_final)
      BY <3>4 DEF Changes, CannotAssign, At
    <3>6. Current # 0 /\ j = IndexIn(variable, x) /\ x \in environment[Current].global_variable
      BY <1>1, <3>2, <3>5 DEF Finds
    <3>7. Current \in 1 .. Len(environment)
      BY <2>0, <3>6, CurrentEnvironment, ChainedScopes
    <3> QED
      BY <1>1, <2>0, <3>2, <3>6, <3>7 DEF LetIn
  <2>2. CASE \E s \in Scopes : \E k \in 1 .. Len(frame[s]) : l = <<s, k>>
    <3>0. PICK s \in Scopes : \E k \in 1 .. Len(frame[s]) : l = <<s, k>>
      BY <2>2
    <3>1. PICK k \in 1 .. Len(frame[s]) : l = <<s, k>>
      BY <3>0
    <3>2. s # 0
      BY <2>0, SequencesOfVariables DEF Scopes
    <3>3. At(l) = frame[s][k] /\ At(l)' = frame'[s][k]
      BY <3>1, <3>2 DEF At
    <3> QED
      BY <1>1, <2>0, <3>1, <3>3 DEF VariablesContinue
  <2> QED
    BY <2>1, <2>2 DEF Locations
<1>2. ScopeInv /\ [Next]_vars =>
        [\A l \in Locations : At(l).is_final => At(l)' = At(l)]_<<variable, frame>>
  BY <1>1
<1> QED
  BY <1>2, ScopeInvariance, PTL DEF Spec, FinalIsForever

\* A function changes a global variable only after a global statement of its own (eval.c:163-176,
\* 636-642, execute.c:45-66).
THEOREM GlobalsStayProtected == Spec => GlobalsAreProtected
<1>1. ASSUME ScopeInv, [Next]_vars, NEW j \in 1 .. Len(variable), variable'[j] # variable[j]
      PROVE  Current = 0 \/ variable[j].name \in environment[Current].global_variable
  <2>1. PICK x : Changes(x, <<0, j>>)
    BY <1>1, GlobalsAreAssigned DEF ScopeInv
  <2>2. Finds(Current, x, <<0, j>>)
    BY <2>1 DEF Changes
  <2> QED
    BY <2>2 DEF Finds
<1>2. ScopeInv /\ [Next]_vars =>
        [\A j \in 1 .. Len(variable) :
           variable'[j] # variable[j] =>
             Current = 0 \/ variable[j].name \in environment[Current].global_variable]_variable
  BY <1>1
<1> QED
  BY <1>2, ScopeInvariance, PTL DEF Spec, GlobalsAreProtected

-----------------------------------------------------------------------------
(* Names keep their meaning.                                               *)

\* While a function runs, a name it can find stays where it is in its scope and in those outside.
LEMMA IndicesStay ==
  ASSUME ScopeInv, [Next]_vars, NEW e \in 1 .. Len(environment), Running(e),
         NEW x, Search(e, x)[2] # 0, NEW t \in 1 .. environment[e].variable
  PROVE  t \in Scopes /\ IndexIn(frame'[t], x) = IndexIn(frame[t], x)
<1>0. TypeOK /\ Ordered /\ Waiting /\ Len(environment) \in Nat /\ Len(frame) \in Nat
  BY ChainedScopes, SequencesOfVariables DEF ScopeInv
<1>1. environment[e].variable \in Scopes /\ e # 0
  BY <1>0, ScopesOfEnvironments DEF ScopeOf
<1>2. t \in Scopes
  BY <1>0, <1>1 DEF Scopes
<1>3. CASE frame'[t] = frame[t]
  BY <1>2, <1>3
<1>4. CASE BindParameter
  <2> DEFINE top == Len(environment)
  <2>1. PICK new : AddsTo(environment[top].variable, new)
    BY <1>0, <1>4, BoundIsAdded
  <2>2. next' = next /\ ~Running(top) /\ top \in 1 .. top
    BY <1>0, <1>4, BoundIsAdded
  <2>3. e < top
    BY <1>0, <2>2
  <2>4. environment[e].variable < environment[top].variable
    BY <2>2, <2>3, <1>0 DEF Ordered
  <2>5. environment[top].variable \in Scopes
    BY <2>1 DEF AddsTo
  <2>6. t # environment[top].variable
    BY <1>0, <1>1, <2>4, <2>5 DEF Scopes
  <2>7. frame'[t] = frame[t]
    BY <1>0, <1>2, <2>1, <2>2, <2>6, AddedToAScope
  <2> QED
    BY <1>2, <2>7
<1>5. CASE Call
  <2>1. frame'[t] = frame[t]
    BY <1>0, <1>2, <1>5, CalledContinue
  <2> QED
    BY <1>2, <2>1
<1>6. CASE Assign
  <2>1. next' = next
    BY <1>6 DEF Assign
  <2>2. ASSUME NEW y, NEW l, Changes(y, l) PROVE IndexIn(frame'[t], x) = IndexIn(frame[t], x)
    <3>1. Continues(frame[t], frame'[t]) /\ Len(frame'[t]) = Len(frame[t])
      BY <1>0, <1>2, <2>1, <2>2, ChangedContinue DEF VariablesContinue
    <3> QED
      BY <3>1, IndexIsKept DEF Continues
  <2>3. ASSUME NEW y, NEW b, Creates(y, b) PROVE IndexIn(frame'[t], x) = IndexIn(frame[t], x)
    <3> DEFINE s == ScopeOf(Current)
               new == [name |-> y, value |-> value, is_final |-> b]
    <3>1. CASE Current = 0
      BY <2>3, <3>1 DEF Creates
    <3>2. CASE Current # 0
      <4>1. AddsTo(s, new) /\ Search(Current, y)[2] = 0 /\ new.name = y
        BY <2>3, <3>2 DEF Creates, AddsTo
      <4> HIDE DEF new, s
      <4>2. /\ Continues(frame[t], frame'[t])
            /\ t # s => frame'[t] = frame[t]
            /\ t = s => Len(frame'[t]) = Len(frame[t]) + 1 /\ frame'[t][Len(frame[t]) + 1] = new
        BY <1>0, <1>2, <2>1, <4>1, AddedToAScope DEF VariablesContinue
      <4>3. CASE t # s
        BY <4>2, <4>3
      <4>4. CASE t = s
        <5>1. e <= Current /\ Current \in 1 .. Len(environment)
          BY <1>0, <3>2, RunningIsBelow, CurrentEnvironment
        <5>2. s = environment[Current].variable /\ s <= environment[e].variable
          BY <3>2, <4>4 DEF s, ScopeOf
        <5>3. environment[Current].variable \in Scopes
          BY <4>1, <5>2 DEF AddsTo
        <5>4. e = Current
          <6>1. e < Current => environment[e].variable < environment[Current].variable
            BY <1>0, <5>1 DEF Ordered
          <6> QED
            BY <1>0, <1>1, <5>1, <5>2, <5>3, <6>1 DEF Scopes
        <5>5. x # y
          BY <4>1, <5>4
        <5> QED
          BY <4>1, <4>2, <4>4, <5>5, IndexIsKept, SMTT(30) DEF Continues
      <4> QED
        BY <4>3, <4>4
    <3> QED
      BY <3>1, <3>2
  <2> QED
    BY <1>0, <1>2, <1>6, <2>2, <2>3, AssignDoes
<1>7. CASE frame' = frame
  BY <1>2, <1>7
<1> QED
  BY <1>3, <1>4, <1>5, <1>6, <1>7 DEF Next, vars, Literal, Identifier, ClosureExpression, Return,
     Catch, GlobalStatement

LEMMA NamesStay ==
  ASSUME ScopeInv, [Next]_vars, NEW e \in 1 .. Len(environment), GoesOn(e),
         NEW x, Search(e, x)[2] # 0
  PROVE  Search(e, x)' = Search(e, x)
<1> DEFINE s == environment[e].variable
<1>0. /\ TypeOK /\ TypeOK' /\ VariablesContinue /\ EnvironmentsStay
      /\ Running(e) /\ e <= Len(environment') /\ environment'[e].variable = s /\ e # 0
  BY TypesAreKept, StepsContinue, StepsLeave, ChainedScopes DEF ScopeInv, GoesOn
<1>1. Chained(frame, next) /\ s \in 0 .. Len(frame)
  BY <1>0, ChainedScopes, ScopesOfEnvironments DEF ScopeOf
<1>2. Chained(frame', next')
  <2>1. TypeOK' => Chained(frame, next)'
    BY ChainedScopes, PTL
  <2> QED
    BY <1>0, <2>1 DEF Chained
<1>3. Search(e, x) = IF Found(frame, next, s, x)[1] # 0 THEN Found(frame, next, s, x)
                     ELSE IF x \in environment[e].global_variable THEN <<0, IndexIn(variable, x)>>
                     ELSE Nowhere
  BY <1>0, SearchIsFound DEF Search, ScopeOf, SearchGlobal
<1>4. Search(e, x)' = IF Found(frame', next', s, x)[1] # 0 THEN Found(frame', next', s, x)
                      ELSE IF x \in environment'[e].global_variable THEN <<0, IndexIn(variable', x)>>
                      ELSE Nowhere
  <2>1. SearchLocal(ScopeOf(e), x)' = Found(frame', next', ScopeOf(e)', x)
    BY DEF SearchLocal, Found, Scopes
  <2>2. ScopeOf(e)' = s
    BY <1>0 DEF ScopeOf
  <2>3. SearchLocal(ScopeOf(e), x)' = Found(frame', next', s, x)
    BY <2>1, <2>2
  <2>4. Search(e, x)' = IF SearchLocal(ScopeOf(e), x)'[1] # 0 THEN SearchLocal(ScopeOf(e), x)'
                        ELSE SearchGlobal(e, x)'
    BY DEF Search
  <2>5. SearchGlobal(e, x)' = IF x \in environment'[e].global_variable
                                THEN <<0, IndexIn(variable', x)>> ELSE Nowhere
    BY <1>0 DEF SearchGlobal, Nowhere
  <2> QED
    BY <2>3, <2>4, <2>5
<1>5. Found(frame', next', s, x) = Found(frame, next, s, x)
  <2>1. \A t \in 1 .. s : t \in Scopes /\ IndexIn(frame'[t], x) = IndexIn(frame[t], x)
    BY <1>0, IndicesStay
  <2>2. \A t \in 1 .. s : next'[t] = next[t] /\ IndexIn(frame'[t], x) = IndexIn(frame[t], x)
    BY <1>0, <2>1 DEF VariablesContinue
  <2>3. Len(frame) <= Len(frame')
    BY <1>0 DEF VariablesContinue
  <2> HIDE DEF s
  <2> QED
    BY ONLY <1>1, <1>2, <2>2, <2>3, FoundIsKept
<1> HIDE DEF s
<1>6. CASE Found(frame, next, s, x)[1] # 0
  BY <1>3, <1>4, <1>5, <1>6
<1>7. CASE Found(frame, next, s, x)[1] = 0
  <2>1. x \in environment[e].global_variable /\ IndexIn(variable, x) # 0
    BY <1>3, <1>7 DEF Nowhere
  <2>2. x \in environment'[e].global_variable
    BY <1>0, <2>1 DEF EnvironmentsStay, Stays
  <2>3. IndexIn(variable', x) = IndexIn(variable, x)
    BY <1>0, <2>1, IndexIsKept DEF VariablesContinue, Continues
  <2> QED
    BY <1>3, <1>4, <1>5, <1>7, <2>1, <2>2, <2>3
<1> QED
  BY <1>6, <1>7

LEMMA OwnNames == ScopeInv => OwnName
<1> SUFFICES ASSUME ScopeInv, NEW e \in 1 .. Len(environment),
                    environment[e].function.is_closure, environment[e].function.name # NoName
             PROVE  At(Search(e, environment[e].function.name)).value =
                      [function |-> environment[e].function,
                       environment |-> next[environment[e].variable]]
  BY DEF OwnName
<1> DEFINE f == environment[e].function
           s == environment[e].variable
           x == f.name
<1>1. /\ TypeOK /\ Len(frame[s]) # 0
      /\ frame[s][1] =
           [name |-> x, value |-> [function |-> f, environment |-> next[s]], is_final |-> TRUE]
  BY DEF ScopeInv, OwnFirst
<1>2. s \in Scopes /\ s # 0 /\ e # 0 /\ Len(frame[s]) \in Nat /\ Chained(frame, next)
  <2>1. e # 0 /\ s \in Scopes
    BY <1>1, ChainedScopes, ScopesOfEnvironments DEF ScopeOf
  <2> QED
    BY <1>1, <2>1, ChainedScopes, SequencesOfVariables DEF Scopes
<1>3. Search(e, x) = IF Found(frame, next, s, x)[1] # 0 THEN Found(frame, next, s, x)
                     ELSE SearchGlobal(e, x)
  BY <1>2, SearchIsFound DEF Search, ScopeOf
<1> HIDE DEF f, s, x
<1>4. IndexIn(frame[s], x) = 1
  <2>1. 1 \in Positions(frame[s], x)
    BY <1>1, <1>2 DEF Positions
  <2>2. IndexIn(frame[s], x) # 0
    BY <1>2, <2>1, IndexIsFirst
  <2>3. IndexIn(frame[s], x) \in 1 .. Len(frame[s]) /\ IndexIn(frame[s], x) <= 1
    BY <1>2, <2>1, <2>2, IndexIsFirst
  <2> QED
    BY <1>2, <2>3
<1>5. Found(frame, next, s, x) = <<s, 1>>
  <2>1. s \in 1 .. Len(frame) /\ Chained(frame, next)
    BY <1>2 DEF Scopes
  <2> QED
    BY ONLY <1>4, <2>1, FoundSteps
<1>6. At(Search(e, x)) = frame[s][1]
  BY <1>2, <1>3, <1>5 DEF At
<1> QED
  BY <1>1, <1>6 DEF f, s, x

\* Names keep their meaning: those of variables while a function runs, the own one of a closure,
\* and those of functions (eval.c:140-175, 636-642, 1263-1270).
THEOREM NamesStayTheSame == Spec => NamesKeepTheirMeaning
<1>1. ASSUME ScopeInv, [Next]_vars PROVE NamesAreStable
  BY <1>1, NamesStay DEF NamesAreStable
<1>2. ScopeInv' => OwnName' /\ FunctionsKeepTheirNames'
  <2>1. ScopeInv => OwnName /\ FunctionsKeepTheirNames
    BY OwnNames DEF ScopeInv
  <2> QED
    BY <2>1, PTL
<1>3. ScopeInv /\ [Next]_vars =>
        [/\ NamesAreStable
         /\ Len(environment') > Len(environment) => OwnName'
         /\ variable' # variable => FunctionsKeepTheirNames']_<<variable, frame, environment>>
  BY <1>1, <1>2, ScopeInvIsKept
<1> QED
  BY <1>3, ScopeInvariance, PTL DEF Spec, NamesKeepTheirMeaning
=============================================================================
