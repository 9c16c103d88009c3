------------------------------ MODULE Operators ------------------------------
(***************************************************************************)
(* What the operators of crowbar compute (eval.c), and the folding of      *)
(* literals while a program is compiled (create.c).                        *)
(*                                                                         *)
(* A value is its type and the word v of its union. Ints have Width bits.  *)
(* A string is one letter repeated v times, so that comparing strings is   *)
(* comparing lengths; any other value is written as one letter. Doubles    *)
(* are whole numbers. Junk stands for a value nobody has assigned, and for *)
(* whatever is computed from one.                                          *)
(*                                                                         *)
(* An expression is built, and evaluated, from its operands up: nodes is   *)
(* the parser's stack, and each node says what its evaluation will give    *)
(* (gives) and what it would give had nothing been folded (plain).         *)
(***************************************************************************)
EXTENDS Integers, Sequences

CONSTANTS Width,      \* bits of an int
          Objects,    \* numbers of the objects that are no strings
          MaxLength,  \* bound: letters of a string
          MaxNodes    \* bound: operands waiting for their operator

ASSUME OperatorsAssumption ==
  /\ Width \in Nat \ {0, 1} /\ Objects \subseteq Nat /\ MaxLength \in Nat
  /\ MaxNodes \in Nat \ {0}
  /\ 2 ^ (Width - 1) \in Nat \ {0, 1} /\ 2 ^ Width = 2 * 2 ^ (Width - 1)

VARIABLES nodes,    \* operands of the expression so far
          raised,   \* what folding has raised, and what evaluating would have given
          variable  \* the value of a variable

operatorVars == <<nodes, raised, variable>>

MaxInt == 2 ^ (Width - 1) - 1
MinInt == -(2 ^ (Width - 1))
Ints == MinInt .. MaxInt
Wrap(n) == ((n - MinInt) % 2 ^ Width) + MinInt

Value(t, w) == [type |-> t, v |-> w]
Integer(n) == Value("int", n)
Double(n) == Value("double", n)
Boolean(b) == Value("boolean", IF b THEN 1 ELSE 0)
String(n) == Value("string", n)
Object(k) == Value("object", k)
Closure == Value("closure", 0)
Null == Value("null", 0)
Junk == Value("junk", 0)

Values ==
  [type : {"int", "double", "boolean"}, v : Ints] \union [type : {"object"}, v : Objects]
    \union [type : {"string"}, v : 0 .. MaxLength] \union {Closure, Null, Junk}

\* The errors of operators, and trap: the division the processor cannot do.
Error(e) == [error |-> e]
IsError(x) == "error" \in DOMAIN x
Errors ==
  [error : {"DIVISION_BY_ZERO", "LOGICAL_OP_INTEGER_OPERAND", "LOGICAL_OP_DOUBLE_OPERAND",
            "NOT_BOOLEAN_OPERATOR", "BAD_OPERATOR_FOR_STRING", "NOT_NULL_OPERATOR",
            "BAD_OPERAND_TYPE", "NOT_BOOLEAN_TYPE", "MINUS_OPERAND_TYPE",
            "STRING_POS_OUT_OF_BOUNDS", "STRING_SUBSTR_LEN", "trap"}]
Trap == Error("trap")
None == Error("none")

Math == {"ADD", "SUB", "MUL", "DIV", "MOD"}
Comparison == {"EQ", "NE", "GT", "GE", "LT", "LE"}
Logical == {"LOGICAL_AND", "LOGICAL_OR"}
BinaryOperators == Math \union Comparison \union Logical

IsNumeric(x) == x.type \in {"int", "double"}
IsObject(x) == x.type \in {"string", "object"}

-----------------------------------------------------------------------------
(* Binary operators.                                                       *)

Abs(n) == IF n < 0 THEN -n ELSE n

\* C divides towards zero.
Quotient(a, b) == IF (a < 0) = (b < 0) THEN Abs(a) \div Abs(b) ELSE -(Abs(a) \div Abs(b))

Arithmetic(op, a, b) ==
  CASE op = "ADD" -> a + b
    [] op = "SUB" -> a - b
    [] op = "MUL" -> a * b
    [] op = "DIV" -> Quotient(a, b)
    [] op = "MOD" -> a - b * Quotient(a, b)

Compare(op, a, b) ==
  Boolean(CASE op = "EQ" -> a = b
            [] op = "NE" -> a # b
            [] op = "GT" -> a > b
            [] op = "GE" -> a >= b
            [] op = "LT" -> a < b
            [] op = "LE" -> a <= b)

BinaryInt(op, a, b) ==
  CASE op \in Logical -> Error("LOGICAL_OP_INTEGER_OPERAND")
    [] op \in {"DIV", "MOD"} /\ b = 0 -> Error("DIVISION_BY_ZERO")
    [] op \in {"DIV", "MOD"} /\ a = MinInt /\ b = -1 -> Trap
    [] op \in {"DIV", "MOD"} /\ b # 0 /\ ~(a = MinInt /\ b = -1) -> Integer(Arithmetic(op, a, b))
    [] op \in {"ADD", "SUB", "MUL"} -> Integer(Wrap(Arithmetic(op, a, b)))
    [] op \in Comparison -> Compare(op, a, b)

\* Fraction stands for every double that is no whole number, and for what 0.0 divides.
Fraction == Value("double", 2 ^ Width)
BinaryDouble(op, a, b) ==
  CASE op \in Logical -> Error("LOGICAL_OP_DOUBLE_OPERAND")
    [] op \in {"ADD", "SUB", "MUL"} -> Double(Arithmetic(op, a, b))
    [] op \in {"DIV", "MOD"} ->
         IF b # 0 /\ (op = "DIV" => Arithmetic("MOD", a, b) = 0)
         THEN Double(Arithmetic(op, a, b)) ELSE Fraction
    [] op \in Comparison -> Compare(op, a, b)

\* Of operands that are not both numbers this computes nothing: the result is never assigned.
BinaryNumeric(op, l, r) ==
  CASE l.type = "int" /\ r.type = "int" -> BinaryInt(op, l.v, r.v)
    [] IsNumeric(l) /\ IsNumeric(r) /\ "double" \in {l.type, r.type} -> BinaryDouble(op, l.v, r.v)
    [] OTHER -> Junk

BinaryBoolean(op, a, b) ==
  IF op \in {"EQ", "NE"} THEN Compare(op, a, b) ELSE Error("NOT_BOOLEAN_OPERATOR")

CompareString(op, m, n) ==
  IF op \in Comparison THEN Compare(op, m, n) ELSE Error("BAD_OPERATOR_FOR_STRING")

BinaryNull(op, l, r) ==
  CASE op = "EQ" -> Boolean(l = Null /\ r = Null)
    [] op = "NE" -> Boolean(~(l = Null /\ r = Null))
    [] OTHER -> Error("NOT_NULL_OPERATOR")

\* The letters of a value as CRB_value_to_string writes it: one, for all that is no string.
Chain(l, r) ==
  IF r = Junk THEN Junk ELSE String(l.v + (IF r.type = "string" THEN r.v ELSE 1))

\* eval_binary_expression. The first case that applies decides.
Binary(op, l, r) ==
  IF Junk \in {l, r} THEN Junk
  ELSE IF IsNumeric(l) /\ IsNumeric(r) THEN BinaryNumeric(op, l, r)
  ELSE IF l.type = "boolean" /\ r.type = "boolean" THEN BinaryBoolean(op, l.v, r.v)
  ELSE IF l.type = "string" /\ op = "ADD" THEN Chain(l, r)
  ELSE IF l.type = "string" /\ r.type = "string" THEN CompareString(op, l.v, r.v)
  ELSE IF Null \in {l, r} THEN BinaryNull(op, l, r)
  ELSE IF IsObject(l) /\ IsObject(r) THEN Boolean(l = r)
  ELSE Error("BAD_OPERAND_TYPE")

\* The right operand is not asked for its type: its word becomes the boolean.
AsBoolean(x) == IF x.type \in {"boolean", "int"} THEN Value("boolean", x.v) ELSE Junk

LogicalAndOr(op, l, r) ==
  CASE IsError(l) -> l
    [] ~IsError(l) /\ l = Junk -> Junk
    [] ~IsError(l) /\ l.type \notin {"boolean", "junk"} -> Error("NOT_BOOLEAN_TYPE")
    [] ~IsError(l) /\ l.type = "boolean" ->
         IF (l.v # 0) = (op = "LOGICAL_OR") THEN Boolean(op = "LOGICAL_OR")
         ELSE IF IsError(r) THEN r ELSE AsBoolean(r)

Minus(x) ==
  CASE x.type = "int" -> Integer(Wrap(-x.v))
    [] x.type = "double" -> Double(-x.v)
    [] x = Junk -> Junk
    [] OTHER -> Error("MINUS_OPERAND_TYPE")

LogicalNot(x) ==
  CASE x.type = "boolean" -> Boolean(x.v = 0)
    [] x = Junk -> Junk
    [] OTHER -> Error("NOT_BOOLEAN_TYPE")

\* eval_expression of an operator whose operands give l and r, or raise
Evaluate(op, l, r) ==
  IF op \in Logical THEN LogicalAndOr(op, l, r)
  ELSE IF IsError(l) THEN l ELSE IF IsError(r) THEN r ELSE Binary(op, l, r)

EvaluateMinus(x) == IF IsError(x) THEN x ELSE Minus(x)
EvaluateNot(x) == IF IsError(x) THEN x ELSE LogicalNot(x)

\* string.substr(from, len). A sum that overflows passes the check.
Substr(n, from, len) ==
  CASE from < 0 \/ from >= n -> Error("STRING_POS_OUT_OF_BOUNDS")
    [] from \in 0 .. n - 1 /\ (len < 0 \/ Wrap(from + len) > n) -> Error("STRING_SUBSTR_LEN")
    [] from \in 0 .. n - 1 /\ len >= 0 /\ Wrap(from + len) <= n ->
         IF from + len <= n THEN String(len) ELSE Junk

-----------------------------------------------------------------------------
(* Expressions as they are parsed and evaluated.                           *)

OperatorsTypeOK ==
  /\ nodes \in Seq([literal : BOOLEAN, gives : Values \union Errors,
                    plain : Values \union Errors])
  /\ Len(nodes) <= MaxNodes
  /\ \A i \in DOMAIN nodes : nodes[i].literal => ~IsError(nodes[i].gives)
  /\ raised \in {None} \union [folded : Errors, plain : Values \union Errors]
  /\ variable \in Values

OperatorsInit == nodes = <<>> /\ raised = None /\ variable = Null

Operand(k) == nodes[Len(nodes) + 1 - k]

\* The newest k nodes become the operands of a new one.
Reduce(k, node) == nodes' = Append(SubSeq(nodes, 1, Len(nodes) - k), node)

\* Bound: doubles that are no number of Ints, and longer strings, are not built.
Fits(x) == IsError(x) \/ x \in Values

Literals ==
  (UNION {{Integer(n), Double(n)} : n \in 0 .. MaxInt}) \union {String(n) : n \in 0 .. MaxLength}
    \union {Null, Boolean(TRUE), Boolean(FALSE)}

\* A literal, or an expression that makes a new object or a closure
Literal ==
  /\ Len(nodes) < MaxNodes
  /\ \/ \E x \in Literals : Reduce(0, [literal |-> TRUE, gives |-> x, plain |-> x])
     \/ \E x \in {Object(k) : k \in Objects} \union {Closure} :
          Reduce(0, [literal |-> FALSE, gives |-> x, plain |-> x])
  /\ UNCHANGED <<raised, variable>>

Identifier ==
  /\ Len(nodes) < MaxNodes
  /\ Reduce(0, [literal |-> FALSE, gives |-> variable, plain |-> variable])
  /\ UNCHANGED <<raised, variable>>

\* Only literals that are numbers are folded; a folded comparison is a boolean literal. (The new
\* node's line_number, which nothing sets, is left out: create.c:189-204.)
FoldsAll(node) == node.literal
Folds(node) == node.literal /\ IsNumeric(node.gives)

\* crb_create_binary_expression evaluates two numbers while compiling, whatever the operator.
BinaryExpression(op) ==
  /\ Len(nodes) >= 2
  /\ LET l == Operand(2)  r == Operand(1)
         plain == Evaluate(op, l.plain, r.plain)
     IN IF Folds(l) /\ Folds(r)
        THEN LET x == Binary(op, l.gives, r.gives)
             IN IF IsError(x)
                THEN raised' = [folded |-> x, plain |-> plain] /\ nodes' = <<>>
                ELSE Fits(x) /\ Reduce(2, [literal |-> TRUE, gives |-> x, plain |-> plain])
                     /\ UNCHANGED raised
        ELSE LET x == Evaluate(op, l.gives, r.gives)
             IN /\ Fits(x)
                /\ Reduce(2, [literal |-> FALSE, gives |-> x, plain |-> plain])
                /\ UNCHANGED raised
  /\ UNCHANGED variable

MinusExpression ==
  /\ nodes # <<>>
  /\ LET x == Operand(1)
     IN /\ Fits(EvaluateMinus(x.gives))
        /\ Reduce(1, [literal |-> Folds(x), gives |-> EvaluateMinus(x.gives),
                      plain |-> EvaluateMinus(x.plain)])
  /\ UNCHANGED <<raised, variable>>

LogicalNotExpression ==
  /\ nodes # <<>>
  /\ LET x == Operand(1)
     IN Reduce(1, [literal |-> FALSE, gives |-> EvaluateNot(x.gives),
                   plain |-> EvaluateNot(x.plain)])
  /\ UNCHANGED <<raised, variable>>

\* A call of substr on a string
SubstrCall ==
  /\ nodes # <<>>
  /\ ~IsError(Operand(1).gives) /\ Operand(1).gives.type = "string"
  /\ \E from, len \in Ints :
       LET x == Substr(Operand(1).gives.v, from, len)
       IN Reduce(1, [literal |-> FALSE, gives |-> x, plain |-> x])
  /\ UNCHANGED <<raised, variable>>

Reversed(op, dest, src) ==
  CASE op = "NORMAL" -> src
    [] op = "ADD" /\ dest.type = "string" -> Chain(dest, src)
    [] OTHER -> BinaryNumeric(op, src, dest)
\* do_assign: a compound assignment does not look at the types as a binary operator does.
DoAssign(op, dest, src) ==
  CASE op = "NORMAL" -> src
    [] op = "ADD" /\ dest.type = "string" -> Chain(dest, src)
    [] OTHER -> BinaryNumeric(op, dest, src)

\* An error leaves the variable as it is; a trap ends the process, and the next one begins.
AfterError(x) == IF x = Trap THEN Null ELSE variable

\* The statement variable op= expression
Assignment(op) ==
  /\ Len(nodes) = 1 /\ nodes' = <<>>
  /\ LET src == nodes[1].gives
     IN IF IsError(src) THEN variable' = AfterError(src)
        ELSE LET x == DoAssign(op, variable, src)
             IN Fits(x) /\ variable' = IF IsError(x) THEN AfterError(x) ELSE x
  /\ UNCHANGED raised

\* variable++ and variable-- give the value before.
IncDec ==
  /\ nodes = <<>>
  /\ IF variable.type = "int"
     THEN /\ \E d \in {1, -1} : variable' = Integer(Wrap(variable.v + d))
          /\ Reduce(0, [literal |-> FALSE, gives |-> variable, plain |-> variable])
     ELSE UNCHANGED <<nodes, variable>>
  /\ UNCHANGED raised

\* An expression statement drops the value; an error ends the statement.
ExpressionStatement ==
  /\ Len(nodes) = 1 /\ nodes' = <<>>
  /\ variable' = AfterError(nodes[1].gives)
  /\ UNCHANGED raised

\* After a compile error the next program is compiled.
NextProgram ==
  /\ raised # None
  /\ nodes' = <<>> /\ raised' = None /\ variable' = Null

OperatorsNext ==
  \/ NextProgram
  \/ /\ raised = None
     /\ \/ Literal \/ Identifier \/ MinusExpression \/ LogicalNotExpression \/ SubstrCall
        \/ IncDec \/ ExpressionStatement
        \/ \E op \in BinaryOperators : BinaryExpression(op)
        \/ \E op \in Math \union {"NORMAL"} : Assignment(op)

OperatorsSpec == OperatorsInit /\ [][OperatorsNext]_operatorVars

-----------------------------------------------------------------------------
(* Properties.                                                             *)

\* Folding (create.c:204-249) changes nothing but the time of an error: a folded expression
\* gives what its operands would have given when evaluated, and where folding raises, evaluating
\* would raise too (maybe another error: 1 && 2 has one for numbers and one for conditions).
FoldingIsEvaluation ==
  /\ \A i \in DOMAIN nodes : nodes[i].gives = nodes[i].plain
  /\ raised # None => IsError(raised.plain)

\* variable op= x of the two types it is meant for
AssignsAsBinary ==
  \A op \in Math :
    LET x == nodes[1].plain
        y == Binary(op, variable, x)
    IN Assignment(op) /\ ~IsError(x) /\ x # Junk
         /\ ((IsNumeric(variable) /\ IsNumeric(x)) \/ (variable.type = "string" /\ op = "ADD"))
       => variable' = IF IsError(y) THEN AfterError(y) ELSE y
CountsAsBinary ==
  IncDec /\ variable.type = "int" =>
    variable' \in {Binary(op, variable, Integer(1)) : op \in {"ADD", "SUB"}}

\* variable op= x (eval.c:520), of two numbers or when something is added to a string, assigns what
\* variable op x gives, and an error assigns nothing; variable++ (eval.c:1581) is variable += 1,
\* modulo the width.
CompoundIsBinary == [][AssignsAsBinary /\ CountsAsBinary]_operatorVars

=============================================================================
