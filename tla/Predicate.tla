----------------------------- MODULE Predicate -----------------------------
(***************************************************************************)
(* src/src/changefeed/predicate_evaluator.cpp: WHERE clauses of SQL          *)
(* subscriptions.  A clause is a sequence of tokens [type, val]; a row maps  *)
(* its columns to JSON values [type, val], a string being a sequence of      *)
(* characters.  Strings are compared for equality only.                      *)
(***************************************************************************)
EXTENDS Naturals, SequencesExt, LikePattern

Error == [kind |-> "error"]
Comparisons == {"EQ", "NE", "LT", "LE", "GT", "GE"}
Literals == {"STRING", "NUMBER", "TRUE", "FALSE", "NULL"}

\* Peek and Match, at index i; the END token is past the last one.
Peek(ts, i) == IF i <= Len(ts) THEN ts[i].type ELSE "END"

Literal(t) ==
  CASE t.type \in {"TRUE", "FALSE"} -> [type |-> "BOOLEAN", val |-> t.type = "TRUE"]
    [] OTHER                        -> [type |-> t.type, val |-> t.val]

At(i, node) == [i |-> i, node |-> node]
Binary(kind, left, right) == [kind |-> kind, left |-> left, right |-> right]

\* ident op literal | ident LIKE 'pattern' | ident IS [NOT] NULL
ParseComparison(ts, i) ==
  LET col == ts[i].val
      neg == Peek(ts, i + 2) = "NOT"
      isAt == IF neg THEN i + 3 ELSE i + 2
  IN CASE Peek(ts, i) # "IDENT" -> At(i, Error)
       [] Peek(ts, i) = "IDENT" /\ Peek(ts, i + 1) = "IS" ->
            IF Peek(ts, isAt) = "NULL"
            THEN At(isAt + 1, [kind |-> "IS_NULL", column |-> col, negated |-> neg])
            ELSE At(i, Error)
       [] Peek(ts, i) = "IDENT" /\ Peek(ts, i + 1) = "LIKE" ->
            IF Peek(ts, i + 2) = "STRING"
            THEN At(i + 3, [kind |-> "LIKE", column |-> col, pattern |-> ts[i + 2].val])
            ELSE At(i, Error)
       [] OTHER ->
            IF Peek(ts, i + 1) \in Comparisons /\ Peek(ts, i + 2) \in Literals
            THEN At(i + 3, [kind |-> "COMPARISON", column |-> col, op |-> ts[i + 1].type,
                            literal |-> Literal(ts[i + 2])])
            ELSE At(i, Error)

RECURSIVE ParseExpr(_, _), ExprRest(_, _), ParseTerm(_, _), TermRest(_, _), ParseFactor(_, _)

\* Mutant: NOT takes a whole term.
ParseFactorGreedy(ts, i) ==
  CASE Peek(ts, i) = "LPAREN" ->
         LET e == ParseExpr(ts, i + 1)
         IN IF e.node = Error \/ Peek(ts, e.i) # "RPAREN" THEN At(e.i, Error) ELSE At(e.i + 1, e.node)
    [] Peek(ts, i) = "NOT" ->
         LET f == ParseTerm(ts, i + 1)
         IN IF f.node = Error THEN f ELSE At(f.i, [kind |-> "NOT", left |-> f.node])
    [] OTHER -> ParseComparison(ts, i)

\* '(' expr ')' | NOT factor | comparison
ParseFactor(ts, i) ==
  CASE Peek(ts, i) = "LPAREN" ->
         LET e == ParseExpr(ts, i + 1)
         IN IF e.node = Error \/ Peek(ts, e.i) # "RPAREN" THEN At(e.i, Error) ELSE At(e.i + 1, e.node)
    [] Peek(ts, i) = "NOT" ->
         LET f == ParseFactor(ts, i + 1)
         IN IF f.node = Error THEN f ELSE At(f.i, [kind |-> "NOT", left |-> f.node])
    [] OTHER -> ParseComparison(ts, i)

\* factor (AND factor)*, and the loop with what is on its left so far.
ParseTerm(ts, i) == TermRest(ts, ParseFactor(ts, i))

TermRest(ts, left) ==
  IF left.node = Error \/ Peek(ts, left.i) # "AND" THEN left
  ELSE LET right == ParseFactor(ts, left.i + 1)
       IN IF right.node = Error THEN right
          ELSE TermRest(ts, At(right.i, Binary("AND", left.node, right.node)))

\* term (OR term)*
ParseExpr(ts, i) == ExprRest(ts, ParseTerm(ts, i))

ExprRest(ts, left) ==
  IF left.node = Error \/ Peek(ts, left.i) # "OR" THEN left
  ELSE LET right == ParseTerm(ts, left.i + 1)
       IN IF right.node = Error THEN right
          ELSE ExprRest(ts, At(right.i, Binary("OR", left.node, right.node)))

Parse(ts) ==
  LET e == ParseExpr(ts, 1)
  IN IF e.node # Error /\ Peek(ts, e.i) = "END" THEN e.node ELSE Error

-----------------------------------------------------------------------------
Absent(col, row) == col \notin DOMAIN row \/ row[col].type = "NULL"

CompareOrdered(a, b, op) ==
  CASE op = "EQ" -> a = b
    [] op = "NE" -> a # b
    [] op = "LT" -> a < b
    [] op = "LE" -> a <= b
    [] op = "GT" -> a > b
    [] op = "GE" -> a >= b

\* Mutant: != of an absent or mistyped value is true.
EvaluateComparisonLoose(node, row) ==
  IF Absent(node.column, row) \/ node.literal.type # row[node.column].type THEN node.op = "NE"
  ELSE CompareOrdered(row[node.column].val, node.literal.val, node.op)

\* A missing or null value, the literal NULL and a value of another type
\* compare false; booleans have no order.
EvaluateComparison(node, row) ==
  /\ ~Absent(node.column, row)
  /\ node.literal.type # "NULL" /\ row[node.column].type = node.literal.type
  /\ node.literal.type = "BOOLEAN" => node.op \in {"EQ", "NE"}
  /\ CompareOrdered(row[node.column].val, node.literal.val, node.op)

RECURSIVE EvaluateNode(_, _)
EvaluateNode(node, row) ==
  CASE node.kind = "OR"      -> EvaluateNode(node.left, row) \/ EvaluateNode(node.right, row)
    [] node.kind = "AND"     -> EvaluateNode(node.left, row) /\ EvaluateNode(node.right, row)
    [] node.kind = "NOT"     -> ~EvaluateNode(node.left, row)
    [] node.kind = "IS_NULL" -> Absent(node.column, row) # node.negated
    [] node.kind = "LIKE"    -> /\ node.column \in DOMAIN row /\ row[node.column].type = "STRING"
                                /\ RegexMatch(row[node.column].val, LikePatternToRegex(node.pattern))
    [] OTHER                 -> EvaluateComparison(node, row)

=============================================================================
