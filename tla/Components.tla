----------------------------- MODULE Components -----------------------------
(***************************************************************************)
(* The components whose correctness does not need the rest of the server, in *)
(* one specification: a behaviour is one of                                  *)
(*   - a client's byte stream through the receive loop (WebSocketFrames);    *)
(*   - readers and writers of a MemTable (MemTable);                         *)
(*   - one call of a pure algorithm (Predicate, RowCodec, HostValues), whose *)
(*     answer is compared with a definition that says what it should be.     *)
(***************************************************************************)
EXTENDS WebSocketFrames, MemTable, Predicate, RowCodec, HostValues

CONSTANTS
  Clauses,  \* WHERE clauses, as sequences of pieces of a few tokens
  Rows      \* the rows they are evaluated on

VARIABLE part  \* "frames", "memtable" or "call"

vars == <<frameVars, memVars, part, call, answer>>

Init ==
  /\ part \in {"frames", "memtable", "call"} /\ answer = Pending
  /\ FrameInit /\ (part # "frames" => traffic = <<>>)
  /\ MemInit
  /\ IF part = "call" THEN call \in Calls \/ \E c \in Clauses : call = [of |-> "clause", chunks |-> c]
     ELSE call = Pending

-----------------------------------------------------------------------------
ParseClause == Called("clause") /\ answer' = Parse(FlattenSeq(call.chunks))

Next ==
  \/ part = "frames" /\ FrameNext /\ UNCHANGED <<memVars, part, call, answer>>
  \/ part = "memtable" /\ MemNext /\ UNCHANGED <<frameVars, part, call, answer>>
  \/ /\ \/ ReadRow \/ ReadSchema \/ ReadEvent \/ ReadOther
        \/ ParseClause \/ MatchLike \/ StoreValue \/ Compare
     /\ UNCHANGED <<frameVars, memVars, part, call>>

Spec == Init /\ [][Next]_vars

-----------------------------------------------------------------------------
\* The clause as the grammar reads it: split at the last OR outside parentheses,
\* else at the last such AND; then NOT, parentheses, a comparison.
Depth(cs, i) == Cardinality({j \in 1..i : cs[j][1].type = "LPAREN"})
                - Cardinality({j \in 1..i : cs[j][1].type = "RPAREN"})

RECURSIVE Grammar(_)
Grammar(cs) ==
  LET outside(type) == {i \in 1..Len(cs) : cs[i][1].type = type /\ Depth(cs, i) = 0}
      type == IF outside("OR") # {} THEN "OR" ELSE "AND"
      cut == CHOOSE i \in outside(type) : \A j \in outside(type) : j <= i
      left == Grammar(SubSeq(cs, 1, cut - 1))
      right == Grammar(SubSeq(cs, cut + 1, Len(cs)))
      rest == Grammar(Tail(cs))
  IN IF outside(type) # {}
     THEN IF Error \in {left, right} THEN Error ELSE Binary(type, left, right)
     ELSE CASE cs = <<>> -> Error
            [] cs # <<>> /\ cs[1][1].type = "NOT" ->
                 IF rest = Error THEN Error ELSE [kind |-> "NOT", left |-> rest]
            [] cs # <<>> /\ cs[1][1].type = "LPAREN" ->
                 IF Len(cs) > 2 /\ cs[Len(cs)][1].type = "RPAREN"
                 THEN Grammar(SubSeq(cs, 2, Len(cs) - 1)) ELSE Error
            [] OTHER -> IF Len(cs) = 1 /\ cs[1][1].type = "IDENT" /\ Len(cs[1]) > 2
                        THEN ParseComparison(cs[1], 1).node ELSE Error

\* A WHERE clause is parsed to the tree that the grammar gives it (OR weakest,
\* then AND, both to the left, NOT strongest), and is refused when it has none.
ParsesByPrecedence == Answered("clause") => answer = Grammar(call.chunks)

\* SQL's three-valued truth of a clause, "U" where a comparison has a null, an
\* absent or a mistyped side.
RECURSIVE Sql(_, _)
Sql(node, row) ==
  LET truth(b) == IF b THEN "T" ELSE "F"
      sides == {Sql(node.left, row), Sql(node.right, row)}
      known == /\ ~Absent(node.column, row)
               /\ node.kind = "COMPARISON" => /\ row[node.column].type = node.literal.type
                                              /\ node.op \in {"EQ", "NE"} \/ node.literal.type = "NUMBER"
               /\ node.kind = "LIKE" => row[node.column].type = "STRING"
  IN CASE node.kind = "OR"  -> IF "T" \in sides THEN "T" ELSE IF "U" \in sides THEN "U" ELSE "F"
       [] node.kind = "AND" -> IF "F" \in sides THEN "F" ELSE IF "U" \in sides THEN "U" ELSE "T"
       [] node.kind = "NOT" -> LET s == Sql(node.left, row)
                               IN IF s = "U" THEN "U" ELSE truth(s = "F")
       [] node.kind = "IS_NULL" -> truth(Absent(node.column, row) # node.negated)
       [] OTHER -> IF known THEN truth(EvaluateNode(node, row)) ELSE "U"

RECURSIVE HasNot(_)
HasNot(node) ==
  \/ node.kind = "NOT"
  \/ node.kind \in {"AND", "OR"} /\ (HasNot(node.left) \/ HasNot(node.right))

\* "Collapsed SQL NULL semantics": where SQL's answer is true or false the
\* evaluator gives the same, whatever nulls the row has; where it is unknown, a
\* clause without NOT does not match.  (Under NOT an unknown comparison matches.)
NullsCollapsed ==
  Answered("clause") /\ answer # Error =>
    \A row \in Rows :
      LET s == Sql(answer, row)
      IN /\ s # "U" => EvaluateNode(answer, row) = (s = "T")
         /\ s = "U" /\ ~HasNot(answer) => ~EvaluateNode(answer, row)

=============================================================================
