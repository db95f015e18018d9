---------------------------- MODULE MCComponents ----------------------------
(* The inputs of Components, around every size class and special case.      *)
EXTENDS Components, Bitwise

CONSTANTS r1, r2, w1

MCXor(a, b) == a ^^ b

Text(mask, payload) == [opcode |-> 1, mask |-> mask, payload |-> payload]
Control(opcode, payload) == [opcode |-> opcode, mask |-> <<3, 0, 1, 2>>, payload |-> payload]
Bytes(n) == [i \in 1..n |-> i % 4]
Mask == <<1, 3, 2, 0>>
MCTraffic ==
  {<<>>,
   <<Text(Mask, Bytes(3)), Control(9, <<>>), Text(<<>>, <<1>>), Control(8, <<1>>), Text(Mask, <<2>>)>>,
   <<Text(Mask, Bytes(16)), Text(<<>>, Bytes(2))>>,
   <<Control(2, Bytes(1)), Text(Mask, <<>>), Text(Mask, Bytes(15))>>,
   <<Text(<<>>, <<1>>), Text(Mask, Bytes(17))>>}

MCRowKeys == {<<1>>, <<1, 2>>, <<1, 2, 0>>, <<2, 2>>}
MCScans ==
  {[prefix |-> <<1, 2>>, limit |-> 5, overlay |-> (<<1, 2, 1>> :> 100 @@ <<1>> :> 101)],
   [prefix |-> <<2>>, limit |-> 5, overlay |-> <<>>],
   [prefix |-> <<>>, limit |-> 2, overlay |-> (<<1>> :> Tombstone)]}

-----------------------------------------------------------------------------
Token(type) == [type |-> type, val |-> type]
Column(name) == [type |-> "IDENT", val |-> name]
Num(n) == [type |-> "NUMBER", val |-> n]
Quoted(s) == [type |-> "STRING", val |-> s]
AndT == <<Token("AND")>>
OrT == <<Token("OR")>>
NotT == <<Token("NOT")>>
OpenT == <<Token("LPAREN")>>
CloseT == <<Token("RPAREN")>>
X1 == <<Column("x"), Token("EQ"), Num(1)>>
XN == <<Column("x"), Token("NE"), Num(1)>>
Half == <<Column("x"), Token("EQ")>>
Atoms ==
  {<<Column(c), Token(op), Num(1)>> : c \in {"x", "z"}, op \in Comparisons}
  \union {<<Column("s"), Token(op), Quoted(<<"a">>)>> : op \in {"EQ", "NE"}}
  \union {<<Column(c), Token(op), Token(l)>> : c \in {"x", "f"}, op \in {"NE", "LT"}, l \in {"TRUE", "NULL"}}
  \union {<<Column(c), Token("IS"), Token("NULL")>> : c \in {"x", "z"}}
  \union {<<Column(c), Token("IS"), Token("NOT"), Token("NULL")>> : c \in {"x", "z"}}
  \union {<<Column(c), Token("LIKE"), Quoted(<<"%">>)>> : c \in {"s", "x"}}
  \union {<<Column("x"), Token("LIKE"), Num(1)>>, <<Column("x"), Token("IS"), Num(1)>>,
          <<Num(1), Token("EQ"), Column("x")>>}
Operands == {<<X1>>, <<XN>>, <<NotT, X1>>, <<OpenT, X1, OrT, XN, CloseT>>, <<NotT, OpenT, X1, AndT, XN, CloseT>>}
MCClauses ==
  SeqOf({X1, XN, Half, AndT, OrT, NotT, OpenT, CloseT}, 5)
  \union {a \o <<o>> \o b \o <<p>> \o c : a, b, c \in Operands, o, p \in {AndT, OrT}}
  \union {<<a>> : a \in Atoms} \union {<<NotT, a, o, XN>> : a \in Atoms, o \in {AndT, OrT}}
MCRows ==
  {[x |-> [type |-> "NUMBER", val |-> n]] : n \in {0, 1, 2}}
  \union {[x |-> [type |-> "NULL", val |-> 0], s |-> [type |-> "STRING", val |-> <<"a">>]],
          [s |-> [type |-> "NUMBER", val |-> 1], f |-> [type |-> "BOOLEAN", val |-> FALSE]],
          [x |-> [type |-> "BOOLEAN", val |-> TRUE], s |-> [type |-> "STRING", val |-> <<>>]]}

-----------------------------------------------------------------------------
RowColumns ==
  {<<>>,
   <<7>> :> [tag |-> 7, val |-> TRUE] @@ <<8, 8>> :> [tag |-> 5, val |-> <<1, 0, 255>>]
     @@ <<>> :> [tag |-> 0, val |-> <<>>],
   <<7>> :> [tag |-> 1, val |-> <<255, 255, 255, 127>>]
     @@ <<9>> :> [tag |-> 8, val |-> <<0, 0, 0, 0, 0, 0, 0, 128>>] @@ <<1>> :> [tag |-> 6, val |-> <<>>]}
MCSchemas ==
  {[name |-> <<1>>, primary_key |-> pk,
    columns |-> <<[name |-> <<2>>, type |-> 3, nullable |-> n, is_primary_key |-> TRUE],
                  [name |-> <<>>, type |-> 0, nullable |-> TRUE, is_primary_key |-> FALSE]>>]
     : pk \in {<<>>, << <<2>>, <<4, 4>> >>}, n \in BOOLEAN}
MCEvents ==
  {[subscription_id |-> <<5>>, table |-> <<6, 6>>, operation |-> op, key |-> <<>>, data |-> data]
     : op \in {"insert", "update", "delete", "truncate", "custom"},
       data \in {<<>>,
                 <<1>> :> [type |-> "string", val |-> <<1, 2>>] @@ <<2>> :> [type |-> "null", val |-> <<>>],
                 <<1>> :> [type |-> "boolean", val |-> TRUE] @@ <<3>> :> [type |-> "array", val |-> <<>>]
                   @@ <<>> :> [type |-> "integer", val |-> <<255, 0, 0, 0, 0, 0, 0, 1>>]}}
Json ==
  {[type |-> t, val |-> <<1>>] : t \in {"string", "float", "array", "object"}}
  \union {[type |-> "integer", val |-> n] : n \in {-Int64Bound, -1, 0, Int64Bound - 1, Int64Bound, 2 * Int64Bound - 1}}
  \union {[type |-> "null", val |-> <<>>], [type |-> "boolean", val |-> TRUE]}
  \union {[type |-> "bytes", val |-> Base64Encode(b)] : b \in SeqOf({0, 1, 130, 255}, 4)}
  \union {[type |-> "bytes", val |-> a \o t] : a \in {<<>>, <<0, 16, Pad, Pad>>},
                                             t \in SeqOf({0, 16, 63, Pad, Other}, 4)}
  \union {[type |-> "mixed", val |-> [bytes |-> b, rest |-> 1]] : b \in {<<0, 16, Pad, Pad>>, <<Other>>}}
Numeric(n, rank) == [num |-> TRUE, val |-> n, text |-> rank]
\* "0" < "1" < "10" < "1x" < "9" as text.
Versions ==
  SeqOf({Numeric(0, 1), Numeric(1, 2), Numeric(10, 3), Numeric(9, 5), [num |-> FALSE, val |-> 0, text |-> 4]}, 2)
  \union {<<Numeric(1, 2), Numeric(9, 5), Numeric(9, 5)>>}
MCCharacters == {"a", "b", ".", "%", "_", "\n"}

MCCalls ==
  {[of |-> "like", pattern |-> p, text |-> t]
     : p \in SeqOf({"a", ".", "%", "_"}, 3), t \in SeqOf({"a", "b", ".", "\n"}, 3)}
  \union {[of |-> "row", row |-> [key |-> <<3, 3>>, columns |-> c]] : c \in RowColumns}
  \union {[of |-> "schema", schema |-> s] : s \in MCSchemas}
  \union {[of |-> "event", event |-> e] : e \in MCEvents}
  \union {[of |-> "message", bytes |-> t, number |-> n] : t \in {<<>>, <<1>>}, n \in {0, 300}}
  \union {[of |-> "value", json |-> j] : j \in Json}
  \union {[of |-> "versions", a |-> v, b |-> w] : v, w \in Versions}

=============================================================================
