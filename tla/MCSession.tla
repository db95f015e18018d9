----------------------------- MODULE MCSession -----------------------------
EXTENDS Session, TLC

Symmetry == Permutations(Conns) \union Permutations(Fds)
MCUpper == [n \in {"a", "A", "k"} |-> IF n = "a" THEN "A" ELSE n]
MCEvaluate(where, row) == where \in DOMAIN row /\ row[where] = 1

Insert(t, v) == [op |-> "INSERT", table |-> t, key |-> "k", set |-> "a" :> v, listed |-> FALSE]
ListedInsert(t, v) == [Insert(t, v) EXCEPT !.listed = TRUE]
Update(t, v) == [op |-> "UPDATE", table |-> t, key |-> "k", set |-> "a" :> v, where |-> TRUE]
Plain(op, t) == [op |-> op, table |-> t]

MCStored == [t \in Tables |-> IF t = "t" THEN [k \in Keys |-> "a" :> 1] ELSE NoTable]
MCBatches == {<<ListedInsert("t", 1)>>, <<Update("t", 2)>>,
              <<Plain("CREATE", "u"), Plain("SELECT", "u"), Plain("DELETE", "t")>>}
SmallBatches == {<<Insert("t", 1), Update("t", 2)>>}

All == [type |-> "ALL_TABLES"]
Bad == [type |-> "bad"]
Ones == [type |-> "SELECT_COLUMNS", table |-> "t", columns |-> {"a"}, where |-> "a"]
Whole == [type |-> "SELECT_ALL", table |-> "t", columns |-> {}, where |-> NoWhere]

MCQueries == {Ones, All, Bad}
SmallQueries == {Whole}
MCReductions == {[table |-> "t", key |-> "k", row |-> NoRow]}
NoReductions == {}
=============================================================================
