----------------------------- MODULE SqlEngine -----------------------------
(***************************************************************************)
(* src/src/sql/sql_engine.cpp behind the SQL service of                      *)
(* src/src/grpc/grpc_server.cpp: statements that run as several calls of the *)
(* storage engine, and calls of several statements.                          *)
(*                                                                           *)
(* The storage engine is seen through its promises (module StorageEngine): a *)
(* commit applies its write to the memtable at once, is told by the log      *)
(* whether it is durable, and only then publishes its event.                 *)
(***************************************************************************)
EXTENDS Integers, Sequences, FiniteSets

CONSTANTS
  Callers,      \* threads of the gRPC server
  Tables, Keys, Columns, Vals,
  Stored,       \* the memtables after recovery
  Upper,        \* toupper, on column names and keys
  Batches,      \* the statement lists that callers send
  NoRow, NoTable,
  MaxCalls      \* bound on calls of the service

Row == UNION {[cols -> Vals] : cols \in SUBSET Columns}

ASSUME SqlConstants ==
  /\ MaxCalls \in Nat
  /\ Stored \in [Tables -> {NoTable} \union [Keys -> Row \union {NoRow}]]
  /\ Upper \in [Columns \union Keys -> Columns \union Keys]
  /\ \A b \in Batches : /\ Len(b) \in Nat \ {0} /\ b = [i \in 1..Len(b) |-> b[i]]
                         /\ \A i \in 1..Len(b) : "table" \in DOMAIN b[i] /\ b[i].table \in Tables

VARIABLES
  rows,    \* the memtables
  feed,    \* what PublishEvent received, in offset order
  walUp,   \* the log accepts appends
  call,    \* each caller's progress through its batch
  calls,
  commits  \* history: the events of all applied commits, in that order

sqlVars == <<rows, feed, walUp, call, calls, commits>>

Idle == [at |-> "idle", todo |-> <<>>, key |-> NoRow, row |-> NoRow, n |-> 0]

SqlInit ==
  /\ rows = Stored
  /\ feed = <<>> /\ walUp = TRUE /\ calls = 0 /\ commits = <<>>
  /\ call = [c \in Callers |-> Idle]

-----------------------------------------------------------------------------
(* SqlParser::Parse.  The statement forms are matched against the upper-cased*)
(* text: a listed column of an INSERT and the key of an UPDATE stay upper    *)
(* case, while SET columns and the default column list keep theirs.          *)
UpperColumns(cols) ==
  [n \in {Upper[c] : c \in DOMAIN cols} |-> cols[CHOOSE c \in DOMAIN cols : Upper[c] = n]]

Parse(s) ==
  CASE s.op = "INSERT" /\ s.listed -> [s EXCEPT !.set = UpperColumns(@)]
    [] s.op = "UPDATE"             -> [s EXCEPT !.key = Upper[@]]
    [] OTHER                       -> s

\* updated_row: the existing row with the statement's columns on top.
Merged(old, new) ==
  [c \in DOMAIN old \union DOMAIN new |-> IF c \in DOMAIN new THEN new[c] ELSE old[c]]

-----------------------------------------------------------------------------
(* Commit of one write: applied under tables_mutex_, then the caller waits   *)
(* for the log; n is the commit's place in the order of application.         *)
NextCommit == Len(commits) + 1

Applied(op, t, k, new) ==
  /\ rows' = [rows EXCEPT ![t][k] = new]
  /\ commits' = Append(commits, [op |-> op, table |-> t, key |-> k, new |-> new,
                                 old |-> rows[t][k], durable |-> walUp, n |-> NextCommit])

\* The end of a statement: a failure breaks off the batch.
Done(c, ok) ==
  call' = [call EXCEPT ![c] = IF ok /\ Len(@.todo) > 1
                              THEN [Idle EXCEPT !.at = "next", !.todo = Tail(call[c].todo)]
                              ELSE Idle]

\* Execute and ExecuteTransaction: one caller, one list of statements.
Execute(c, batch) ==
  /\ call[c].at = "idle" /\ calls < MaxCalls
  /\ calls' = calls + 1
  /\ call' = [call EXCEPT ![c] = [Idle EXCEPT !.at = "next", !.todo = batch]]
  /\ UNCHANGED <<rows, feed, walUp, commits>>

Current(c) == Parse(Head(call[c].todo))
Waiting(c, op) == call[c].at = "next" /\ Current(c).op = op

\* A text that no form matches, and the statements the engine refuses.
ExecuteRefused(c) ==
  /\ Waiting(c, "DELETE") /\ Done(c, FALSE)
  /\ UNCHANGED <<rows, feed, walUp, calls, commits>>

ExecuteSelect(c) ==
  /\ Waiting(c, "SELECT") /\ Done(c, rows[Current(c).table] # NoTable)
  /\ UNCHANGED <<rows, feed, walUp, calls, commits>>

\* CreateTable fails on a table that exists.  The table is entered before the log
\* is told, and what the log says is not looked at.
ExecuteCreateTable(c) ==
  LET t == Current(c).table
      ok == rows[t] = NoTable
  IN /\ Waiting(c, "CREATE") /\ Done(c, ok)
     /\ rows' = IF ok THEN [rows EXCEPT ![t] = [k \in Keys |-> NoRow]] ELSE rows
     /\ UNCHANGED <<feed, walUp, calls, commits>>

\* GetTable and Get of an UPDATE: the row is read here and written back later.
ExecuteUpdate(c) ==
  LET s == Current(c)
      found == rows[s.table] # NoTable /\ s.where /\ rows[s.table][s.key] # NoRow
  IN /\ Waiting(c, "UPDATE")
     /\ IF ~found THEN Done(c, FALSE)
        ELSE call' = [call EXCEPT ![c].at = "update", ![c].key = s.key,
                                  ![c].row = Merged(rows[s.table][s.key], s.set)]
     /\ UNCHANGED <<rows, feed, walUp, calls, commits>>

\* Mutant: the event is published although the log failed.
ExecuteInsertUnchecked(c) ==
  LET s == Current(c)
  IN /\ Waiting(c, "INSERT")
     /\ IF rows[s.table] = NoTable THEN Done(c, FALSE) /\ UNCHANGED <<rows, commits>>
        ELSE /\ Applied("INSERT", s.table, s.key, s.set)
             /\ call' = [call EXCEPT ![c].at = "publish", ![c].key = s.key, ![c].row = s.set,
                                     ![c].n = NextCommit]
     /\ UNCHANGED <<feed, walUp, calls>>

\* GetTable, then storage_->Insert: the whole row replaces one that is there.
\* It returns false when the log failed, with the row applied all the same.
\* No statement drops a table, so the two calls are one step.
ExecuteInsert(c) ==
  LET s == Current(c)
  IN /\ Waiting(c, "INSERT")
     /\ IF rows[s.table] = NoTable THEN Done(c, FALSE) /\ UNCHANGED <<rows, commits>>
        ELSE /\ Applied("INSERT", s.table, s.key, s.set)
             /\ call' = [call EXCEPT ![c].at = IF walUp THEN "publish" ELSE "convert",
                                     ![c].key = s.key, ![c].row = s.set, ![c].n = NextCommit]
     /\ UNCHANGED <<feed, walUp, calls>>

\* The failed INSERT is converted to an UPDATE of the row that Get returns.
ConvertToUpdate(c) ==
  LET old == rows[Current(c).table][call[c].key]
  IN /\ call[c].at = "convert"
     /\ call' = [call EXCEPT ![c].at = "update",
                   ![c].row = IF old = NoRow THEN @ ELSE Merged(old, @)]
     /\ UNCHANGED <<rows, feed, walUp, calls, commits>>

\* storage_->Update fails on a row that is gone.
StorageUpdate(c) ==
  LET t == Current(c).table
      k == call[c].key
  IN /\ call[c].at = "update"
     /\ IF rows[t][k] = NoRow THEN Done(c, FALSE) /\ UNCHANGED <<rows, commits>>
        ELSE /\ Applied("UPDATE", t, k, call[c].row)
             /\ IF walUp THEN call' = [call EXCEPT ![c].at = "publish", ![c].n = NextCommit]
                         ELSE Done(c, FALSE)
     /\ UNCHANGED <<feed, walUp, calls>>

\* Once durable: the event of the commit goes to the changefeed.
Publish(c) ==
  /\ call[c].at = "publish"
  /\ feed' = Append(feed, commits[call[c].n])
  /\ Done(c, TRUE)
  /\ UNCHANGED <<rows, walUp, calls, commits>>

\* The log's device fails; the engine never writes again.
WalFails ==
  /\ walUp /\ walUp' = FALSE
  /\ UNCHANGED <<rows, feed, call, calls, commits>>

SqlNext ==
  \/ \E c \in Callers :
       \/ \E b \in Batches : Execute(c, b)
       \/ ExecuteRefused(c) \/ ExecuteSelect(c) \/ ExecuteCreateTable(c)
       \/ ExecuteInsert(c) \/ ExecuteUpdate(c)
       \/ ConvertToUpdate(c) \/ StorageUpdate(c) \/ Publish(c)
  \/ WalFails

=============================================================================
