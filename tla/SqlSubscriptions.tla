-------------------------- MODULE SqlSubscriptions --------------------------
(***************************************************************************)
(* src/src/changefeed/sql_subscription.cpp: the subscriptions of websocket   *)
(* clients, the two routing indexes and the list per client that have to     *)
(* agree with them, and which subscriptions an event goes to.                *)
(* Every public operation holds subscriptions_mutex_ throughout.             *)
(***************************************************************************)
EXTENDS Integers, FiniteSets

CONSTANTS
  ClientIds, TableNames,
  NoRow,           \* the event carries no row, or one that does not parse
  NoWhere,         \* the query has no WHERE clause
  MaxSubs,         \* bound on subscription ids
  Evaluate(_, _)   \* PredicateEvaluator::Evaluate, of a predicate and a row

SubIds == 1..MaxSubs

VARIABLES
  subscriptions,         \* the subscriptions that exist
  client_subscriptions,  \* the ids of each client: no id is given twice, no order is read
  table_index,           \* table -> ids
  all_tables_index,      \* ids of the catch-all subscriptions
  next_subscription_id

subVars == <<subscriptions, client_subscriptions, table_index, all_tables_index,
             next_subscription_id>>

\* A query is what SqlSubscriptionParser::Parse reads out of its text: a type, a
\* table, columns and a compiled WHERE clause; its type is "bad" when the text
\* is not a SELECT or the clause does not compile.
Parses(query) == query.type # "bad"

SubInit ==
  /\ subscriptions = <<>>
  /\ client_subscriptions = [c \in ClientIds |-> {}]
  /\ table_index = [t \in TableNames |-> {}]
  /\ all_tables_index = {}
  /\ next_subscription_id = 1

IsCatchAll(sub) == sub.query.type = "ALL_TABLES"

IndexSubscription(id, sub) ==
  /\ all_tables_index' = IF IsCatchAll(sub) THEN all_tables_index \union {id}
                                            ELSE all_tables_index
  /\ table_index' = IF IsCatchAll(sub) THEN table_index
                    ELSE [table_index EXCEPT ![sub.query.table] = @ \union {id}]

\* Mutant: catch-all subscriptions stay in their index.
UnindexTables(ids) ==
  /\ table_index' = [t \in TableNames |-> table_index[t] \ ids]
  /\ UNCHANGED all_tables_index

\* UnindexSubscription, of a set of subscriptions.
UnindexSubscriptions(ids) ==
  /\ all_tables_index' = all_tables_index \ {i \in ids : IsCatchAll(subscriptions[i])}
  /\ table_index' = [t \in TableNames |->
        table_index[t] \ {i \in ids : /\ ~IsCatchAll(subscriptions[i])
                                      /\ subscriptions[i].query.table = t}]

\* Subscribe and SubscribeToAllTables.  A query that does not parse throws
\* after its id was taken.
Subscribe(client, query) ==
  LET id == next_subscription_id
      sub == [client |-> client, query |-> query]
  IN /\ id \in SubIds
     /\ next_subscription_id' = id + 1
     /\ IF ~Parses(query)
        THEN UNCHANGED <<subscriptions, client_subscriptions, table_index, all_tables_index>>
        ELSE /\ IndexSubscription(id, sub)
             /\ subscriptions' = [i \in DOMAIN subscriptions \union {id} |->
                                    IF i = id THEN sub ELSE subscriptions[i]]
             /\ client_subscriptions' = [client_subscriptions EXCEPT ![client] = @ \union {id}]

Erase(ids) == subscriptions' = [i \in DOMAIN subscriptions \ ids |-> subscriptions[i]]

Unsubscribe(id) ==
  /\ IF id \in DOMAIN subscriptions
     THEN /\ UnindexSubscriptions({id})
          /\ Erase({id})
          /\ client_subscriptions' =
               [client_subscriptions EXCEPT ![subscriptions[id].client] = @ \ {id}]
     ELSE UNCHANGED <<subscriptions, client_subscriptions, table_index, all_tables_index>>
  /\ UNCHANGED next_subscription_id

UnsubscribeAll(client) ==
  LET ids == client_subscriptions[client] \intersect DOMAIN subscriptions
  IN /\ UnindexSubscriptions(ids)
     /\ Erase(ids)
     /\ client_subscriptions' = [client_subscriptions EXCEPT ![client] = {}]
     /\ UNCHANGED next_subscription_id

-----------------------------------------------------------------------------
\* A row counts for a predicate when the event carries it and it parses.
Satisfies(sub, row) == row # NoRow /\ Evaluate(sub.query.where, row)

MatchesEvent(sub, ev) ==
  \/ IsCatchAll(sub)
  \/ /\ sub.query.table = ev.table
     /\ \/ sub.query.where = NoWhere
        \/ ev.op = "DELETE" /\ Satisfies(sub, ev.old)
        \/ ev.op = "UPDATE" /\ (Satisfies(sub, ev.new) \/ Satisfies(sub, ev.old))
        \/ ev.op \notin {"DELETE", "UPDATE"} /\ Satisfies(sub, ev.new)

\* The fields of a serialized row: its key and its columns, one level down.
Serialized(key, row) ==
  IF row = NoRow THEN NoRow ELSE [f \in {"key", "columns"} |-> IF f = "key" THEN key ELSE row]

\* FilterEvent: the named columns that the serialized row has at its top level;
\* a value that is not an object leaves the event as it is.
Projected(sub, value) ==
  IF sub.query.type # "SELECT_COLUMNS" \/ value = NoRow THEN value
  ELSE [f \in DOMAIN value \intersect sub.query.columns |-> value[f]]

\* Mutant: the catch-alls are looked up only for a table without subscriptions.
CandidatesByTable(ev) ==
  IF ev.table \in TableNames /\ table_index[ev.table] # {} THEN table_index[ev.table]
  ELSE all_tables_index

\* ProcessEvent: the candidates of the event's table and the catch-alls.
Candidates(ev) ==
  all_tables_index \union (IF ev.table \in TableNames THEN table_index[ev.table] ELSE {})

ProcessEvent(ev) ==
  {i \in Candidates(ev) : i \in DOMAIN subscriptions /\ MatchesEvent(subscriptions[i], ev)}

=============================================================================
