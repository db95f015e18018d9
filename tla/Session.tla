------------------------------ MODULE Session ------------------------------
(***************************************************************************)
(* src/src/websocket/websocket_server.cpp: one detached thread per           *)
(* connection, and the thread of the changefeed that calls OnChangefeedEvent *)
(* (events in offset order, one at a time: module Changefeed).  Composed     *)
(* with the SQL engine, whose callers write the tables, and with the         *)
(* subscriptions.                                                            *)
(*                                                                           *)
(* A connection is used once; the descriptor the kernel gives it is free     *)
(* for another one as soon as close returns.                                 *)
(***************************************************************************)
EXTENDS SqlEngine

CONSTANTS
  Conns, Fds,
  Nobody,          \* no connection
  Queries,         \* subscription requests
  Reductions,      \* the writes that call_reducer may make
  NoWhere, Evaluate(_, _),
  MaxSubs, MaxRequests

ASSUME SessionConstants ==
  /\ Nobody \notin Conns
  /\ MaxSubs \in Nat /\ MaxRequests \in Nat
  /\ \A q \in Queries : q.type \in {"bad", "ALL_TABLES"} \/ q.table \in Tables
  /\ \A w \in Reductions : w.table \in Tables /\ w.key \in Keys

VARIABLES subscriptions, client_subscriptions, table_index, all_tables_index,
          next_subscription_id

subVars == <<subscriptions, client_subscriptions, table_index, all_tables_index,
             next_subscription_id>>

Subs == INSTANCE SqlSubscriptions WITH ClientIds <- Conns, TableNames <- Tables

VARIABLES
  process,      \* "up", or "dead" when an exception left a thread or SIGPIPE came
  owner,        \* which connection a descriptor denotes
  client_ids,   \* client_ids_: descriptor -> client
  conn,         \* each connection's thread and peer
  cf,           \* OnChangefeedEvent
  inbox,        \* what arrived at each client, in order
  readAt,       \* history: the commits each subscription's snapshot has seen
  requests      \* requests so far, of all connections

connVars == <<process, owner, client_ids, conn, cf, inbox, readAt, requests>>
vars == <<sqlVars, subVars, connVars>>

NoConn == [at |-> "none", fd |-> Nobody, peer |-> "up", sub |-> 0, query |-> Nobody,
           left |-> {}, snap |-> <<>>, n |-> 0]
NoEvent == [at |-> "wait", off |-> 0, todo |-> {}, msg |-> Nobody, fd |-> Nobody]

Init ==
  /\ SqlInit /\ Subs!SubInit
  /\ process = "up"
  /\ owner = [f \in Fds |-> Nobody]
  /\ client_ids = [f \in Fds |-> Nobody]
  /\ conn = [c \in Conns |-> NoConn]
  /\ cf = NoEvent
  /\ inbox = [c \in Conns |-> <<>>]
  /\ readAt = [i \in 1..MaxSubs |-> [t \in Tables |-> -1]]
  /\ requests = 0

-----------------------------------------------------------------------------
(* SendWebSocketFrame.  To a peer that is gone the frame is lost, or the send*)
(* fails: a handler's exception is answered by another send, which throws    *)
(* out of the detached thread, and EPIPE brings SIGPIPE with it.             *)
Arrives(c, frame) == inbox' = [inbox EXCEPT ![c] = Append(@, frame)]

HandlerSend(c, frame) ==
  IF conn[c].peer = "up" THEN Arrives(c, frame) /\ UNCHANGED process
  ELSE UNCHANGED inbox /\ process' \in {"up", "dead"}

HandlerReply(c) == process' \in (IF conn[c].peer = "up" THEN {"up"} ELSE {"up", "dead"})

At(c, at) == process = "up" /\ conn[c].at = at
Step(c, at) == conn' = [conn EXCEPT ![c].at = at]

(* RunServer and the first half of HandleClient.                             *)
Accept(c, f) ==
  /\ At(c, "none") /\ owner[f] = Nobody
  /\ owner' = [owner EXCEPT ![f] = c]
  /\ conn' = [conn EXCEPT ![c].at = "accepted", ![c].fd = f]
  /\ UNCHANGED <<sqlVars, subVars, process, client_ids, cf, inbox, readAt, requests>>

\* No request, no upgrade, a bad token, no key, or a reply that failed.
Refuse(c) ==
  /\ At(c, "accepted") /\ Step(c, "closed")
  /\ owner' = [owner EXCEPT ![conn[c].fd] = Nobody]
  /\ UNCHANGED <<sqlVars, subVars, process, client_ids, cf, inbox, readAt, requests>>

\* Registered under clients_mutex_, then greeted; nothing is subscribed yet.
Register(c) ==
  /\ At(c, "accepted") /\ Step(c, "loop") /\ HandlerReply(c)
  /\ client_ids' = [client_ids EXCEPT ![conn[c].fd] = c]
  /\ UNCHANGED <<sqlVars, subVars, owner, cf, inbox, readAt, requests>>

\* The client closes or its network fails.
PeerGone(c) ==
  /\ process = "up" /\ conn[c].at \notin {"none", "closed"} /\ conn[c].peer = "up"
  /\ conn' = [conn EXCEPT ![c].peer = "gone"]
  /\ UNCHANGED <<sqlVars, subVars, process, owner, client_ids, cf, inbox, readAt, requests>>

-----------------------------------------------------------------------------
(* HandleWebSocketMessage.                                                   *)
Asks(c) == At(c, "loop") /\ requests < MaxRequests /\ requests' = requests + 1

\* subscribe, ping, wasm_subscribe and what the server does not understand:
\* a reply, and no state of this module.
OtherMessage(c) ==
  /\ Asks(c) /\ HandlerReply(c)
  /\ UNCHANGED <<sqlVars, subVars, owner, client_ids, conn, cf, inbox, readAt>>

\* HandleSqlSubscriptionRequest and HandleSubscribeToAllTablesRequest: the
\* subscription is in place before anything is said about it.
SubscriptionRequest(c, q) ==
  /\ Asks(c)
  /\ client_ids[conn[c].fd] = c
  /\ Subs!Subscribe(c, q)
  /\ IF Subs!Parses(q)
     THEN /\ conn' = [conn EXCEPT ![c].at = "created", ![c].sub = next_subscription_id,
                                  ![c].query = q]
          /\ UNCHANGED process
     ELSE UNCHANGED conn /\ HandlerReply(c)
  /\ UNCHANGED <<sqlVars, owner, client_ids, cf, inbox, readAt>>

\* The confirmation; then the tables that the initial state reads are listed.
SendCreated(c) ==
  LET q == conn[c].query
  IN /\ At(c, "created")
     /\ conn' = [conn EXCEPT ![c].at = "snapshot",
                   ![c].left = IF q.type = "ALL_TABLES" THEN {t \in Tables : rows[t] # NoTable}
                               ELSE {q.table}]
     /\ HandlerSend(c, [type |-> "created", sub |-> conn[c].sub])
     /\ UNCHANGED <<sqlVars, subVars, owner, client_ids, cf, readAt, requests>>

\* SendInitialState: ExecuteSelect of one table, its rows filtered by the WHERE
\* clause; SendInitialStateAllTables does this table after table.  A table that
\* is not there makes an initial_state_error, which has no rows.
SnapshotRows(q, t) ==
  LET shown(row) == q.type = "ALL_TABLES" \/ q.where = NoWhere \/ Evaluate(q.where, row)
      keys == IF rows[t] = NoTable THEN {}
              ELSE {k \in Keys : rows[t][k] # NoRow /\ shown(rows[t][k])}
  IN [k \in keys |-> rows[t][k]]

ReadTable(c, t) ==
  /\ At(c, "snapshot") /\ t \in conn[c].left
  /\ conn' = [conn EXCEPT ![c].left = @ \ {t},
                          ![c].snap = [u \in DOMAIN @ \union {t} |->
                             IF u = t THEN SnapshotRows(conn[c].query, t) ELSE @[u]]]
  /\ readAt' = [readAt EXCEPT ![conn[c].sub][t] = Len(commits)]
  /\ UNCHANGED <<sqlVars, subVars, process, owner, client_ids, cf, inbox, requests>>

SendInitialState(c) ==
  /\ At(c, "snapshot") /\ conn[c].left = {}
  /\ conn' = [conn EXCEPT ![c] = [@ EXCEPT !.at = "loop", !.snap = <<>>, !.sub = 0,
                                           !.query = Nobody]]
  /\ HandlerSend(c, [type |-> "initial", sub |-> conn[c].sub, rows |-> conn[c].snap])
  /\ UNCHANGED <<sqlVars, subVars, owner, client_ids, cf, readAt, requests>>

\* sql_unsubscribe: of any id.
UnsubscribeRequest(c, id) ==
  /\ Asks(c) /\ Subs!Unsubscribe(id) /\ HandlerReply(c)
  /\ UNCHANGED <<sqlVars, owner, client_ids, conn, cf, inbox, readAt>>

\* HandleCallReducer: what the reducer wrote (module WasmRuntime) is committed
\* and then published by this thread; the reply may be left out.
CallReducer(c, w) ==
  /\ Asks(c)
  /\ rows[w.table] # NoTable /\ rows[w.table][w.key] # w.row
  /\ Applied(CASE w.row = NoRow                  -> "DELETE"
               [] rows[w.table][w.key] = NoRow   -> "INSERT"
               [] OTHER                          -> "UPDATE", w.table, w.key, w.row)
  /\ IF walUp THEN /\ conn' = [conn EXCEPT ![c].at = "commit", ![c].n = NextCommit]
                   /\ UNCHANGED process
              ELSE UNCHANGED conn /\ HandlerReply(c)
  /\ UNCHANGED <<feed, walUp, call, calls, subVars, owner, client_ids, cf, inbox, readAt>>

PublishReduction(c) ==
  /\ At(c, "commit") /\ feed' = Append(feed, commits[conn[c].n])
  /\ conn' = [conn EXCEPT ![c].at = "loop", ![c].n = 0] /\ HandlerReply(c)
  /\ UNCHANGED <<rows, walUp, call, calls, commits, subVars, owner, client_ids, cf, inbox,
                 readAt, requests>>

-----------------------------------------------------------------------------
(* The end of HandleClient: recv failed, a close frame, or more than 16 MiB  *)
(* that do not parse; the peer may be there all the while.                   *)
\* Mutant: the entry of client_ids_ stays.
LeaveRegistered(c) ==
  /\ At(c, "loop") /\ Step(c, "left")
  /\ UNCHANGED <<sqlVars, subVars, process, owner, client_ids, cf, inbox, readAt, requests>>

Leave(c) ==
  /\ At(c, "loop") /\ Step(c, "left")
  /\ client_ids' = [client_ids EXCEPT ![conn[c].fd] = IF @ = c THEN Nobody ELSE @]
  /\ UNCHANGED <<sqlVars, subVars, process, owner, cf, inbox, readAt, requests>>

DropSubscriptions(c) ==
  /\ At(c, "left") /\ Step(c, "closing") /\ Subs!UnsubscribeAll(c)
  /\ UNCHANGED <<sqlVars, process, owner, client_ids, cf, inbox, readAt, requests>>

CloseSocket(c) ==
  /\ At(c, "closing") /\ Step(c, "closed")
  /\ owner' = [owner EXCEPT ![conn[c].fd] = Nobody]
  /\ UNCHANGED <<sqlVars, subVars, process, client_ids, cf, inbox, readAt, requests>>

-----------------------------------------------------------------------------
(* OnChangefeedEvent: the subscriptions to notify are found first, and the   *)
(* descriptor of each one's client just before its frame is sent.            *)
Interest(ev) == {[sub |-> i, client |-> subscriptions[i].client,
                  new |-> Subs!Projected(subscriptions[i], Subs!Serialized(ev.key, ev.new))] :
                 i \in Subs!ProcessEvent(ev)}

TakeEvent ==
  /\ process = "up" /\ cf.at = "wait" /\ cf.off < Len(feed)
  /\ LET todo == Interest(feed[cf.off + 1])
     IN cf' = [cf EXCEPT !.off = @ + 1, !.todo = todo,
                         !.at = IF todo = {} THEN "wait" ELSE "find"]
  /\ UNCHANGED <<sqlVars, subVars, process, owner, client_ids, conn, inbox, readAt, requests>>

FindSocket(m) ==
  /\ process = "up" /\ cf.at = "find" /\ m \in cf.todo
  /\ cf' = IF \E f \in Fds : client_ids[f] = m.client
           THEN [cf EXCEPT !.at = "send", !.msg = m,
                           !.fd = CHOOSE f \in Fds : client_ids[f] = m.client]
           ELSE [cf EXCEPT !.todo = @ \ {m}, !.at = IF cf.todo = {m} THEN "wait" ELSE "find"]
  /\ UNCHANGED <<sqlVars, subVars, process, owner, client_ids, conn, inbox, readAt, requests>>

\* The frame of an event.  Its subscription_id is the one OnChangefeedEvent is
\* called with, the server's own at the changefeed: the same in every frame, and no
\* SQL subscription's (those count from 1).  for and via are history: the client
\* and the SQL subscription the frame is sent for.
FeedSubscription == 0

EventFrame == [type |-> "event", sub |-> FeedSubscription, off |-> cf.off, new |-> cf.msg.new,
               for |-> cf.msg.client, via |-> cf.msg.sub]

\* Mutant: a frame that was sent is sent again.
SendEventAgain ==
  /\ process = "up" /\ cf.at = "send" /\ owner[cf.fd] # Nobody
  /\ HandlerSend(owner[cf.fd], EventFrame)
  /\ UNCHANGED <<sqlVars, subVars, owner, client_ids, conn, cf, readAt, requests>>

\* The descriptor may by now be closed, or denote another connection.
SendEvent ==
  LET to == owner[cf.fd]
  IN /\ process = "up" /\ cf.at = "send"
     /\ cf' = [cf EXCEPT !.todo = @ \ {cf.msg}, !.msg = Nobody, !.fd = Nobody,
                         !.at = IF cf.todo = {cf.msg} THEN "wait" ELSE "find"]
     /\ IF to = Nobody THEN UNCHANGED <<process, inbox>> ELSE HandlerSend(to, EventFrame)
     /\ UNCHANGED <<sqlVars, subVars, owner, client_ids, conn, readAt, requests>>

-----------------------------------------------------------------------------
Handler(c) ==
  \/ Register(c) \/ SendCreated(c) \/ SendInitialState(c)
  \/ \E t \in Tables : ReadTable(c, t)
  \/ PublishReduction(c)
  \/ Leave(c) \/ DropSubscriptions(c) \/ CloseSocket(c)

Request(c) ==
  \/ OtherMessage(c)
  \/ \E q \in Queries : SubscriptionRequest(c, q)
  \/ \E i \in 1..MaxSubs : UnsubscribeRequest(c, i)
  \/ \E w \in Reductions : CallReducer(c, w)

Notify == TakeEvent \/ SendEvent \/ \E m \in cf.todo : FindSocket(m)

Next ==
  \/ process = "up" /\ SqlNext /\ UNCHANGED <<subVars, connVars>>
  \/ \E c \in Conns :
       \/ \E f \in Fds : Accept(c, f)
       \/ Refuse(c) \/ PeerGone(c) \/ Handler(c) \/ Request(c)
  \/ Notify

Spec == Init /\ [][Next]_vars

-----------------------------------------------------------------------------
\* The manager's four maps agree, whatever clients subscribe, drop or leave, in
\* whatever order (Subscribe, Unsubscribe of any id, UnsubscribeAll).
IndexesAgree ==
  \A i \in 1..MaxSubs :
    /\ i \in DOMAIN subscriptions =>
         LET sub == subscriptions[i]
         IN /\ i \in client_subscriptions[sub.client]
            /\ (i \in all_tables_index) = Subs!IsCatchAll(sub)
            /\ \A t \in Tables :
                 (i \in table_index[t]) = (~Subs!IsCatchAll(sub) /\ sub.query.table = t)
    /\ i \notin DOMAIN subscriptions =>
         /\ i \notin all_tables_index
         /\ \A t \in Tables : i \notin table_index[t]
         /\ \A c \in Conns : i \notin client_subscriptions[c]

\* A connection that is closed has left nothing behind: no subscription, no
\* entry in client_ids_, and no descriptor (HandleClient's clean-up).
NothingLeftBehind ==
  \A c \in Conns : conn[c].at = "closed" =>
    /\ \A i \in DOMAIN subscriptions : subscriptions[i].client # c
    /\ \A f \in Fds : client_ids[f] # c /\ owner[f] # c

\* Events arrive at a client in offset order, and an offset comes once for each of
\* the subscriptions it is sent for: no frame is repeated, and one that comes after
\* a later offset never arrives.  (To the client the frames of two subscriptions
\* are alike: they have the same subscription_id and the same offset.)
EventsInOrder ==
  \A c \in Conns : \A a, b \in 1..Len(inbox[c]) :
    LET first == inbox[c][a]
        second == inbox[c][b]
    IN a < b /\ first.type = "event" /\ second.type = "event" =>
         /\ first.off <= second.off
         /\ first.via = second.via => first.off < second.off

\* HandleClient is in its loop, with a peer.
Listens(c) == conn[c].peer = "up" /\ conn[c].at \notin {"left", "closing", "closed"}

\* The frames that were sent for subscription i among what arrived at client c.
EventFrames(c, i) == {a \in 1..Len(inbox[c]) : inbox[c][a].type = "event" /\ inbox[c][a].via = i}

\* Nothing falls between snapshot and stream: a change committed after a
\* subscription's table was read, and matched by it, reaches its client as an
\* event once OnChangefeedEvent is through with it (the subscription is entered
\* before the table is read), as long as the client is there and not being
\* disconnected.
Handled(o) == o < cf.off \/ (o = cf.off /\ cf.at = "wait")
NoMissedChange ==
  \A i \in DOMAIN subscriptions, o \in 1..Len(feed) :
    LET c == subscriptions[i].client
        t == feed[o].table
    IN ( /\ Listens(c) /\ Handled(o)
         /\ readAt[i][t] >= 0 /\ feed[o].n > readAt[i][t]
         /\ Subs!MatchesEvent(subscriptions[i], feed[o]) )
       => \E a \in EventFrames(c, i) : inbox[c][a].off = o

\* "Every committed write emits exactly one ChangefeedEvent": a durable commit
\* is in the feed once, or its thread is about to publish it; one that is not
\* durable is never published (Commit, and the INSERT that becomes an UPDATE).
Holders(n) == {c \in Callers : call[c].at = "publish" /\ call[c].n = n}
              \union {c \in Conns : conn[c].at = "commit" /\ conn[c].n = n}
OneEventPerCommit ==
  \A n \in 1..Len(commits) :
    Cardinality({o \in 1..Len(feed) : feed[o].n = n}) + Cardinality(Holders(n))
      = IF commits[n].durable THEN 1 ELSE 0

=============================================================================
