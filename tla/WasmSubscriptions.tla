------------------------- MODULE WasmSubscriptions -------------------------
(***************************************************************************)
(* src/src/wasm/wasm_subscription.cpp: subscriptions whose events pass       *)
(* through a module's filter and transform functions.  The changefeed fills  *)
(* event_queue_, one thread takes it in batches, and every operation,        *)
(* reducer calls included, runs under subscriptions_mutex_.                  *)
(***************************************************************************)
EXTENDS WasmEngine

CONSTANTS
  Clients,       \* websocket connections; the thread of each is an actor
  SubThread,     \* processing_thread_, an actor too
  Requests,      \* wasm_subscribe requests
  MaxWasmSubs

VARIABLES
  wsubs,        \* subscriptions_
  wclient,      \* client_subscriptions_
  wmutex,       \* subscriptions_mutex_: who holds it
  wqueue,       \* event_queue_: offsets
  fed,          \* the offset the changefeed has delivered up to
  is_running, wthread,
  client,       \* each connection's thread: where it is, and the modules still to call
  emitted       \* history: what the callback was given, in order

subsVars == <<wsubs, wclient, wmutex, wqueue, fed, is_running, wthread, client, emitted>>

Free == "free"
Waiting == [at |-> "wait", batch |-> <<>>, left |-> {}, sub |-> 0]

SubsInit ==
  /\ wsubs = <<>>
  /\ wclient = [c \in Clients |-> <<>>]
  /\ wmutex = Free /\ wqueue = <<>> /\ fed = 0
  /\ is_running = TRUE
  /\ wthread = Waiting
  /\ client = [c \in Clients |-> [at |-> "out"]]
  /\ emitted = <<>>

Loaded == {n \in Names : modules[n] # 0}
Release(a) == exec' = [exec EXCEPT ![a] = Idle]
OnlyExec == UNCHANGED <<engine, objects, modules, load, rows, logged, walUp, feed, writer>>

-----------------------------------------------------------------------------
(* A connection's thread.  OnClientConnected and OnClientDisconnected call a *)
(* reserved reducer of every module that is loaded then.                     *)
Connect(c) ==
  /\ client[c].at = "out"
  /\ client' = [client EXCEPT ![c] = [at |-> "connected", left |-> Loaded]]
  /\ UNCHANGED <<engineVars, wsubs, wclient, wmutex, wqueue, fed, is_running, wthread, emitted>>

Hooks == [connected |-> "__client_connected", leaving |-> "__client_disconnected"]

HookCall(c, n) ==
  /\ client[c].at \in DOMAIN Hooks /\ n \in client[c].left
  /\ exec[c].at = "idle" /\ ExecuteReducer(c, n, Hooks[client[c].at])
  /\ client' = [client EXCEPT ![c].left = @ \ {n}]
  /\ OnlyExec
  /\ UNCHANGED <<wsubs, wclient, wmutex, wqueue, fed, is_running, wthread, emitted>>

\* What the hook answers does not matter.
HookReturns(c) ==
  /\ client[c].at \in DOMAIN Hooks /\ Ended(c)
  /\ Release(c) /\ OnlyExec
  /\ UNCHANGED <<made, subsVars>>

HooksDone(c) ==
  /\ client[c].at \in DOMAIN Hooks /\ client[c].left = {} /\ exec[c].at = "idle"
  /\ client' = [client EXCEPT ![c] = [at |-> IF client[c].at = "leaving" THEN "gone" ELSE "in"]]
  /\ wmutex' = IF wmutex = c THEN Free ELSE wmutex
  /\ UNCHANGED <<engineVars, wsubs, wclient, wqueue, fed, is_running, wthread, emitted>>

\* CreateSubscription; with initial data it asks the module for them, mutex held.
CreateSubscription(c, q) ==
  LET id == Len(wsubs) + 1
      sub == [client |-> c, module |-> q.module, tables |-> q.tables, filter |-> q.filter,
              transform |-> q.transform, since |-> fed + 1, live |-> TRUE]
  IN /\ client[c].at = "in" /\ wmutex = Free /\ id <= MaxWasmSubs
     /\ wsubs' = Append(wsubs, sub)
     /\ wclient' = [wclient EXCEPT ![c] = Append(@, id)]
     /\ IF q.initial
        THEN /\ wmutex' = c /\ client' = [client EXCEPT ![c] = [at |-> "initial", sub |-> id]]
             /\ ExecuteReducer(c, q.module, "__get_initial_data")
        ELSE UNCHANGED <<wmutex, client, exec, made>>
     /\ OnlyExec
     /\ UNCHANGED <<wqueue, fed, is_running, wthread, emitted>>

\* SendInitialData: only a result of bytes is passed on.
InitialData(c) ==
  /\ client[c].at = "initial" /\ Ended(c)
  /\ \/ /\ exec[c].at = "done"
        /\ emitted' = Append(emitted, [client |-> c, sub |-> client[c].sub, off |-> 0])
     \/ UNCHANGED emitted
  /\ client' = [client EXCEPT ![c] = [at |-> "in"]] /\ wmutex' = Free
  /\ Release(c) /\ OnlyExec
  /\ UNCHANGED <<made, wsubs, wclient, wqueue, fed, is_running, wthread>>

\* OnClientDisconnected: the mutex stays held while the modules are told.
Disconnect(c) ==
  /\ client[c].at = "in" /\ wmutex = Free
  /\ wmutex' = c
  /\ wsubs' = [i \in 1..Len(wsubs) |-> IF i \in ToSet(wclient[c]) THEN [wsubs[i] EXCEPT !.live = FALSE]
                                       ELSE wsubs[i]]
  /\ wclient' = [wclient EXCEPT ![c] = <<>>]
  /\ client' = [client EXCEPT ![c] = [at |-> "leaving", left |-> Loaded]]
  /\ UNCHANGED <<engineVars, wqueue, fed, is_running, wthread, emitted>>

ClientNext(c) ==
  \/ \E n \in Names : HookCall(c, n)
  \/ HookReturns(c) \/ HooksDone(c) \/ InitialData(c) \/ Disconnect(c)

-----------------------------------------------------------------------------
(* ProcessChangefeedEvent, on the changefeed's thread.                       *)
Deliver ==
  /\ is_running /\ fed < Len(feed)
  /\ fed' = fed + 1 /\ wqueue' = Append(wqueue, fed + 1)
  /\ UNCHANGED <<engineVars, wsubs, wclient, wmutex, is_running, wthread, client, emitted>>

(* ProcessingLoop and ProcessSingleEvent.                                    *)

TakeBatch ==
  /\ wthread.at = "wait"
  /\ \/ /\ is_running /\ wqueue # <<>> /\ wqueue' = <<>>
        /\ wthread' = [wthread EXCEPT !.at = "events", !.batch = wqueue]
     \/ /\ ~is_running /\ UNCHANGED wqueue
        /\ wthread' = [wthread EXCEPT !.at = "ended"]
  /\ UNCHANGED <<engineVars, wsubs, wclient, wmutex, fed, is_running, client, emitted>>

\* Mutant: subscriptions_mutex_ is released once the subscriptions are listed.
EventBeginsUnlocked ==
  /\ wthread.at = "events" /\ wthread.batch # <<>> /\ wmutex = Free
  /\ wthread' = [wthread EXCEPT !.at = "sub", !.left = {i \in 1..Len(wsubs) : wsubs[i].live}]
  /\ UNCHANGED <<engineVars, wsubs, wclient, wmutex, wqueue, fed, is_running, client, emitted>>

EventBegins ==
  /\ wthread.at = "events" /\ wthread.batch # <<>> /\ wmutex = Free
  /\ wmutex' = SubThread
  /\ wthread' = [wthread EXCEPT !.at = "sub", !.left = {i \in 1..Len(wsubs) : wsubs[i].live}]
  /\ UNCHANGED <<engineVars, wsubs, wclient, wqueue, fed, is_running, client, emitted>>

\* The functions a subscription's event passes through, one after the other.
Stages(i) == (IF wsubs[i].filter THEN <<"filter">> ELSE <<>>)
             \o (IF wsubs[i].transform THEN <<"transform">> ELSE <<>>)

\* The table check: a query without tables takes every event.
TableOf(e) == IF e.op = "EVENT" THEN e.topic ELSE e.cell[1]
Matches(i, o) == wsubs[i].tables = {} \/ TableOf(feed[o]) \in wsubs[i].tables

\* Mutant: no subscription is passed over.
SubscriptionBeginsUnchecked(i) ==
  /\ wthread.at = "sub" /\ i \in wthread.left
  /\ wthread' = [wthread EXCEPT !.left = @ \ {i}, !.sub = i,
                                !.at = IF Stages(i) = <<>> THEN "emit" ELSE Head(Stages(i))]
  /\ UNCHANGED <<engineVars, wsubs, wclient, wmutex, wqueue, fed, is_running, client, emitted>>

\* A subscription whose tables the event is not of is passed over; for another one
\* the first of its functions is called or, when it has none, its frame is sent.
SubscriptionBegins(i) ==
  /\ wthread.at = "sub" /\ i \in wthread.left
  /\ IF Matches(i, Head(wthread.batch))
     THEN wthread' = [wthread EXCEPT !.left = @ \ {i}, !.sub = i,
                                     !.at = IF Stages(i) = <<>> THEN "emit" ELSE Head(Stages(i))]
     ELSE wthread' = [wthread EXCEPT !.left = @ \ {i}]
  /\ UNCHANGED <<engineVars, wsubs, wclient, wmutex, wqueue, fed, is_running, client, emitted>>

StageCall ==
  /\ wthread.at \in {"filter", "transform"} /\ exec[SubThread].at = "idle"
  /\ ExecuteReducer(SubThread, wsubs[wthread.sub].module, wthread.at)
  /\ OnlyExec /\ UNCHANGED subsVars

\* A filter that fails, or says no, and a transform that fails drop the event.
StageReturns ==
  /\ wthread.at \in {"filter", "transform"} /\ Ended(SubThread)
  /\ LET goesOn == IF wthread.at = "filter" /\ wsubs[wthread.sub].transform THEN "transform"
                   ELSE "emit"
     IN \/ exec[SubThread].at = "done" /\ wthread' = [wthread EXCEPT !.at = goesOn]
        \/ /\ exec[SubThread].at = "failed" \/ wthread.at = "filter"
           /\ wthread' = [wthread EXCEPT !.at = "sub"]
  /\ Release(SubThread) /\ OnlyExec
  /\ UNCHANGED <<made, wsubs, wclient, wmutex, wqueue, fed, is_running, client, emitted>>

Emit ==
  /\ wthread.at = "emit"
  /\ emitted' = Append(emitted, [client |-> wsubs[wthread.sub].client, sub |-> wthread.sub,
                                 off |-> Head(wthread.batch)])
  /\ wthread' = [wthread EXCEPT !.at = "sub"]
  /\ UNCHANGED <<engineVars, wsubs, wclient, wmutex, wqueue, fed, is_running, client>>

EventEnds ==
  /\ wthread.at = "sub" /\ wthread.left = {}
  /\ wmutex' = Free
  /\ wthread' = [wthread EXCEPT !.batch = Tail(@), !.sub = 0,
                                !.at = IF Len(wthread.batch) = 1 THEN "wait" ELSE "events"]
  /\ UNCHANGED <<engineVars, wsubs, wclient, wqueue, fed, is_running, client, emitted>>

ThreadNext ==
  \/ TakeBatch \/ EventBegins \/ StageCall \/ StageReturns \/ Emit \/ EventEnds
  \/ \E i \in wthread.left : SubscriptionBegins(i)

\* Stop: unsubscribes from the changefeed; the thread is joined by the caller,
\* who then clears the subscriptions.
SubsStop == is_running' = FALSE
SubsJoined == wthread.at = "ended"

=============================================================================
