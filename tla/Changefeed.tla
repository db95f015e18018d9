----------------------------- MODULE Changefeed -----------------------------
(***************************************************************************)
(* src/src/changefeed/changefeed_engine.cpp: publishers number events and    *)
(* queue them under events_mutex_; one delivery thread takes them in order,  *)
(* copies the matching callbacks under the locks and calls them without any, *)
(* in parallel on the DeliveryPool, with a barrier before the next event.    *)
(*                                                                           *)
(* An event is its offset and its table.  A subscription identifier is used  *)
(* once, as next_subscription_id_ never repeats one.                         *)
(***************************************************************************)
EXTENDS Naturals, Sequences, FiniteSets

CONSTANTS
  Subs,             \* subscription identifiers
  Tables,           \* tables an event may be about
  AnyTable,         \* the pattern "*" or ""
  Patterns,         \* patterns of subscriptions: AnyTable or the name of a table
  DeliveryThreads,  \* resolved delivery_threads: 1 means no pool
  MaxLagEntries,    \* max_lag_entries, 0 for no limit
  MaxEvents,        \* bound on the events published
  MaxStarts         \* bound on the calls of Start

ASSUME ChangefeedConstants ==
  /\ AnyTable \notin Tables /\ AnyTable \in Patterns
  /\ DeliveryThreads \in Nat \ {0}
  /\ MaxLagEntries \in Nat /\ MaxEvents \in Nat /\ MaxStarts \in Nat

VARIABLES
  running,      \* running_
  nextOffset,   \* next_offset_
  events,       \* events_: published and not yet taken by the delivery thread
  allEvents,    \* all_events_: the retained history
  status,       \* of each identifier: "none", "active", "deleted"
  pattern,      \* filter.table_pattern of each subscription
  current,      \* current_offset of each subscription
  callbacks,    \* identifiers with a registered callback
  dpc,          \* where the delivery thread is
  event,        \* the event it has in hand
  todo,         \* targets whose task has not started
  called,       \* targets whose callback has returned and whose task has not ended
  spc,          \* where the caller of Start and Stop is
  starts,
  received,     \* history: offsets each callback was given, in order
  failed,       \* history: offsets for which the callback threw
  since         \* history: first offset each registered callback must see

subVars      == <<status, pattern, callbacks>>
deliveryVars == <<dpc, event, todo, called>>
feedVars     == <<nextOffset, events, allEvents>>
ghosts       == <<received, failed, since>>
vars == <<running, feedVars, subVars, current, deliveryVars, spc, starts, ghosts>>

NoEvent == [offset |-> 0, table |-> AnyTable]

Init ==
  /\ running = FALSE /\ nextOffset = 1
  /\ events = <<>> /\ allEvents = <<>>
  /\ status = [s \in Subs |-> "none"]
  /\ pattern = [s \in Subs |-> AnyTable]
  /\ current = [s \in Subs |-> 0]
  /\ callbacks = {}
  /\ dpc = "stopped" /\ event = NoEvent /\ todo = {} /\ called = {}
  /\ spc = "new" /\ starts = 0
  /\ received = [s \in Subs |-> <<>>]
  /\ failed = [s \in Subs |-> {}]
  /\ since = [s \in Subs |-> 0]

\* A notification reaches the delivery thread only when it sleeps on delivery_cv_.
\* None of the callers holds delivery_mutex_.
Notified == IF dpc = "asleep" THEN "test" ELSE dpc

-----------------------------------------------------------------------------
(***************************************************************************)
(* Publishers.                                                              *)
(***************************************************************************)

\* Mutant: the limit is compared before the new event is counted.
TrimLate(h) ==
  IF MaxLagEntries > 0 /\ Len(h) > MaxLagEntries + 1
  THEN SubSeq(h, Len(h) - (MaxLagEntries * 3) \div 4 + 1, Len(h))
  ELSE h

\* Over the limit, the oldest quarter goes.
Trim(h) ==
  IF MaxLagEntries > 0 /\ Len(h) > MaxLagEntries
  THEN SubSeq(h, Len(h) - (MaxLagEntries * 3) \div 4 + 1, Len(h))
  ELSE h

\* events_mutex_ is held from the numbering to the notification.
PublishEvent(t) ==
  /\ nextOffset <= MaxEvents
  /\ LET e == [offset |-> nextOffset, table |-> t] IN
     /\ events' = Append(events, e)
     /\ allEvents' = Trim(Append(allEvents, e))
  /\ nextOffset' = nextOffset + 1
  /\ dpc' = Notified
  /\ UNCHANGED <<running, subVars, current, event, todo, called, spc, starts, ghosts>>

-----------------------------------------------------------------------------
(***************************************************************************)
(* Subscriptions.                                                           *)
(***************************************************************************)

\* The event that the delivery thread will look at next.
NextToDeliver ==
  IF dpc = "targets" THEN event.offset
  ELSE IF events = <<>> THEN nextOffset ELSE Head(events).offset

\* Every caller starts from offset 0.
CreateSubscription(s, p) ==
  /\ status[s] = "none"
  /\ status' = [status EXCEPT ![s] = "active"]
  /\ pattern' = [pattern EXCEPT ![s] = p]
  /\ UNCHANGED <<running, feedVars, current, callbacks, deliveryVars, spc, starts, ghosts>>

\* The callers subscribe with the identifier they have just been given.
Subscribe(s) ==
  /\ status[s] = "active"
  /\ callbacks' = callbacks \union {s}
  /\ since' = IF s \in callbacks THEN since ELSE [since EXCEPT ![s] = NextToDeliver]
  /\ dpc' = Notified
  /\ UNCHANGED <<running, feedVars, status, pattern, current, event, todo, called, spc,
                 starts, received, failed>>

Unsubscribe(s) ==
  /\ s \in callbacks
  /\ callbacks' = callbacks \ {s}
  /\ UNCHANGED <<running, feedVars, status, pattern, current, deliveryVars, spc, starts,
                 ghosts>>

\* Mutant: the subscription is only marked.
DeleteSubscriptionMarks(s) ==
  /\ status[s] = "active"
  /\ status' = [status EXCEPT ![s] = "inactive"]
  /\ callbacks' = callbacks \ {s}
  /\ UNCHANGED <<running, feedVars, pattern, current, deliveryVars, spc, starts, ghosts>>

DeleteSubscription(s) ==
  /\ status[s] = "active"
  /\ status' = [status EXCEPT ![s] = "deleted"]
  /\ callbacks' = callbacks \ {s}
  /\ UNCHANGED <<running, feedVars, pattern, current, deliveryVars, spc, starts, ghosts>>

-----------------------------------------------------------------------------
(***************************************************************************)
(* DeliveryLoop.                                                            *)
(***************************************************************************)

\* The loop condition and the predicate of delivery_cv_.wait.
DeliveryTest ==
  /\ dpc = "test"
  /\ dpc' = IF ~running THEN "stopped"
            ELSE IF events # <<>> THEN "loop"
            ELSE "block"
  /\ UNCHANGED <<running, feedVars, subVars, current, event, todo, called, spc, starts,
                 ghosts>>

\* The predicate was false: the thread goes to sleep.  A notification between the
\* test and this step finds nobody.
DeliveryBlock ==
  /\ dpc = "block"
  /\ dpc' = "asleep"
  /\ UNCHANGED <<running, feedVars, subVars, current, event, todo, called, spc, starts,
                 ghosts>>

\* Condition variables may wake by themselves; nothing relies on it.
SpuriousWake ==
  /\ dpc = "asleep"
  /\ dpc' = "test"
  /\ UNCHANGED <<running, feedVars, subVars, current, event, todo, called, spc, starts,
                 ghosts>>

\* Mutant: the event is taken before running_ is looked at.
DeliveryPopFirst ==
  /\ dpc = "loop"
  /\ \/ /\ events # <<>>
        /\ event' = Head(events)
        /\ events' = Tail(events)
        /\ dpc' = IF running THEN "targets" ELSE "test"
     \/ /\ events = <<>>
        /\ dpc' = "test"
        /\ UNCHANGED <<event, events>>
  /\ UNCHANGED <<running, nextOffset, allEvents, subVars, current, todo, called, spc,
                 starts, ghosts>>

DeliveryPop ==
  /\ dpc = "loop"
  /\ \/ /\ running /\ events # <<>>
        /\ event' = Head(events)
        /\ events' = Tail(events)
        /\ dpc' = "targets"
     \/ /\ ~running \/ events = <<>>
        /\ dpc' = "test"
        /\ UNCHANGED <<event, events>>
  /\ UNCHANGED <<running, nextOffset, allEvents, subVars, current, todo, called, spc,
                 starts, ghosts>>

MatchesFilter(s, e) == pattern[s] \in {AnyTable, e.table}

\* DeliverEvent, phase 1, under subscriptions_mutex_ and callbacks_mutex_.
SnapshotTargets ==
  /\ dpc = "targets"
  /\ todo' = {s \in callbacks : status[s] = "active" /\ MatchesFilter(s, event)}
  /\ dpc' = IF todo' = {} THEN "loop" ELSE "deliver"
  /\ UNCHANGED <<running, feedVars, subVars, current, event, called, spc, starts, ghosts>>

-----------------------------------------------------------------------------
(***************************************************************************)
(* DeliverEvent, phase 2: the tasks of one event, on the pool or one after  *)
(* the other.  The order of an unordered_map is any order.                  *)
(***************************************************************************)

\* The callback returns, or throws, in which case the rest of the task is skipped.
Callback(s) ==
  /\ s \in todo
  /\ Cardinality(called) < DeliveryThreads
  /\ todo' = todo \ {s}
  /\ \/ /\ received' = [received EXCEPT ![s] = Append(@, event.offset)]
        /\ called' = called \union {s}
        /\ UNCHANGED failed
     \/ /\ failed' = [failed EXCEPT ![s] = @ \union {event.offset}]
        /\ UNCHANGED <<received, called>>
  /\ UNCHANGED <<running, feedVars, subVars, current, dpc, event, spc, starts, since>>

\* Mutant: a callback that throws has its offset recorded all the same.
RecordOffsetFirst(s) ==
  /\ s \in called
  /\ called' = called \ {s}
  /\ current' = [t \in Subs |-> IF t \notin todo /\ event.offset \in failed[t] THEN event.offset
                                ELSE IF t = s /\ status[s] = "active" THEN event.offset
                                ELSE current[t]]
  /\ UNCHANGED <<running, feedVars, subVars, dpc, event, todo, spc, starts, ghosts>>

\* The subscription may have been deleted meanwhile.
RecordOffset(s) ==
  /\ s \in called
  /\ called' = called \ {s}
  /\ current' = IF status[s] = "active" THEN [current EXCEPT ![s] = event.offset] ELSE current
  /\ UNCHANGED <<running, feedVars, subVars, dpc, event, todo, spc, starts, ghosts>>

\* Mutant: RunBatch returns once the last task has been taken.
BatchDoneEarly ==
  /\ dpc = "deliver" /\ todo = {}
  /\ dpc' = "loop"
  /\ UNCHANGED <<running, feedVars, subVars, current, event, todo, called, spc, starts,
                 ghosts>>

\* The barrier of RunBatch, or the end of the sequential loop.
BatchDone ==
  /\ dpc = "deliver" /\ todo = {} /\ called = {}
  /\ dpc' = "loop"
  /\ UNCHANGED <<running, feedVars, subVars, current, event, todo, called, spc, starts,
                 ghosts>>

-----------------------------------------------------------------------------
(***************************************************************************)
(* Start and Stop, called by one thread.                                    *)
(***************************************************************************)

Start ==
  /\ spc = "new" \/ spc = "done"
  /\ ~running /\ starts < MaxStarts
  /\ running' = TRUE
  /\ starts' = starts + 1
  /\ dpc' = "test"
  /\ spc' = "started"
  /\ UNCHANGED <<feedVars, subVars, current, event, todo, called, ghosts>>

Stop ==
  /\ spc = "started" /\ running
  /\ running' = FALSE
  /\ spc' = "notify"
  /\ UNCHANGED <<feedVars, subVars, current, deliveryVars, starts, ghosts>>

StopNotify ==
  /\ spc = "notify"
  /\ dpc' = Notified
  /\ spc' = "join"
  /\ UNCHANGED <<running, feedVars, subVars, current, event, todo, called, starts, ghosts>>

\* delivery_thread_.join(), then the idle pool is torn down.
StopJoin ==
  /\ spc = "join" /\ dpc = "stopped"
  /\ spc' = "done"
  /\ UNCHANGED <<running, feedVars, subVars, current, deliveryVars, starts, ghosts>>

-----------------------------------------------------------------------------
Subscribers(s) ==
  \/ \E p \in Patterns : CreateSubscription(s, p)
  \/ Subscribe(s)
  \/ Unsubscribe(s)
  \/ DeleteSubscription(s)

DeliveryLoop == DeliveryTest \/ DeliveryBlock \/ DeliveryPop \/ SnapshotTargets \/ BatchDone
Task(s) == Callback(s) \/ RecordOffset(s)

Next ==
  \/ \E t \in Tables : PublishEvent(t)
  \/ \E s \in Subs : Subscribers(s) \/ Task(s)
  \/ DeliveryLoop
  \/ SpuriousWake
  \/ Start \/ Stop \/ StopNotify \/ StopJoin

\* The delivery thread, the pool's threads and the caller of Stop keep running, and
\* callbacks return.  Publishers and subscribers owe nothing.
Fairness ==
  /\ WF_vars(DeliveryLoop)
  /\ \A s \in Subs : WF_vars(Task(s))
  /\ WF_vars(StopNotify \/ StopJoin)

Spec == Init /\ [][Next]_vars /\ Fairness

-----------------------------------------------------------------------------
(***************************************************************************)
(* Properties.                                                              *)
(***************************************************************************)

Events == [offset : Nat, table : Tables \union {AnyTable}]

ControlTypes ==
  /\ running \in BOOLEAN /\ starts \in Nat
  /\ dpc \in {"test", "block", "asleep", "loop", "targets", "deliver", "stopped"}
  /\ spc \in {"new", "started", "notify", "join", "done"}

FeedTypes ==
  /\ nextOffset \in Nat \ {0}
  /\ events \in Seq(Events) /\ allEvents \in Seq(Events) /\ event \in Events

SubTypes ==
  /\ status \in [Subs -> {"none", "active", "deleted"}]
  /\ pattern \in [Subs -> Patterns]
  /\ current \in [Subs -> Nat]
  /\ callbacks \subseteq Subs /\ todo \subseteq Subs /\ called \subseteq Subs

GhostTypes ==
  /\ received \in [Subs -> Seq(Nat)]
  /\ failed \in [Subs -> SUBSET Nat]
  /\ since \in [Subs -> Nat]

\* Every variable has its type.
TypeOK == ControlTypes /\ FeedTypes /\ SubTypes /\ GhostTypes

\* DeliveryPool, "preserves per-subscriber ordering (event K is fully delivered
\* before the delivery loop starts K+1)": a callback sees strictly increasing
\* offsets, never the same event twice, whatever publishers, unsubscriptions, the
\* pool and restarts of the engine do; and no task of an event is left once the
\* delivery thread has gone on.
DeliveredInOrder ==
  /\ \A s \in Subs : \A i, j \in DOMAIN received[s] :
       i < j => received[s][i] < received[s][j]
  /\ todo \union called # {} => dpc = "deliver"

\* Offsets are in hand or behind: everything below this one has been delivered.
DeliveredBelow ==
  IF dpc \in {"targets", "deliver"} THEN event.offset
  ELSE IF events = <<>> THEN nextOffset ELSE Head(events).offset

\* No event is skipped: a callback that has been registered since before an event was
\* looked at, and whose filter admits every table, was given that event, or threw,
\* once the delivery thread is past it; Stop and Start lose nothing.
NoGap ==
  \A s \in callbacks : status[s] = "active" /\ pattern[s] = AnyTable =>
    \A o \in 1..MaxEvents : since[s] <= o /\ o < DeliveredBelow =>
      o \in failed[s] \/ \E i \in DOMAIN received[s] : received[s][i] = o

\* current_offset, from which the lag is computed, is the last offset the callback
\* took without throwing, between the tasks of the subscription.
OffsetTracksDelivery ==
  \A s \in Subs : status[s] = "active" /\ s \notin called =>
    current[s] = IF received[s] = <<>> THEN 0 ELSE received[s][Len(received[s])]

\* "Bound the retained history": all_events_ is within the limit and is the unbroken
\* run of the latest events, so that a reader who asks from
\* GetOldestRetainedOffset on misses nothing.
HistoryIsSuffix ==
  /\ MaxLagEntries > 0 => Len(allEvents) <= MaxLagEntries
  /\ \A i \in DOMAIN allEvents :
       allEvents[i].offset = nextOffset - 1 - Len(allEvents) + i

\* Stop, "Wake up delivery thread": the join returns.
StopReturns == spc = "join" ~> spc = "done"

-----------------------------------------------------------------------------
(***************************************************************************)
(* The inductive invariant behind DeliveredInOrder: offsets grow from what  *)
(* was delivered through the event in hand to the queue.                    *)
(***************************************************************************)

QueueOrder ==
  /\ \A i, j \in DOMAIN events : i < j => events[i].offset < events[j].offset
  /\ \A i \in DOMAIN events : event.offset < events[i].offset /\ events[i].offset < nextOffset
  /\ event.offset < nextOffset

\* The event in hand has not been given to the targets that are still to be called,
\* and to nobody before the targets are known.
DeliveryOrder ==
  \A s \in Subs :
    /\ \A i \in DOMAIN received[s] : received[s][i] <= event.offset
    /\ dpc = "targets" \/ s \in todo =>
         \A i \in DOMAIN received[s] : received[s][i] < event.offset

\* Start finds no delivery thread.
OneDeliveryThread == spc \in {"new", "done"} => dpc = "stopped"

OrderInv == QueueOrder /\ DeliveryOrder /\ OneDeliveryThread /\ DeliveredInOrder
=============================================================================
