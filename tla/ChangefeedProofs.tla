-------------------------- MODULE ChangefeedProofs --------------------------
(***************************************************************************)
(* Proofs about Changefeed for any subscriptions, tables, pool size, limit  *)
(* and number of events and restarts: types, the order of deliveries, the   *)
(* retained history, the recorded offsets, and that no event is skipped.    *)
(***************************************************************************)
EXTENDS Changefeed, TLAPS

USE DEF feedVars, subVars, deliveryVars, ghosts

-----------------------------------------------------------------------------
(***************************************************************************)
(* Types.                                                                   *)
(***************************************************************************)

\* The initial state has its types.
LEMMA InitTypes == Init => TypeOK
<1> SUFFICES ASSUME Init PROVE TypeOK
  OBVIOUS
<1>1. ControlTypes
  BY DEF Init, ControlTypes
<1>2. FeedTypes
  BY DEF Init, FeedTypes, Events, NoEvent
<1>3. SubTypes
  BY ChangefeedConstants DEF Init, SubTypes
<1>4. GhostTypes
  BY DEF Init, GhostTypes
<1> QED BY <1>1, <1>2, <1>3, <1>4 DEF TypeOK

\* What the history keeps of a sequence of events is one.
LEMMA TrimType ==
  ASSUME NEW h \in Seq(Events)
  PROVE  Trim(h) \in Seq(Events)
<1>1. (MaxLagEntries * 3) \div 4 \in Nat
  BY ChangefeedConstants
<1>2. CASE MaxLagEntries > 0 /\ Len(h) > MaxLagEntries
  <2>1. Len(h) - (MaxLagEntries * 3) \div 4 + 1 \in 1..(Len(h) + 1)
    BY <1>1, <1>2, ChangefeedConstants
  <2> DEFINE m == Len(h) - (MaxLagEntries * 3) \div 4 + 1
  <2>2. SubSeq(h, m, Len(h)) \in Seq(Events)
    <3> HIDE DEF m
    <3>1. m \in 1..(Len(h) + 1)
      BY <2>1 DEF m
    <3> QED BY <3>1
  <2> QED BY <1>2, <2>2 DEF Trim
<1>3. CASE ~(MaxLagEntries > 0 /\ Len(h) > MaxLagEntries)
  BY <1>3 DEF Trim
<1> QED BY <1>2, <1>3

\* A notification leaves the delivery thread somewhere it can be.
LEMMA NotifiedType == ControlTypes => Notified \in {"test", "block", "asleep", "loop", "targets", "deliver", "stopped"}
  BY DEF ControlTypes, Notified

\* Publishing keeps the types.
LEMMA PublishTypes ==
  ASSUME TypeOK, NEW t \in Tables, PublishEvent(t)
  PROVE  TypeOK'
<1> DEFINE e == [offset |-> nextOffset, table |-> t]
<1> USE DEF TypeOK
<1>1. e \in Events
  BY DEF FeedTypes, Events
<1>2. ControlTypes'
  BY NotifiedType DEF ControlTypes, PublishEvent
<1>3. FeedTypes'
  <2>1. Append(events, e) \in Seq(Events) /\ Append(allEvents, e) \in Seq(Events)
    BY <1>1 DEF FeedTypes
  <2>2. allEvents' = Trim(Append(allEvents, e)) /\ events' = Append(events, e)
    BY DEF PublishEvent
  <2>3. allEvents' \in Seq(Events)
    BY <2>1, <2>2, TrimType
  <2> QED BY <2>1, <2>2, <2>3 DEF FeedTypes, PublishEvent
<1>4. SubTypes' /\ GhostTypes'
  BY DEF SubTypes, GhostTypes, PublishEvent
<1> QED BY <1>2, <1>3, <1>4

\* The offset a new callback starts from is a number.
LEMMA NextToDeliverType == TypeOK => NextToDeliver \in Nat
<1> SUFFICES ASSUME TypeOK PROVE NextToDeliver \in Nat
  OBVIOUS
<1>1. event.offset \in Nat /\ nextOffset \in Nat
  BY DEF TypeOK, FeedTypes, Events
<1>2. events # <<>> => Head(events).offset \in Nat
  <2>1. events # <<>> => Head(events) \in Events
    BY DEF TypeOK, FeedTypes
  <2> QED BY <2>1 DEF Events
<1> QED BY <1>1, <1>2 DEF NextToDeliver

\* The calls about a subscription keep the types.
LEMMA SubscriberTypes ==
  ASSUME TypeOK, NEW s \in Subs, Subscribers(s)
  PROVE  TypeOK'
<1> USE DEF TypeOK
<1>1. CASE \E p \in Patterns : CreateSubscription(s, p)
  BY <1>1 DEF CreateSubscription, ControlTypes, FeedTypes, SubTypes, GhostTypes
<1>2. CASE Subscribe(s)
  <2>1. ControlTypes'
    BY <1>2, NotifiedType DEF ControlTypes, Subscribe
  <2>2. FeedTypes' /\ SubTypes'
    BY <1>2 DEF FeedTypes, SubTypes, Subscribe
  <2>3. GhostTypes'
    BY <1>2, NextToDeliverType DEF GhostTypes, Subscribe
  <2> QED BY <2>1, <2>2, <2>3
<1>3. CASE Unsubscribe(s)
  BY <1>3 DEF Unsubscribe, ControlTypes, FeedTypes, SubTypes, GhostTypes
<1>4. CASE DeleteSubscription(s)
  BY <1>4 DEF DeleteSubscription, ControlTypes, FeedTypes, SubTypes, GhostTypes
<1> QED BY <1>1, <1>2, <1>3, <1>4 DEF Subscribers

\* The tasks of an event keep the types.
LEMMA TaskTypes ==
  ASSUME TypeOK, NEW s \in Subs, Task(s)
  PROVE  TypeOK'
<1> USE DEF TypeOK
<1>1. event.offset \in Nat
  BY DEF FeedTypes, Events
<1>2. CASE Callback(s)
  <2>1. ControlTypes' /\ FeedTypes' /\ SubTypes'
    BY <1>2 DEF Callback, ControlTypes, FeedTypes, SubTypes
  <2>2. received' \in [Subs -> Seq(Nat)]
    <3>1. Append(received[s], event.offset) \in Seq(Nat)
      BY <1>1 DEF GhostTypes
    <3> QED BY <1>2, <3>1 DEF Callback, GhostTypes
  <2>3. failed' \in [Subs -> SUBSET Nat] /\ since' \in [Subs -> Nat]
    BY <1>1, <1>2 DEF Callback, GhostTypes
  <2> QED BY <2>1, <2>2, <2>3 DEF GhostTypes
<1>3. CASE RecordOffset(s)
  BY <1>1, <1>3 DEF RecordOffset, ControlTypes, FeedTypes, SubTypes, GhostTypes
<1> QED BY <1>2, <1>3 DEF Task

\* The delivery thread keeps the types.
LEMMA DeliveryTypes ==
  ASSUME TypeOK, DeliveryLoop
  PROVE  TypeOK'
<1> USE DEF TypeOK
<1>1. CASE DeliveryTest \/ DeliveryBlock \/ BatchDone
  BY <1>1 DEF DeliveryTest, DeliveryBlock, BatchDone, ControlTypes, FeedTypes, SubTypes, GhostTypes
<1>2. CASE DeliveryPop
  <2>1. ControlTypes' /\ SubTypes' /\ GhostTypes'
    BY <1>2 DEF DeliveryPop, ControlTypes, SubTypes, GhostTypes
  <2>2. events # <<>> => Head(events) \in Events /\ Tail(events) \in Seq(Events)
    BY DEF FeedTypes
  <2> QED BY <1>2, <2>1, <2>2 DEF DeliveryPop, FeedTypes
<1>3. CASE SnapshotTargets
  BY <1>3 DEF SnapshotTargets, ControlTypes, FeedTypes, SubTypes, GhostTypes
<1> QED BY <1>1, <1>2, <1>3 DEF DeliveryLoop

\* Start and Stop, and a spurious wake-up, keep the types.
LEMMA LifecycleTypes ==
  ASSUME TypeOK, SpuriousWake \/ Start \/ Stop \/ StopNotify \/ StopJoin
  PROVE  TypeOK'
<1> USE DEF TypeOK
<1>1. ControlTypes'
  <2>1. CASE SpuriousWake
    BY <2>1 DEF SpuriousWake, ControlTypes
  <2>2. CASE Start
    BY <2>2 DEF Start, ControlTypes
  <2>3. CASE Stop
    BY <2>3 DEF Stop, ControlTypes
  <2>4. CASE StopNotify
    BY <2>4, NotifiedType DEF StopNotify, ControlTypes
  <2>5. CASE StopJoin
    BY <2>5 DEF StopJoin, ControlTypes
  <2> QED BY <2>1, <2>2, <2>3, <2>4, <2>5
<1>2. FeedTypes' /\ SubTypes' /\ GhostTypes'
  BY DEF SpuriousWake, Start, Stop, StopNotify, StopJoin, FeedTypes, SubTypes, GhostTypes
<1> QED BY <1>1, <1>2

\* Every step keeps the types.
LEMMA StepTypes == TypeOK /\ [Next]_vars => TypeOK'
<1> SUFFICES ASSUME TypeOK, [Next]_vars PROVE TypeOK'
  OBVIOUS
<1>1. CASE Next
  BY <1>1, PublishTypes, SubscriberTypes, TaskTypes, DeliveryTypes, LifecycleTypes DEF Next
<1>2. CASE UNCHANGED vars
  BY <1>2 DEF vars, TypeOK, ControlTypes, FeedTypes, SubTypes, GhostTypes
<1> QED BY <1>1, <1>2

\* Every variable of the changefeed engine keeps its type, with any number of
\* subscriptions, events, threads and restarts.
THEOREM TypeCorrect == Spec => []TypeOK
  BY InitTypes, StepTypes, PTL DEF Spec

-----------------------------------------------------------------------------
(***************************************************************************)
(* Order.                                                                   *)
(***************************************************************************)

\* Nothing has been published or delivered in the initial state.
LEMMA InitOrder == Init => OrderInv
<1> SUFFICES ASSUME Init PROVE OrderInv
  OBVIOUS
<1>1. QueueOrder
  BY DEF Init, QueueOrder, NoEvent
<1>2. DeliveryOrder /\ OneDeliveryThread
  BY DEF Init, DeliveryOrder, OneDeliveryThread
<1>3. DeliveredInOrder
  BY DEF Init, DeliveredInOrder
<1> QED BY <1>1, <1>2, <1>3 DEF OrderInv

\* A step that leaves the events and the tasks alone keeps the order, as long as the
\* delivery thread does not leave an unfinished fan-out and takes no event.
LEMMA QuietStep ==
  ASSUME OrderInv,
         UNCHANGED <<events, nextOffset, event, todo, called, received>>,
         dpc' = "targets" => dpc = "targets",
         dpc = "deliver" => dpc' = "deliver" \/ (todo = {} /\ called = {}),
         OneDeliveryThread'
  PROVE  OrderInv'
<1> USE DEF OrderInv
<1>1. QueueOrder'
  BY DEF QueueOrder
<1>2. DeliveryOrder'
  BY DEF DeliveryOrder
<1>3. DeliveredInOrder'
  BY DEF DeliveredInOrder
<1> QED BY <1>1, <1>2, <1>3

\* A new event goes behind all the others.
LEMMA PublishOrder ==
  ASSUME TypeOK, OrderInv, NEW t \in Tables, PublishEvent(t)
  PROVE  OrderInv'
<1> DEFINE e == [offset |-> nextOffset, table |-> t]
<1> USE DEF OrderInv
<1>1. /\ events \in Seq(Events) /\ nextOffset \in Nat /\ event.offset \in Nat
      /\ \A i \in DOMAIN events : events[i].offset \in Nat
  <2>1. events \in Seq(Events) /\ nextOffset \in Nat /\ event \in Events
    BY DEF TypeOK, FeedTypes
  <2>2. \A i \in DOMAIN events : events[i] \in Events
    BY <2>1
  <2> QED BY <2>1, <2>2 DEF Events
<1>2. /\ events' = Append(events, e) /\ nextOffset' = nextOffset + 1
      /\ UNCHANGED <<event, todo, called, received, spc>>
  BY DEF PublishEvent
<1>3. /\ DOMAIN events = 1..Len(events) /\ DOMAIN events' = 1..(Len(events) + 1)
      /\ \A i \in 1..Len(events) : events'[i] = events[i]
      /\ events'[Len(events) + 1] = e
      /\ Len(events) \in Nat
  BY <1>1, <1>2
<1>4. e.offset = nextOffset
  OBVIOUS
<1>5. QueueOrder'
  <2>1. \A i \in DOMAIN events' :
          event'.offset < events'[i].offset /\ events'[i].offset < nextOffset'
    <3> TAKE i \in DOMAIN events'
    <3>1. CASE i \in 1..Len(events)
      BY <1>1, <1>2, <1>3, <3>1 DEF QueueOrder
    <3>2. CASE i = Len(events) + 1
      BY <1>1, <1>2, <1>3, <1>4, <3>2 DEF QueueOrder
    <3> QED BY <1>3, <3>1, <3>2
  <2>2. \A i, j \in DOMAIN events' : i < j => events'[i].offset < events'[j].offset
    <3> SUFFICES ASSUME NEW i \in DOMAIN events', NEW j \in DOMAIN events', i < j
                 PROVE  events'[i].offset < events'[j].offset
      OBVIOUS
    <3>1. i \in 1..Len(events)
      BY <1>3
    <3>2. CASE j \in 1..Len(events)
      BY <1>3, <3>1, <3>2 DEF QueueOrder
    <3>3. CASE j = Len(events) + 1
      BY <1>3, <1>4, <3>1, <3>3 DEF QueueOrder
    <3> QED BY <1>3, <3>2, <3>3
  <2> QED BY <1>1, <1>2, <2>1, <2>2 DEF QueueOrder
<1>6. dpc' = Notified
  BY DEF PublishEvent
<1>7. DeliveryOrder' /\ OneDeliveryThread' /\ DeliveredInOrder'
  BY <1>2, <1>6 DEF DeliveryOrder, OneDeliveryThread, DeliveredInOrder, Notified
<1> QED BY <1>5, <1>7

\* The event taken is newer than everything delivered and older than the queue.
LEMMA PopOrder ==
  ASSUME TypeOK, OrderInv, DeliveryPop
  PROVE  OrderInv'
<1> USE DEF OrderInv
<1>1. CASE running /\ events # <<>>
  <2>1. /\ events \in Seq(Events) /\ nextOffset \in Nat /\ event.offset \in Nat
        /\ \A i \in DOMAIN events : events[i].offset \in Nat
        /\ received \in [Subs -> Seq(Nat)]
    <3>1. events \in Seq(Events) /\ nextOffset \in Nat /\ event \in Events
          /\ received \in [Subs -> Seq(Nat)]
      BY DEF TypeOK, FeedTypes, GhostTypes
    <3>2. \A i \in DOMAIN events : events[i] \in Events
      BY <3>1
    <3> QED BY <3>1, <3>2 DEF Events
  <2>2. /\ event' = Head(events) /\ events' = Tail(events) /\ dpc' = "targets"
        /\ dpc = "loop" /\ UNCHANGED <<nextOffset, todo, called, received, spc>>
    BY <1>1 DEF DeliveryPop
  <2>3. /\ event' = events[1] /\ 1 \in DOMAIN events
        /\ \A i \in DOMAIN events' : i + 1 \in DOMAIN events /\ i \in Nat /\ 1 < i + 1
        /\ \A i \in DOMAIN events' : events'[i] = events[i + 1]
    BY <1>1, <2>1, <2>2
  <2>4. QueueOrder'
    <3>1. \A i \in DOMAIN events' :
            event'.offset < events'[i].offset /\ events'[i].offset < nextOffset'
      BY <2>2, <2>3 DEF QueueOrder
    <3>2. \A i, j \in DOMAIN events' : i < j => events'[i].offset < events'[j].offset
      BY <2>3 DEF QueueOrder
    <3> QED BY <2>2, <2>3, <3>1, <3>2 DEF QueueOrder
  <2>5. event.offset < event'.offset
    BY <2>3 DEF QueueOrder
  <2>6. DeliveryOrder'
    <3> SUFFICES ASSUME NEW s \in Subs, NEW i \in DOMAIN received[s]
                 PROVE  received[s][i] < event'.offset
      BY <2>1, <2>2, <2>3 DEF DeliveryOrder
    <3>1. received[s][i] \in Nat /\ event'.offset \in Nat
      BY <2>1, <2>3
    <3>2. received[s][i] <= event.offset
      BY DEF DeliveryOrder
    <3> QED BY <2>1, <2>5, <3>1, <3>2
  <2>7. OneDeliveryThread' /\ DeliveredInOrder'
    BY <2>2 DEF OneDeliveryThread, DeliveredInOrder
  <2> QED BY <2>4, <2>6, <2>7
<1>2. CASE ~(running /\ events # <<>>)
  <2>1. /\ dpc = "loop" /\ dpc' = "test"
        /\ UNCHANGED <<events, nextOffset, event, todo, called, received, spc>>
    BY <1>2 DEF DeliveryPop
  <2>2. OneDeliveryThread'
    BY <2>1 DEF OneDeliveryThread
  <2> QED BY <2>1, <2>2, QuietStep
<1> QED BY <1>1, <1>2

\* Nobody has had the event whose targets are chosen.
LEMMA TargetsOrder ==
  ASSUME TypeOK, OrderInv, SnapshotTargets
  PROVE  OrderInv'
<1> USE DEF OrderInv
<1>1. /\ dpc = "targets" /\ dpc' \in {"loop", "deliver"}
      /\ dpc' = "loop" => todo' = {}
      /\ UNCHANGED <<events, nextOffset, event, called, received, spc>>
  BY DEF SnapshotTargets
<1>2. called = {}
  BY <1>1 DEF DeliveredInOrder
<1>3. QueueOrder'
  BY <1>1 DEF QueueOrder
<1>4. DeliveryOrder'
  BY <1>1 DEF DeliveryOrder
<1>5. OneDeliveryThread' /\ DeliveredInOrder'
  BY <1>1, <1>2 DEF OneDeliveryThread, DeliveredInOrder
<1> QED BY <1>3, <1>4, <1>5

\* A target gets the event once, after all it had before.
LEMMA CallbackOrder ==
  ASSUME TypeOK, OrderInv, NEW s \in Subs, Callback(s)
  PROVE  OrderInv'
<1> USE DEF OrderInv
<1>1. /\ s \in todo /\ todo' = todo \ {s}
      /\ UNCHANGED <<events, nextOffset, event, dpc, spc>>
  BY DEF Callback
<1>2. /\ event.offset \in Nat /\ received \in [Subs -> Seq(Nat)]
      /\ received[s] \in Seq(Nat)
  BY DEF TypeOK, FeedTypes, GhostTypes, Events
<1>3. dpc = "deliver"
  BY <1>1 DEF DeliveredInOrder
<1>4. QueueOrder' /\ OneDeliveryThread'
  BY <1>1 DEF QueueOrder, OneDeliveryThread
<1>5. CASE received' = [received EXCEPT ![s] = Append(@, event.offset)]
  <2>1. /\ received'[s] = Append(received[s], event.offset)
        /\ \A u \in Subs \ {s} : received'[u] = received[u]
    BY <1>2, <1>5
  <2>2. /\ DOMAIN received[s] = 1..Len(received[s]) /\ Len(received[s]) \in Nat
        /\ DOMAIN received'[s] = 1..(Len(received[s]) + 1)
        /\ \A i \in 1..Len(received[s]) : received'[s][i] = received[s][i]
        /\ received'[s][Len(received[s]) + 1] = event.offset
    BY <1>2, <2>1
  <2>3. \A i \in 1..Len(received[s]) : received[s][i] < event.offset
    BY <1>1, <2>2 DEF DeliveryOrder
  <2>4. DeliveryOrder'
    <3> SUFFICES ASSUME NEW u \in Subs
                 PROVE  /\ \A i \in DOMAIN received'[u] : received'[u][i] <= event.offset
                        /\ u \in todo' => \A i \in DOMAIN received'[u] : received'[u][i] < event.offset
      BY <1>1, <1>3 DEF DeliveryOrder
    <3>1. CASE u = s
      <4>1. \A i \in 1..Len(received[s]) : received'[s][i] <= event.offset
        BY <1>2, <2>2 DEF DeliveryOrder
      <4>2. \A i \in DOMAIN received'[s] : received'[s][i] <= event.offset
        <5> TAKE i \in DOMAIN received'[s]
        <5>1. CASE i \in 1..Len(received[s])
          BY <4>1, <5>1
        <5>2. CASE i = Len(received[s]) + 1
          BY <1>2, <2>2, <5>2
        <5> QED BY <2>2, <5>1, <5>2
      <4>3. s \notin todo'
        BY <1>1
      <4> QED BY <3>1, <4>2, <4>3
    <3>2. CASE u # s
      BY <1>1, <2>1, <3>2 DEF DeliveryOrder
    <3> QED BY <3>1, <3>2
  <2>5. DeliveredInOrder'
    <3> SUFFICES ASSUME NEW u \in Subs, NEW i \in DOMAIN received'[u],
                        NEW j \in DOMAIN received'[u], i < j
                 PROVE  received'[u][i] < received'[u][j]
      BY <1>1, <1>3 DEF DeliveredInOrder
    <3>1. CASE u = s /\ j = Len(received[s]) + 1
      BY <2>2, <2>3, <3>1
    <3>2. CASE u = s /\ j # Len(received[s]) + 1
      <4>1. i \in 1..Len(received[s]) /\ j \in 1..Len(received[s])
        BY <2>2, <3>2
      <4>2. received[s][i] < received[s][j]
        BY <2>2, <4>1 DEF DeliveredInOrder
      <4> QED BY <2>2, <3>2, <4>1, <4>2
    <3>3. CASE u # s
      BY <2>1, <3>3 DEF DeliveredInOrder
    <3> QED BY <3>1, <3>2, <3>3
  <2> QED BY <1>4, <2>4, <2>5
<1>6. CASE received' = received
  BY <1>1, <1>3, <1>4, <1>6 DEF DeliveryOrder, DeliveredInOrder
<1> QED BY <1>5, <1>6 DEF Callback

\* Every step keeps the order.
LEMMA StepOrder == TypeOK /\ OrderInv /\ [Next]_vars => OrderInv'
<1> SUFFICES ASSUME TypeOK, OrderInv, [Next]_vars PROVE OrderInv'
  OBVIOUS
<1>1. CASE \E t \in Tables : PublishEvent(t)
  BY <1>1, PublishOrder
<1>2. ASSUME NEW s \in Subs, Subscribers(s)
      PROVE  OrderInv'
  <2>1. /\ UNCHANGED <<events, nextOffset, event, todo, called, received, spc>>
        /\ dpc' = dpc \/ dpc' = Notified
    BY <1>2 DEF Subscribers, CreateSubscription, Subscribe, Unsubscribe, DeleteSubscription
  <2>2. OneDeliveryThread'
    BY <2>1 DEF OrderInv, OneDeliveryThread, Notified
  <2> QED BY <2>1, <2>2, QuietStep DEF Notified
<1>3. ASSUME NEW s \in Subs, Task(s)
      PROVE  OrderInv'
  <2>1. CASE Callback(s)
    BY <2>1, CallbackOrder
  <2>2. CASE RecordOffset(s)
    <3>1. /\ UNCHANGED <<events, nextOffset, event, todo, received, dpc, spc>>
          /\ called' \subseteq called
      BY <2>2 DEF RecordOffset
    <3>2. QueueOrder' /\ OneDeliveryThread'
      BY <3>1 DEF OrderInv, QueueOrder, OneDeliveryThread
    <3>3. DeliveryOrder' /\ DeliveredInOrder'
      BY <3>1 DEF OrderInv, DeliveryOrder, DeliveredInOrder
    <3> QED BY <3>2, <3>3 DEF OrderInv
  <2> QED BY <1>3, <2>1, <2>2 DEF Task
<1>4. CASE DeliveryLoop
  <2>1. CASE DeliveryTest \/ DeliveryBlock \/ BatchDone
    <3>1. /\ UNCHANGED <<events, nextOffset, event, todo, called, received, spc>>
          /\ dpc' # "targets" /\ dpc # "stopped"
          /\ dpc = "deliver" => todo = {} /\ called = {}
      BY <2>1 DEF DeliveryTest, DeliveryBlock, BatchDone
    <3>2. OneDeliveryThread'
      BY <3>1 DEF OrderInv, OneDeliveryThread
    <3> QED BY <3>1, <3>2, QuietStep
  <2> QED BY <1>4, <2>1, PopOrder, TargetsOrder DEF DeliveryLoop
<1>5. CASE SpuriousWake \/ Start \/ Stop \/ StopNotify \/ StopJoin
  <2>1. /\ UNCHANGED <<events, nextOffset, event, todo, called, received>>
        /\ dpc' = "targets" => dpc = "targets"
        /\ dpc = "deliver" => dpc' = "deliver"
    BY <1>5 DEF OrderInv, OneDeliveryThread, SpuriousWake, Start, Stop, StopNotify,
                StopJoin, Notified
  <2>2. OneDeliveryThread'
    BY <1>5 DEF OrderInv, OneDeliveryThread, SpuriousWake, Start, Stop, StopNotify,
                StopJoin, Notified
  <2> QED BY <2>1, <2>2, QuietStep
<1>6. CASE UNCHANGED vars
  <2>1. UNCHANGED <<events, nextOffset, event, todo, called, received, dpc, spc>>
    BY <1>6 DEF vars
  <2>2. OneDeliveryThread'
    BY <2>1 DEF OrderInv, OneDeliveryThread
  <2> QED BY <2>1, <2>2, QuietStep
<1> QED BY <1>1, <1>2, <1>3, <1>4, <1>5, <1>6 DEF Next

\* A subscriber's callback sees strictly increasing offsets, through the pool,
\* unsubscriptions and restarts, for any number of subscribers and threads.
THEOREM InOrderDelivery == Spec => []DeliveredInOrder
<1>1. OrderInv => DeliveredInOrder
  BY DEF OrderInv
<1> QED BY <1>1, InitTypes, StepTypes, InitOrder, StepOrder, PTL DEF Spec

-----------------------------------------------------------------------------
(***************************************************************************)
(* The retained history.                                                    *)
(***************************************************************************)

\* What the trimming keeps is within the limit and is the end of what was there.
LEMMA TrimSuffix ==
  ASSUME NEW h \in Seq(Events)
  PROVE  /\ MaxLagEntries > 0 => Len(Trim(h)) <= MaxLagEntries
         /\ Len(Trim(h)) <= Len(h)
         /\ \A i \in 1..Len(Trim(h)) : Trim(h)[i] = h[Len(h) - Len(Trim(h)) + i]
<1> DEFINE kept == (MaxLagEntries * 3) \div 4
<1>1. kept \in Nat /\ kept <= MaxLagEntries /\ MaxLagEntries \in Nat /\ Len(h) \in Nat
  BY ChangefeedConstants
<1>2. CASE MaxLagEntries > 0 /\ Len(h) > MaxLagEntries
  <2>1. Trim(h) = SubSeq(h, Len(h) - kept + 1, Len(h))
    BY <1>2 DEF Trim
  <2> HIDE DEF kept
  <2>2. /\ Len(Trim(h)) = kept
        /\ \A i \in 1..kept : Trim(h)[i] = h[Len(h) - kept + i]
    BY <1>1, <1>2, <2>1
  <2> QED BY <1>1, <1>2, <2>2
<1>3. CASE ~(MaxLagEntries > 0 /\ Len(h) > MaxLagEntries)
  <2>1. Trim(h) = h
    BY <1>3 DEF Trim
  <2>2. \A i \in 1..Len(h) : Len(h) - Len(h) + i = i
    BY <1>1
  <2> QED BY <1>1, <1>3, <2>1, <2>2
<1> QED BY <1>2, <1>3

\* Publishing keeps the history an unbroken run that ends with the last event.
LEMMA PublishHistory ==
  ASSUME TypeOK, HistoryIsSuffix, NEW t \in Tables, PublishEvent(t)
  PROVE  HistoryIsSuffix'
<1> DEFINE e == [offset |-> nextOffset, table |-> t]
           h == Append(allEvents, e)
<1>1. /\ allEvents \in Seq(Events) /\ nextOffset \in Nat /\ e \in Events
  BY DEF TypeOK, FeedTypes, Events
<1>2. /\ h \in Seq(Events) /\ Len(h) = Len(allEvents) + 1 /\ Len(allEvents) \in Nat
      /\ \A i \in 1..Len(allEvents) : h[i] = allEvents[i]
      /\ h[Len(allEvents) + 1] = e
  BY <1>1
<1>3. \A i \in 1..Len(h) : h[i].offset = nextOffset - Len(h) + i
  <2> TAKE i \in 1..Len(h)
  <2>1. CASE i \in 1..Len(allEvents)
    BY <1>1, <1>2, <2>1 DEF HistoryIsSuffix
  <2>2. CASE i = Len(allEvents) + 1
    BY <1>1, <1>2, <2>2
  <2> QED BY <1>2, <2>1, <2>2
<1>4. allEvents' = Trim(h) /\ nextOffset' = nextOffset + 1
  BY DEF PublishEvent
<1>5. Trim(h) \in Seq(Events)
  BY <1>2, TrimType
<1> HIDE DEF h
<1>6. /\ MaxLagEntries > 0 => Len(Trim(h)) <= MaxLagEntries
      /\ Len(Trim(h)) <= Len(h)
      /\ \A i \in 1..Len(Trim(h)) : Trim(h)[i] = h[Len(h) - Len(Trim(h)) + i]
  BY <1>2, TrimSuffix
<1>7. \A i \in 1..Len(Trim(h)) : Trim(h)[i].offset = nextOffset - Len(Trim(h)) + i
  <2> TAKE i \in 1..Len(Trim(h))
  <2>1. Len(Trim(h)) \in Nat /\ Len(h) \in Nat
    BY <1>2, <1>5
  <2>2. Len(h) - Len(Trim(h)) + i \in 1..Len(h)
    BY <1>6, <2>1
  <2>3. h[Len(h) - Len(Trim(h)) + i].offset = nextOffset - Len(h) + (Len(h) - Len(Trim(h)) + i)
    BY <1>3, <2>2
  <2>4. Trim(h)[i] = h[Len(h) - Len(Trim(h)) + i]
    BY <1>6
  <2> QED BY <1>1, <2>1, <2>3, <2>4
<1>8. DOMAIN Trim(h) = 1..Len(Trim(h)) /\ Len(Trim(h)) \in Nat
  BY <1>5
<1> QED BY <1>1, <1>4, <1>6, <1>7, <1>8 DEF HistoryIsSuffix

\* Only PublishEvent touches the history.
LEMMA StepHistory == TypeOK /\ HistoryIsSuffix /\ [Next]_vars => HistoryIsSuffix'
<1> SUFFICES ASSUME TypeOK, HistoryIsSuffix, [Next]_vars PROVE HistoryIsSuffix'
  OBVIOUS
<1>1. CASE \E t \in Tables : PublishEvent(t)
  BY <1>1, PublishHistory
<1>2. CASE UNCHANGED <<allEvents, nextOffset>>
  BY <1>2 DEF HistoryIsSuffix
<1>3. ASSUME NEW s \in Subs, Subscribers(s) \/ Task(s)
      PROVE  UNCHANGED <<allEvents, nextOffset>>
  BY <1>3 DEF Subscribers, CreateSubscription, Subscribe, Unsubscribe, DeleteSubscription,
              Task, Callback, RecordOffset
<1>4. ASSUME DeliveryLoop \/ SpuriousWake \/ Start \/ Stop \/ StopNotify \/ StopJoin
      PROVE  UNCHANGED <<allEvents, nextOffset>>
  BY <1>4 DEF DeliveryLoop, DeliveryTest, DeliveryBlock, DeliveryPop, SnapshotTargets,
              BatchDone, SpuriousWake, Start, Stop, StopNotify, StopJoin
<1>5. CASE UNCHANGED vars
  BY <1>2, <1>5 DEF vars
<1> QED BY <1>1, <1>2, <1>3, <1>4, <1>5 DEF Next

\* all_events_ stays within max_lag_entries and is the unbroken run of the latest
\* events, for every limit (PublishEvent).
THEOREM HistoryKept == Spec => []HistoryIsSuffix
<1>1. Init => HistoryIsSuffix
  BY ChangefeedConstants DEF Init, HistoryIsSuffix
<1> QED BY <1>1, InitTypes, StepTypes, StepHistory, PTL DEF Spec

-----------------------------------------------------------------------------
(***************************************************************************)
(* The recorded offsets.                                                    *)
(***************************************************************************)

\* The strengthening: a target whose task has not ended was just given the event in
\* hand, and an identifier that has not been given out has no trace anywhere.
CalledHaveEvent ==
  \A s \in called : received[s] # <<>> /\ received[s][Len(received[s])] = event.offset
UnusedUntouched ==
  \A s \in Subs : status[s] = "none" =>
    received[s] = <<>> /\ current[s] = 0 /\ s \notin callbacks \union todo \union called
OffsetInv == CalledHaveEvent /\ UnusedUntouched /\ OffsetTracksDelivery

\* Steps that are about neither tasks nor subscriptions.
LEMMA QuietOffsets ==
  ASSUME OffsetInv, UNCHANGED <<status, current, callbacks, todo, called, received>>,
         event' = event \/ called = {}
  PROVE  OffsetInv'
  BY DEF OffsetInv, CalledHaveEvent, UnusedUntouched, OffsetTracksDelivery

\* Subscriptions that come and go.
LEMMA SubscriberOffsets ==
  ASSUME TypeOK, OffsetInv, NEW s \in Subs, Subscribers(s)
  PROVE  OffsetInv'
<1> USE DEF OffsetInv
<1>1. status \in [Subs -> {"none", "active", "deleted"}]
  BY DEF TypeOK, SubTypes
<1>2. UNCHANGED <<current, event, todo, called, received>>
  BY DEF Subscribers, CreateSubscription, Subscribe, Unsubscribe, DeleteSubscription
<1>3. CalledHaveEvent'
  BY <1>2 DEF CalledHaveEvent
<1>4. CASE \E p \in Patterns : CreateSubscription(s, p)
  <2>1. /\ status[s] = "none" /\ status' = [status EXCEPT ![s] = "active"]
        /\ callbacks' = callbacks
    BY <1>4 DEF CreateSubscription
  <2>2. received[s] = <<>> /\ current[s] = 0
    BY <2>1 DEF UnusedUntouched
  <2>3. UnusedUntouched'
    BY <1>1, <1>2, <2>1 DEF UnusedUntouched
  <2>4. OffsetTracksDelivery'
    BY <1>1, <1>2, <2>1, <2>2 DEF OffsetTracksDelivery
  <2> QED BY <1>3, <2>3, <2>4
<1>5. CASE Subscribe(s) \/ Unsubscribe(s)
  <2>1. status' = status /\ callbacks' \subseteq callbacks \union {s}
        /\ (s \in callbacks' => s \in callbacks \/ status[s] = "active")
    BY <1>5 DEF Subscribe, Unsubscribe
  <2>2. UnusedUntouched'
    BY <1>2, <2>1 DEF UnusedUntouched
  <2>3. OffsetTracksDelivery'
    BY <1>2, <2>1 DEF OffsetTracksDelivery
  <2> QED BY <1>3, <2>2, <2>3
<1>6. CASE DeleteSubscription(s)
  <2>1. status' = [status EXCEPT ![s] = "deleted"] /\ callbacks' \subseteq callbacks
    BY <1>6 DEF DeleteSubscription
  <2>2. UnusedUntouched'
    BY <1>1, <1>2, <2>1 DEF UnusedUntouched
  <2>3. OffsetTracksDelivery'
    BY <1>1, <1>2, <2>1 DEF OffsetTracksDelivery
  <2> QED BY <1>3, <2>2, <2>3
<1> QED BY <1>4, <1>5, <1>6 DEF Subscribers

\* The two halves of a task.
LEMMA TaskOffsets ==
  ASSUME TypeOK, OffsetInv, NEW s \in Subs, Task(s)
  PROVE  OffsetInv'
<1> USE DEF OffsetInv
<1>1. /\ received \in [Subs -> Seq(Nat)] /\ current \in [Subs -> Nat]
      /\ event.offset \in Nat /\ called \subseteq Subs
  BY DEF TypeOK, GhostTypes, SubTypes, FeedTypes, Events
<1>2. CASE Callback(s)
  <2>1. /\ UNCHANGED <<status, current, callbacks, event>>
        /\ todo' = todo \ {s} /\ s \in todo
    BY <1>2 DEF Callback
  <2>2. status[s] # "none"
    BY <2>1 DEF UnusedUntouched
  <2>3. CASE received' = received /\ called' = called
    <3>1. CalledHaveEvent' /\ OffsetTracksDelivery'
      BY <2>1, <2>3 DEF CalledHaveEvent, OffsetTracksDelivery
    <3>2. UnusedUntouched'
      BY <2>1, <2>3 DEF UnusedUntouched
    <3> QED BY <3>1, <3>2
  <2>4. CASE received' = [received EXCEPT ![s] = Append(@, event.offset)] /\ called' = called \union {s}
    <3>1. /\ received'[s] = Append(received[s], event.offset)
          /\ \A r \in Subs : r # s => received'[r] = received[r]
      BY <1>1, <2>4
    <3>2. received'[s] # <<>> /\ received'[s][Len(received'[s])] = event.offset
      <4>1. ASSUME NEW q \in Seq(Nat), NEW o \in Nat
            PROVE  Append(q, o) # <<>> /\ Append(q, o)[Len(Append(q, o))] = o
        OBVIOUS
      <4> QED BY <1>1, <3>1, <4>1
    <3>3. CalledHaveEvent'
      BY <1>1, <2>1, <2>4, <3>1, <3>2 DEF CalledHaveEvent
    <3>4. UnusedUntouched'
      BY <2>1, <2>2, <2>4, <3>1 DEF UnusedUntouched
    <3>5. OffsetTracksDelivery'
      BY <2>1, <2>4, <3>1 DEF OffsetTracksDelivery
    <3> QED BY <3>3, <3>4, <3>5
  <2> QED BY <1>2, <2>3, <2>4 DEF Callback
<1>3. CASE RecordOffset(s)
  <2>1. /\ UNCHANGED <<status, callbacks, event, todo, received>>
        /\ s \in called /\ called' = called \ {s}
        /\ current' = IF status[s] = "active" THEN [current EXCEPT ![s] = event.offset] ELSE current
    BY <1>3 DEF RecordOffset
  <2>2. CalledHaveEvent'
    BY <2>1 DEF CalledHaveEvent
  <2>3. UnusedUntouched'
    BY <1>1, <2>1 DEF UnusedUntouched
  <2>4. OffsetTracksDelivery'
    BY <1>1, <2>1 DEF OffsetTracksDelivery, CalledHaveEvent
  <2> QED BY <2>2, <2>3, <2>4
<1> QED BY <1>2, <1>3 DEF Task

\* Every step keeps the recorded offsets right.
LEMMA StepOffsets == TypeOK /\ OrderInv /\ OffsetInv /\ [Next]_vars => OffsetInv'
<1> SUFFICES ASSUME TypeOK, OrderInv, OffsetInv, [Next]_vars PROVE OffsetInv'
  OBVIOUS
<1>1. ASSUME NEW s \in Subs, Subscribers(s) \/ Task(s)
      PROVE  OffsetInv'
  BY <1>1, SubscriberOffsets, TaskOffsets
<1>2. CASE SnapshotTargets
  <2>1. /\ UNCHANGED <<status, current, callbacks, called, event, received>>
        /\ todo' \subseteq {s \in callbacks : status[s] = "active"}
    BY <1>2 DEF SnapshotTargets
  <2>2. CalledHaveEvent' /\ OffsetTracksDelivery'
    BY <2>1 DEF OffsetInv, CalledHaveEvent, OffsetTracksDelivery
  <2>3. UnusedUntouched'
    BY <2>1 DEF OffsetInv, UnusedUntouched
  <2> QED BY <2>2, <2>3 DEF OffsetInv
<1>3. CASE DeliveryPop
  <2>1. /\ UNCHANGED <<status, current, callbacks, todo, called, received>> /\ dpc = "loop"
    BY <1>3 DEF DeliveryPop
  <2>2. called = {}
    BY <2>1 DEF OrderInv, DeliveredInOrder
  <2> QED BY <2>1, <2>2, QuietOffsets
<1>4. CASE \E t \in Tables : PublishEvent(t)
  BY <1>4, QuietOffsets DEF PublishEvent
<1>5. CASE DeliveryTest \/ DeliveryBlock \/ BatchDone
  BY <1>5, QuietOffsets DEF DeliveryTest, DeliveryBlock, BatchDone
<1>6. CASE SpuriousWake \/ Start \/ Stop \/ StopNotify \/ StopJoin
  BY <1>6, QuietOffsets DEF SpuriousWake, Start, Stop, StopNotify, StopJoin
<1>7. CASE UNCHANGED vars
  BY <1>7, QuietOffsets DEF vars
<1> QED BY <1>1, <1>2, <1>3, <1>4, <1>5, <1>6, <1>7 DEF Next, DeliveryLoop

\* Between its tasks, the current_offset of a subscription is the last offset its
\* callback took without throwing, whatever is deleted or stopped meanwhile.
THEOREM OffsetsTracked == Spec => []OffsetTracksDelivery
<1>1. Init => OffsetInv
  BY DEF Init, OffsetInv, CalledHaveEvent, UnusedUntouched, OffsetTracksDelivery
<1>2. OffsetInv => OffsetTracksDelivery
  BY DEF OffsetInv
<1> QED BY <1>1, <1>2, InitTypes, StepTypes, InitOrder, StepOrder, StepOffsets, PTL DEF Spec

-----------------------------------------------------------------------------
(***************************************************************************)
(* No gaps.                                                                 *)
(***************************************************************************)

\* The strengthening: the event in hand and the queue are an unbroken run up to the
\* last offset given out, and a registered callback with an open filter has had, or
\* thrown on, everything up to the event in hand, which it may be about to get.
UnbrokenRun ==
  /\ event.offset = nextOffset - Len(events) - 1
  /\ \A i \in DOMAIN events : events[i].offset = nextOffset - Len(events) + i - 1
Had(s, o) == o \in failed[s] \/ \E i \in DOMAIN received[s] : received[s][i] = o
Due(s) == dpc = "targets" \/ (dpc = "deliver" /\ s \in todo)
UpToDate ==
  \A s \in callbacks : status[s] = "active" /\ pattern[s] = AnyTable =>
    \A o \in Nat \ {0} : since[s] <= o /\ o <= event.offset =>
      Had(s, o) \/ (o = event.offset /\ Due(s))
GapInv == UnbrokenRun /\ UpToDate

\* Types in the form the steps below use.
LEMMA FeedFacts ==
  ASSUME TypeOK
  PROVE  /\ events \in Seq(Events) /\ Len(events) \in Nat /\ DOMAIN events = 1..Len(events)
         /\ nextOffset \in Nat /\ event.offset \in Nat
         /\ \A i \in DOMAIN events : events[i] \in Events /\ events[i].offset \in Nat
<1>1. events \in Seq(Events) /\ nextOffset \in Nat /\ event \in Events
  BY DEF TypeOK, FeedTypes
<1>2. \A i \in DOMAIN events : events[i] \in Events
  BY <1>1
<1> QED BY <1>1, <1>2 DEF Events

\* Where the queue starts.
LEMMA HeadOfRun ==
  ASSUME TypeOK, UnbrokenRun
  PROVE  (IF events = <<>> THEN nextOffset ELSE Head(events).offset) = event.offset + 1
<1>1. CASE events = <<>>
  BY <1>1, FeedFacts DEF UnbrokenRun
<1>2. CASE events # <<>>
  <2>1. Len(events) # 0
    BY <1>2, FeedFacts
  <2>2. 1 \in DOMAIN events /\ Head(events) = events[1]
    BY <2>1, FeedFacts
  <2> QED BY <1>2, <2>2, FeedFacts DEF UnbrokenRun
<1> QED BY <1>1, <1>2

\* The invariant says what NoGap says.
LEMMA GapInvNoGap == TypeOK /\ GapInv => NoGap
<1> SUFFICES ASSUME TypeOK, GapInv,
                    NEW s \in callbacks, status[s] = "active", pattern[s] = AnyTable,
                    NEW o \in 1..MaxEvents, since[s] <= o, o < DeliveredBelow
             PROVE  Had(s, o)
  BY DEF NoGap, Had
<1>1. DeliveredBelow = IF dpc \in {"targets", "deliver"} THEN event.offset ELSE event.offset + 1
  BY HeadOfRun DEF DeliveredBelow, GapInv
<1>2. o \in Nat \ {0} /\ event.offset \in Nat
  BY FeedFacts, ChangefeedConstants
<1>3. o <= event.offset /\ (o = event.offset => ~Due(s))
  BY <1>1, <1>2 DEF Due
<1> QED BY <1>2, <1>3 DEF GapInv, UpToDate

\* A step that only removes callbacks, or moves the delivery thread outside a fan-out.
LEMMA QuietGaps ==
  ASSUME UpToDate, UNCHANGED <<event, pattern, status, todo, received, failed, since>>,
         callbacks' \subseteq callbacks,
         dpc' = dpc \/ (dpc \notin {"targets", "deliver"} /\ dpc' \notin {"targets", "deliver"})
  PROVE  UpToDate'
  BY DEF UpToDate, Had, Due

\* The run stays unbroken.
LEMMA StepRun == TypeOK /\ UnbrokenRun /\ [Next]_vars => UnbrokenRun'
<1> SUFFICES ASSUME TypeOK, UnbrokenRun, [Next]_vars PROVE UnbrokenRun'
  OBVIOUS
<1>1. ASSUME NEW t \in Tables, PublishEvent(t) PROVE UnbrokenRun'
  <2> DEFINE e == [offset |-> nextOffset, table |-> t]
  <2>1. events' = Append(events, e) /\ nextOffset' = nextOffset + 1 /\ event' = event
    BY <1>1 DEF PublishEvent
  <2>2. e \in Events /\ e.offset = nextOffset
    BY DEF TypeOK, FeedTypes, Events
  <2>3. /\ Len(events') = Len(events) + 1 /\ DOMAIN events' = 1..(Len(events) + 1)
        /\ \A i \in 1..Len(events) : events'[i] = events[i]
        /\ events'[Len(events) + 1] = e
    BY <2>1, <2>2, FeedFacts
  <2>4. \A i \in DOMAIN events' : events'[i].offset = nextOffset' - Len(events') + i - 1
    <3> TAKE i \in DOMAIN events'
    <3>1. CASE i \in 1..Len(events)
      BY <2>1, <2>3, <3>1, FeedFacts DEF UnbrokenRun
    <3>2. CASE i = Len(events) + 1
      BY <2>1, <2>2, <2>3, <3>2, FeedFacts
    <3> QED BY <2>3, <3>1, <3>2, FeedFacts
  <2>5. event'.offset = nextOffset' - Len(events') - 1
    BY <2>1, <2>3, FeedFacts DEF UnbrokenRun
  <2> QED BY <2>4, <2>5 DEF UnbrokenRun
<1>2. CASE UNCHANGED <<events, event, nextOffset>>
  BY <1>2 DEF UnbrokenRun
<1>3. CASE DeliveryPop /\ events # <<>> /\ event' = Head(events) /\ events' = Tail(events)
  <2>1. nextOffset' = nextOffset
    BY <1>3 DEF DeliveryPop
  <2>2. Len(events) # 0
    BY <1>3, FeedFacts
  <2>3. /\ Len(events') = Len(events) - 1 /\ DOMAIN events' = 1..(Len(events) - 1)
        /\ event' = events[1] /\ 1 \in DOMAIN events
        /\ \A i \in 1..(Len(events) - 1) : events'[i] = events[i + 1] /\ i + 1 \in DOMAIN events
    BY <1>3, <2>2, FeedFacts
  <2>4. event'.offset = nextOffset' - Len(events') - 1
    BY <2>1, <2>3, FeedFacts DEF UnbrokenRun
  <2>5. \A i \in DOMAIN events' : events'[i].offset = nextOffset' - Len(events') + i - 1
    <3> TAKE i \in DOMAIN events'
    <3>1. i \in 1..(Len(events) - 1) /\ events'[i] = events[i + 1] /\ i + 1 \in DOMAIN events
      BY <2>3
    <3>2. events[i + 1].offset = nextOffset - Len(events) + (i + 1) - 1
      BY <3>1 DEF UnbrokenRun
    <3> QED BY <2>1, <2>3, <3>1, <3>2, FeedFacts
  <2> QED BY <2>4, <2>5 DEF UnbrokenRun
<1>4. CASE DeliveryPop
  BY <1>2, <1>3, <1>4 DEF DeliveryPop
<1>5. ASSUME NEW s \in Subs, Subscribers(s) \/ Task(s)
      PROVE  UNCHANGED <<events, event, nextOffset>>
  BY <1>5 DEF Subscribers, CreateSubscription, Subscribe, Unsubscribe, DeleteSubscription,
              Task, Callback, RecordOffset
<1>6. ASSUME DeliveryTest \/ DeliveryBlock \/ SnapshotTargets \/ BatchDone \/ SpuriousWake
             \/ Start \/ Stop \/ StopNotify \/ StopJoin
      PROVE  UNCHANGED <<events, event, nextOffset>>
  BY <1>6 DEF DeliveryTest, DeliveryBlock, SnapshotTargets, BatchDone, SpuriousWake,
              Start, Stop, StopNotify, StopJoin
<1>7. CASE UNCHANGED vars
  BY <1>2, <1>7 DEF vars
<1> QED BY <1>1, <1>2, <1>4, <1>5, <1>6, <1>7 DEF Next, DeliveryLoop

\* A subscription that is new has no callback; a callback that is new starts from the
\* event that is looked at next.
LEMMA SubscriberGaps ==
  ASSUME TypeOK, OffsetInv, GapInv, NEW s \in Subs, Subscribers(s)
  PROVE  UpToDate'
<1>1. /\ status \in [Subs -> {"none", "active", "deleted"}] /\ pattern \in [Subs -> Patterns]
      /\ since \in [Subs -> Nat] /\ callbacks \subseteq Subs /\ event.offset \in Nat
  BY FeedFacts DEF TypeOK, SubTypes, GhostTypes
<1>2. CASE \E p \in Patterns : CreateSubscription(s, p)
  <2>1. PICK p \in Patterns : CreateSubscription(s, p)
    BY <1>2
  <2>2. s \notin callbacks
    BY <2>1 DEF CreateSubscription, OffsetInv, UnusedUntouched
  <2>3. /\ UNCHANGED <<event, callbacks, todo, received, failed, since, dpc>>
        /\ \A r \in callbacks : status'[r] = status[r] /\ pattern'[r] = pattern[r]
    BY <1>1, <2>1, <2>2 DEF CreateSubscription
  <2> QED BY <2>3 DEF GapInv, UpToDate, Had, Due
<1>3. CASE Subscribe(s)
  <2>1. UNCHANGED <<status, pattern, event, todo, received, failed>>
    BY <1>3 DEF Subscribe
  <2>2. \A r \in Subs : Due(r) => Due(r)'
    BY <1>3 DEF Subscribe, Due, Notified
  <2>3. CASE s \in callbacks
    BY <1>3, <2>1, <2>2, <2>3, <1>1 DEF Subscribe, GapInv, UpToDate, Had
  <2>4. CASE s \notin callbacks
    <3>1. /\ callbacks' = callbacks \union {s}
          /\ since' = [since EXCEPT ![s] = NextToDeliver]
      BY <1>3, <2>4 DEF Subscribe
    <3>2. since'[s] = IF dpc = "targets" THEN event.offset ELSE event.offset + 1
      BY <1>1, <3>1, HeadOfRun DEF NextToDeliver, GapInv
    <3>3. \A o \in Nat \ {0} : since'[s] <= o /\ o <= event'.offset => o = event'.offset /\ Due(s)'
      <4>1. dpc = "targets" => Due(s)'
        BY <2>2 DEF Due
      <4> QED BY <1>1, <2>1, <3>2, <4>1
    <3>4. \A r \in callbacks : since'[r] = since[r]
      BY <1>1, <2>4, <3>1
    <3> QED BY <1>1, <2>1, <2>2, <3>1, <3>3, <3>4 DEF GapInv, UpToDate, Had
  <2> QED BY <2>3, <2>4
<1>4. CASE Unsubscribe(s)
  BY <1>4, QuietGaps DEF Unsubscribe, GapInv
<1>5. CASE DeleteSubscription(s)
  <2>1. /\ UNCHANGED <<event, pattern, todo, received, failed, since, dpc>>
        /\ callbacks' \subseteq callbacks
        /\ \A r \in callbacks' : status'[r] = "active" => status[r] = "active"
    BY <1>1, <1>5 DEF DeleteSubscription
  <2> QED BY <2>1 DEF GapInv, UpToDate, Had, Due
<1> QED BY <1>2, <1>3, <1>4, <1>5 DEF Subscribers

\* A callback is given the event in hand, or throws on it.
LEMMA TaskGaps ==
  ASSUME TypeOK, OrderInv, GapInv, NEW s \in Subs, Task(s)
  PROVE  UpToDate'
<1>1. /\ received \in [Subs -> Seq(Nat)] /\ failed \in [Subs -> SUBSET Nat]
      /\ callbacks \subseteq Subs /\ event.offset \in Nat
  BY FeedFacts DEF TypeOK, SubTypes, GhostTypes
<1>2. CASE RecordOffset(s)
  BY <1>2, QuietGaps DEF RecordOffset, GapInv
<1>3. CASE Callback(s)
  <2>1. /\ UNCHANGED <<event, pattern, status, callbacks, since, dpc>>
        /\ todo' = todo \ {s}
    BY <1>3 DEF Callback
  <2>2. Had(s, event.offset)' /\ \A r \in Subs, o \in Nat : Had(r, o) => Had(r, o)'
    <3>1. CASE received' = [received EXCEPT ![s] = Append(@, event.offset)] /\ failed' = failed
      <4>1. /\ received'[s] = Append(received[s], event.offset)
            /\ \A r \in Subs : r # s => received'[r] = received[r]
        BY <1>1, <3>1
      <4>2. ASSUME NEW q \in Seq(Nat), NEW x \in Nat
            PROVE  /\ \E i \in DOMAIN Append(q, x) : Append(q, x)[i] = x
                   /\ \A i \in DOMAIN q : i \in DOMAIN Append(q, x) /\ Append(q, x)[i] = q[i]
        <5>1. /\ Len(q) + 1 \in DOMAIN Append(q, x) /\ Append(q, x)[Len(q) + 1] = x
              /\ \A i \in DOMAIN q : i \in DOMAIN Append(q, x) /\ Append(q, x)[i] = q[i]
          OBVIOUS
        <5> QED BY <5>1
      <4>3. Had(s, event.offset)'
        <5>1. received[s] \in Seq(Nat) /\ event' = event
          BY <1>1, <2>1
        <5>2. \E i \in DOMAIN received'[s] : received'[s][i] = event.offset
          <6>1. \E i \in DOMAIN Append(received[s], event.offset) :
                  Append(received[s], event.offset)[i] = event.offset
            BY <1>1, <4>2, <5>1, Zenon
          <6> QED BY <4>1, <6>1, Zenon
        <5> QED BY <5>1, <5>2 DEF Had
      <4>4. ASSUME NEW r \in Subs, NEW o \in Nat, Had(r, o) PROVE Had(r, o)'
        <5>1. CASE r = s
          BY <1>1, <3>1, <4>1, <4>2, <4>4, <5>1 DEF Had
        <5>2. CASE r # s
          BY <3>1, <4>1, <4>4, <5>2 DEF Had
        <5> QED BY <5>1, <5>2
      <4> QED BY <4>3, <4>4
    <3>2. CASE failed' = [failed EXCEPT ![s] = @ \union {event.offset}] /\ received' = received
      BY <1>1, <2>1, <3>2 DEF Had
    <3> QED BY <1>3, <3>1, <3>2 DEF Callback
  <2>3. \A r \in Subs : Due(r) => Due(r)' \/ r = s
    BY <2>1 DEF Due
  <2> QED BY <1>1, <2>1, <2>2, <2>3 DEF GapInv, UpToDate
<1> QED BY <1>2, <1>3 DEF Task

\* The delivery thread goes past an event only when every target has had it.
LEMMA DeliveryGaps ==
  ASSUME TypeOK, OrderInv, GapInv, DeliveryLoop
  PROVE  UpToDate'
<1>1. callbacks \subseteq Subs /\ event.offset \in Nat
  BY FeedFacts DEF TypeOK, SubTypes
<1>2. CASE DeliveryTest \/ DeliveryBlock
  BY <1>2, QuietGaps DEF DeliveryTest, DeliveryBlock, GapInv
<1>3. CASE DeliveryPop
  <2>1. /\ UNCHANGED <<pattern, status, callbacks, todo, received, failed, since>> /\ dpc = "loop"
    BY <1>3 DEF DeliveryPop
  <2>2. CASE event' = event /\ dpc' = "test"
    BY <2>1, <2>2, QuietGaps DEF GapInv
  <2>3. CASE events # <<>> /\ event' = Head(events) /\ dpc' = "targets"
    <3>1. event'.offset = event.offset + 1
      BY <2>3, HeadOfRun DEF GapInv
    <3>2. \A r \in Subs : Due(r)' /\ ~Due(r)
      BY <2>1, <2>3 DEF Due
    <3>3. \A o \in Nat : o <= event'.offset => o <= event.offset \/ o = event'.offset
      BY <1>1, <3>1
    <3> QED BY <1>1, <2>1, <3>2, <3>3 DEF GapInv, UpToDate, Had
  <2> QED BY <1>3, <2>2, <2>3 DEF DeliveryPop
<1>4. CASE SnapshotTargets
  <2>1. /\ UNCHANGED <<event, pattern, status, callbacks, received, failed, since>>
        /\ todo' = {s \in callbacks : status[s] = "active" /\ MatchesFilter(s, event)}
        /\ dpc' = IF todo' = {} THEN "loop" ELSE "deliver"
    BY <1>4 DEF SnapshotTargets
  <2>2. \A s \in callbacks : status[s] = "active" /\ pattern[s] = AnyTable => Due(s)'
    BY <2>1 DEF MatchesFilter, Due
  <2> QED BY <2>1, <2>2 DEF GapInv, UpToDate, Had
<1>5. CASE BatchDone
  <2>1. /\ UNCHANGED <<event, pattern, status, callbacks, received, failed, since>>
        /\ dpc = "deliver" /\ todo = {}
    BY <1>5 DEF BatchDone
  <2>2. \A r \in Subs : ~Due(r)
    BY <2>1 DEF Due
  <2> QED BY <1>1, <2>1, <2>2 DEF GapInv, UpToDate, Had
<1> QED BY <1>2, <1>3, <1>4, <1>5 DEF DeliveryLoop

\* Every step keeps the callbacks up to date.
LEMMA StepGaps == TypeOK /\ OrderInv /\ OffsetInv /\ GapInv /\ [Next]_vars => GapInv'
<1> SUFFICES ASSUME TypeOK, OrderInv, OffsetInv, GapInv, [Next]_vars PROVE UpToDate'
  BY StepRun DEF GapInv
<1>1. CASE \E t \in Tables : PublishEvent(t)
  BY <1>1, QuietGaps DEF PublishEvent, Notified, GapInv
<1>2. ASSUME NEW s \in Subs, Subscribers(s) \/ Task(s) PROVE UpToDate'
  BY <1>2, SubscriberGaps, TaskGaps
<1>3. CASE SpuriousWake \/ Stop \/ StopNotify \/ StopJoin
  BY <1>3, QuietGaps DEF SpuriousWake, Stop, StopNotify, StopJoin, Notified, GapInv
<1>4. CASE Start
  <2>1. dpc = "stopped"
    BY <1>4 DEF Start, OrderInv, OneDeliveryThread
  <2> QED BY <1>4, <2>1, QuietGaps DEF Start, GapInv
<1>5. CASE UNCHANGED vars
  BY <1>5, QuietGaps DEF vars, GapInv
<1> QED BY <1>1, <1>2, <1>3, <1>4, <1>5, DeliveryGaps DEF Next

\* No event is skipped: a callback with an open filter has been given, or has thrown
\* on, every event since its registration that the delivery thread is past, through
\* Stop and Start, for any number of events and subscribers.
THEOREM NothingSkipped == Spec => []NoGap
<1>1. Init => OffsetInv
  BY DEF Init, OffsetInv, CalledHaveEvent, UnusedUntouched, OffsetTracksDelivery
<1>2. Init => GapInv
  <2> SUFFICES ASSUME Init PROVE GapInv
    OBVIOUS
  <2>1. UnbrokenRun
    <3>1. event.offset = 0 /\ nextOffset = 1 /\ events = <<>>
      BY DEF Init, NoEvent
    <3>2. Len(<<>>) = 0 /\ DOMAIN <<>> = {}
      OBVIOUS
    <3>3. event.offset = nextOffset - Len(events) - 1
      <4>1. Len(events) = 0
        BY <3>1, <3>2, Zenon
      <4>2. 0 = 1 - 0 - 1
        OBVIOUS
      <4> QED BY <3>1, <4>1, <4>2, Zenon
    <3>4. DOMAIN events = {}
      BY <3>1, <3>2
    <3> QED BY <3>3, <3>4 DEF UnbrokenRun
  <2>2. UpToDate
    BY DEF Init, UpToDate
  <2> QED BY <2>1, <2>2 DEF GapInv
<1> QED BY <1>1, <1>2, InitTypes, StepTypes, InitOrder, StepOrder, StepOffsets, StepGaps,
           GapInvNoGap, PTL DEF Spec
=============================================================================
