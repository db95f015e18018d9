------------------------- MODULE WasmRuntimeProofs -------------------------
(***************************************************************************)
(* Proofs about WasmRuntime for any threads, modules, guests and requests,   *)
(* in the order                                                              *)
(*   - the ticks in flight, what is quiet when the engine goes, and the      *)
(*     modules that a boot restores;                                         *)
(*   - what a name is bound to after any deployments, failures and crashes,  *)
(*     what a failed call leaves in the feed, and that calls of one module   *)
(*     object do not lose each other's updates;                              *)
(*   - who may be given an event while connections come and go, and that no  *)
(*     event is lost or given out of order between the changefeed and the    *)
(*     callback.                                                             *)
(***************************************************************************)
EXTENDS WasmRuntime, FiniteSetTheorems, TLAPS

USE DEF engineVars, subsVars, storeVars, tickVars, serverVars

-----------------------------------------------------------------------------
(***************************************************************************)
(* The tick scheduler.                                                       *)
(***************************************************************************)
MainStates == {"restore", "listen", "serve", "grpc", "join_ticks", "join_subs", "engine", "end"}

MainType == main = [at |-> main.at, left |-> main.left] /\ main.at \in MainStates

TickTypes ==
  /\ entries \subseteq Names
  /\ in_flight \in [Names -> BOOLEAN]
  /\ tick_queue \in Seq(Names)
  /\ dispatcher \in [at : {"off", "loop", "push", "ended"}, entry : Names \union {NoName},
                     left : SUBSET Names]
  /\ worker \in [Workers -> [at : {"off", "test", "block", "wait", "run", "ended"},
                             entry : Names \union {NoName}]]

\* Only a worker that runs has an entry, and a dispatcher about to push does.
HasEntry ==
  /\ dispatcher.at = "push" => dispatcher.entry \in Names
  /\ \A w \in Workers : worker[w].at = "run" <=> worker[w].entry \in Names

\* Before the scheduler is started nothing of it moves; after it was joined nothing does.
TicksOff ==
  main.at \in {"restore", "listen"} =>
    /\ dispatcher.at = "off" /\ tick_queue = <<>>
    /\ \A n \in Names : ~in_flight[n]
    /\ \A w \in Workers : worker[w].at = "off"

TicksOver ==
  main.at \in {"join_subs", "engine", "end"} =>
    \A w \in Workers : worker[w].at \in {"off", "ended"}

\* The places of a value in a queue.
At(q, x) == {i \in 1..Len(q) : q[i] = x}

Pushing(n) == dispatcher.at = "push" /\ dispatcher.entry = n
Queued(n) == At(tick_queue, n)
Running(n) == {w \in Workers : worker[w].entry = n}

\* TickCoalesced without counting: where the one tick of an entry in flight is.
OneTick ==
  \A n \in Names :
    IF in_flight[n]
    THEN \/ Pushing(n) /\ Queued(n) = {} /\ Running(n) = {}
         \/ ~Pushing(n) /\ (\E i \in 1..Len(tick_queue) : Queued(n) = {i}) /\ Running(n) = {}
         \/ ~Pushing(n) /\ Queued(n) = {} /\ \E w \in Workers : Running(n) = {w}
    ELSE ~Pushing(n) /\ Queued(n) = {} /\ Running(n) = {}

TickInv == MainType /\ TickTypes /\ HasEntry /\ TicksOff /\ TicksOver /\ OneTick

\* What a step may be to the scheduler: one of its own, or nothing but a move of main.
MainMoves ==
  \/ UNCHANGED main
  \/ main.at = "restore" /\ main' = [main EXCEPT !.left = main'.left]
  \/ MainStep("restore", "listen") /\ Loads(Main, "none") /\ UNCHANGED load
  \/ MainStep("serve", "grpc")
  \/ MainStep("join_ticks", "join_subs") /\ Tick!TickJoined
  \/ MainStep("join_subs", "engine") /\ SubsJoined /\ UNCHANGED wthread
  \/ MainStep("engine", "end")

TickStep ==
  \/ UNCHANGED tickVars /\ MainMoves
  \/ Restart \/ StartTicks \/ GrpcStopped
  \/ UNCHANGED main /\ \E n \in Names : Tick!Dispatch(n)
  \/ UNCHANGED main /\ (Tick!Push \/ Tick!DispatchEnds)
  \/ /\ UNCHANGED main
     /\ \E w \in Workers : \/ Tick!WorkerTest(w)
                           \/ Tick!WorkerBlocks(w)
                           \/ Tick!WorkerDone(w) /\ Release(w)

\* Every step is one of these.
LEMMA TickSteps == Next => TickStep
<1> SUFFICES ASSUME Next PROVE TickStep
  OBVIOUS
<1>1. CASE Server
  <2>1. CASE Restart \/ StartTicks \/ GrpcStopped
    BY <2>1 DEF TickStep
  <2>2. CASE Restored
    BY <2>2 DEF Restored, TickStep, MainMoves
  <2>3. CASE Listen
    BY <2>3 DEF Listen, TickStep, MainMoves, MainStep
  <2>4. CASE main.at = "restore" /\ \E n \in main.left : Restore(n)
    BY <2>4 DEF Restore, TickStep, MainMoves
  <2>5. CASE ShutdownBegins
    BY <2>5 DEF ShutdownBegins, TickStep, MainMoves
  <2>6. CASE TicksStopped
    BY <2>6 DEF TicksStopped, TickStep, MainMoves
  <2>7. CASE SubsStopped
    BY <2>7 DEF SubsStopped, TickStep, MainMoves
  <2>8. CASE EngineStopped
    BY <2>8 DEF EngineStopped, TickStep, MainMoves
  <2> QED BY <1>1, <2>1, <2>2, <2>3, <2>4, <2>5, <2>6, <2>7, <2>8 DEF Server
<1>2. CASE EngineNext \/ LogFails \/ Snapshot \/ Subscriptions
  BY <1>2 DEF EngineNext, LogFails, Snapshot, Subscriptions, TickStep, MainMoves
<1>3. CASE Ticks
  <2>1. CASE TickMoves
    BY <2>1 DEF TickMoves, TickStep
  <2>2. CASE \E n \in Names : TickDue(n)
    BY <2>2 DEF TickDue, TickStep
  <2>3. CASE \E w \in Workers : TickCalls(w)
    BY <2>3 DEF TickCalls, TickStep, MainMoves
  <2>4. CASE \E w \in Workers : TickReturns(w)
    BY <2>4 DEF TickReturns, TickStep
  <2> QED BY <1>3, <2>1, <2>2, <2>3, <2>4 DEF Ticks
<1>4. CASE \E h \in Handlers : Handler(h)
  <2> PICK h \in Handlers : Handler(h)
    BY <1>4
  <2>1. UNCHANGED tickVars /\ UNCHANGED main
    BY DEF Handler, DeployLoaded, DeploySaves, DeployWrites, DeployDone, UndeployRemoves,
           CallReturns, DeployModule, UndeployModule, CallReducer
  <2> QED BY <2>1 DEF TickStep, MainMoves
<1>5. CASE \E c \in Clients : Connected(c) \/ \E q \in Requests : Subscribes(c, q)
  BY <1>5 DEF Connected, Subscribes, TickStep, MainMoves
<1> QED BY <1>1, <1>2, <1>3, <1>4, <1>5 DEF Next

\* Lengths and elements of the queue after a push or a pop.
LEMMA QueueAppend ==
  ASSUME NEW S, NEW q \in Seq(S), NEW x \in S
  PROVE /\ Append(q, x) \in Seq(S) /\ Len(Append(q, x)) = Len(q) + 1 /\ Len(q) \in Nat
        /\ \A i \in 1..Len(q) : Append(q, x)[i] = q[i]
        /\ Append(q, x)[Len(q) + 1] = x
  OBVIOUS

LEMMA QueueTail ==
  ASSUME NEW S, NEW q \in Seq(S), q # <<>>
  PROVE /\ Tail(q) \in Seq(S) /\ Len(Tail(q)) = Len(q) - 1 /\ Len(q) \in Nat /\ Len(q) >= 1
        /\ Head(q) = q[1] /\ Head(q) \in S
        /\ \A i \in 1..Len(Tail(q)) : Tail(q)[i] = q[i + 1]
  OBVIOUS

\* Where a value is in a queue, after a push and after a pop.
LEMMA AtAppend ==
  ASSUME NEW S, NEW q \in Seq(S), NEW x \in S, NEW y
  PROVE At(Append(q, x), y) = IF x = y THEN At(q, y) \union {Len(q) + 1} ELSE At(q, y)
<1>1. /\ Len(Append(q, x)) = Len(q) + 1 /\ Len(q) \in Nat
      /\ \A i \in 1..Len(q) : Append(q, x)[i] = q[i]
      /\ Append(q, x)[Len(q) + 1] = x
  BY QueueAppend
<1> QED BY <1>1 DEF At

LEMMA AtTail ==
  ASSUME NEW S, NEW q \in Seq(S), q # <<>>, NEW y
  PROVE /\ \A i : i \in At(Tail(q), y) <=> i \in Nat \ {0} /\ i + 1 \in At(q, y)
        /\ 1 \in At(q, y) <=> Head(q) = y
<1>1. /\ Len(Tail(q)) = Len(q) - 1 /\ Len(q) \in Nat /\ Len(q) >= 1 /\ Head(q) = q[1]
      /\ \A i \in 1..Len(Tail(q)) : Tail(q)[i] = q[i + 1]
  BY QueueTail
<1> QED BY <1>1 DEF At

LEMMA AtRange == ASSUME NEW S, NEW q \in Seq(S), NEW y PROVE At(q, y) \subseteq 1..Len(q)
  BY DEF At

\* The initial state has the scheduler's invariant.
LEMMA TickInit == Init => TickInv
<1> SUFFICES ASSUME Init PROVE TickInv
  OBVIOUS
<1> USE DEF Init, Tick!TickInit
<1>1. MainType
  BY DEF MainType, MainStates
<1>2. TickTypes
  BY DEF TickTypes
<1>3. HasEntry
  BY NamesAssumption DEF HasEntry
<1>4. TicksOff /\ TicksOver
  BY DEF TicksOff, TicksOver
<1>5. OneTick
  BY NamesAssumption DEF OneTick, Pushing, Queued, Running, At
<1> QED BY <1>1, <1>2, <1>3, <1>4, <1>5 DEF TickInv

\* So has every step.
LEMMA TickStepInv == TickInv /\ TickStep => TickInv'
<1> SUFFICES ASSUME TickInv, TickStep PROVE TickInv'
  OBVIOUS
<1> USE NamesAssumption DEF TickInv
<1>1. CASE UNCHANGED tickVars /\ MainMoves
  <2>1. MainType'
    BY <1>1 DEF MainType, MainStates, MainMoves, MainStep
  <2>2. TickTypes' /\ HasEntry' /\ OneTick'
    BY <1>1 DEF TickTypes, HasEntry, OneTick, Pushing, Queued, Running
  <2>3. TicksOff' /\ TicksOver'
    BY <1>1 DEF MainType, MainStates, MainMoves, MainStep, TicksOff, TicksOver, Tick!TickJoined
  <2> QED BY <2>1, <2>2, <2>3
<1>2. CASE Restart
  <2>1. MainType' /\ TickTypes' /\ HasEntry' /\ TicksOff' /\ TicksOver'
    BY <1>2 DEF Restart, MainType, MainStates, TickTypes, HasEntry, TicksOff, TicksOver
  <2>2. OneTick'
    BY <1>2 DEF Restart, OneTick, Pushing, Queued, Running, At
  <2> QED BY <2>1, <2>2
<1>3. CASE StartTicks
  <2> USE <1>3 DEF StartTicks, Tick!TickStart
  <2>1. MainType' /\ TickTypes' /\ HasEntry' /\ TicksOff' /\ TicksOver'
    BY DEF MainType, MainStates, TickTypes, HasEntry, TicksOff, TicksOver, Loaded
  <2>2. \A n \in Names : ~in_flight'[n] /\ ~Pushing(n)' /\ Queued(n)' = {} /\ Running(n)' = {}
    BY DEF TicksOff, Pushing, Queued, Running, At
  <2>3. OneTick'
    BY <2>2 DEF OneTick
  <2> QED BY <2>1, <2>3
<1>4. CASE GrpcStopped
  <2> USE <1>4 DEF GrpcStopped, MainStep, Tick!TickStop
  <2>1. \A w \in Workers : worker'[w].entry = worker[w].entry
                          /\ (worker'[w].at = "run" <=> worker[w].at = "run")
    BY DEF TickTypes
  <2>2. MainType' /\ TickTypes' /\ TicksOff' /\ TicksOver'
    BY DEF MainType, MainStates, TickTypes, TicksOff, TicksOver
  <2>3. HasEntry'
    BY <2>1 DEF HasEntry
  <2>4. \A n \in Names : Pushing(n)' = Pushing(n) /\ Queued(n)' = Queued(n) /\ Running(n)' = Running(n)
    BY <2>1 DEF Pushing, Queued, Running
  <2>5. OneTick'
    BY <2>4 DEF OneTick
  <2> QED BY <2>2, <2>3, <2>5
<1>5. ASSUME NEW n \in Names, UNCHANGED main, Tick!Dispatch(n) PROVE TickInv'
  <2> USE <1>5 DEF Tick!Dispatch
  <2>1. MainType' /\ TickTypes' /\ HasEntry' /\ TicksOff' /\ TicksOver'
    BY DEF MainType, TickTypes, HasEntry, TicksOff, TicksOver
  <2>2. Pushing(n)' /\ \A m \in Names \ {n} : ~Pushing(m)' /\ ~Pushing(m)
    BY DEF Pushing
  <2>3. \A m \in Names : Queued(m)' = Queued(m) /\ Running(m)' = Running(m)
    BY DEF Queued, Running
  <2>4. \A m \in Names : in_flight'[m] = IF m = n THEN TRUE ELSE in_flight[m]
    BY DEF TickTypes
  <2>5. tick_queue' = tick_queue
    OBVIOUS
  <2>6. OneTick'
    BY <2>2, <2>3, <2>4, <2>5, Zenon DEF OneTick
  <2> QED BY <2>1, <2>6
<1>6. CASE UNCHANGED main /\ Tick!Push
  <2> DEFINE q == tick_queue
  <2>0. PICK n \in Names : n = dispatcher.entry
    BY <1>6 DEF Tick!Push, HasEntry
  <2>1. /\ q \in Seq(Names) /\ q' = Append(q, n)
        /\ dispatcher.at = "push" /\ dispatcher'.at = "loop" /\ dispatcher'.entry = NoName
        /\ dispatcher' \in [at : {"loop"}, entry : {NoName}, left : SUBSET Names]
        /\ UNCHANGED <<entries, running, in_flight, main>>
    BY <1>6, <2>0 DEF Tick!Push, TickTypes
  <2>2. /\ q' \in Seq(Names) /\ Len(q') = Len(q) + 1 /\ Len(q) \in Nat
        /\ \A i \in 1..Len(q) : q'[i] = q[i]
        /\ q'[Len(q) + 1] = n
    BY <2>1, QueueAppend
  <2> HIDE DEF q
  <2>3. worker' \in [Workers -> [at : {"off", "test", "block", "wait", "run", "ended"},
                                 entry : Names \union {NoName}]]
    BY <1>6 DEF Tick!Push, TickTypes
  <2>4. /\ \A w \in Workers : worker'[w].entry = worker[w].entry
        /\ \A w \in Workers : \/ worker'[w].at = worker[w].at
                              \/ worker[w].at = "wait" /\ worker'[w].at = "test"
    <3>1. CASE UNCHANGED worker
      BY <3>1
    <3>2. CASE \E v \in Workers : worker[v].at = "wait" /\ worker' = [worker EXCEPT ![v].at = "test"]
      <4> PICK v \in Workers : worker[v].at = "wait" /\ worker' = [worker EXCEPT ![v].at = "test"]
        BY <3>2
      <4> QED BY DEF TickTypes
    <3> QED BY <1>6, <3>1, <3>2 DEF Tick!Push
  <2>5. MainType' /\ TickTypes' /\ HasEntry' /\ TicksOff' /\ TicksOver'
    <3>1. MainType' /\ TickTypes'
      BY <2>1, <2>2, <2>3 DEF MainType, TickTypes, q
    <3>2. HasEntry'
      BY <2>1, <2>4 DEF HasEntry
    <3>3. TicksOff' /\ TicksOver'
      BY <2>1, <2>4 DEF TicksOff, TicksOver
    <3> QED BY <3>1, <3>2, <3>3
  <2>6. \A m \in Names : ~Pushing(m)' /\ Running(m)' = Running(m) /\ (m # n => Queued(m)' = Queued(m) /\ ~Pushing(m))
    <3>1. \A m \in Names : ~Pushing(m)' /\ (m # n => ~Pushing(m))
      BY <2>0, <2>1 DEF Pushing
    <3>2. \A m \in Names : Running(m)' = Running(m)
      BY <2>4 DEF Running
    <3>3. \A m \in Names : m # n => Queued(m)' = Queued(m)
      BY <2>1, AtAppend DEF Queued, q
    <3> QED BY <3>1, <3>2, <3>3
  <2>7. Pushing(n) /\ Queued(n) = {} => Queued(n)' = {Len(q) + 1}
    BY <2>1, AtAppend DEF Queued, q
  <2>8. Pushing(n) /\ in_flight[n] /\ Queued(n) = {} /\ Running(n) = {}
    BY <2>0, <2>1 DEF OneTick, Pushing
  <2>9. \A m \in Names : in_flight'[m] = in_flight[m] /\ 1..Len(q) \subseteq 1..Len(q')
    BY <2>1, <2>2
  <2>10. Len(q) + 1 \in 1..Len(q')
    BY <2>2
  <2>11. ASSUME NEW m \in Names, m # n
         PROVE IF in_flight'[m]
               THEN \/ Pushing(m)' /\ Queued(m)' = {} /\ Running(m)' = {}
                    \/ ~Pushing(m)' /\ (\E i \in 1..Len(q') : Queued(m)' = {i}) /\ Running(m)' = {}
                    \/ ~Pushing(m)' /\ Queued(m)' = {} /\ \E w \in Workers : Running(m)' = {w}
               ELSE ~Pushing(m)' /\ Queued(m)' = {} /\ Running(m)' = {}
    BY <2>6, <2>9, <2>11, Zenon DEF OneTick, q
  <2>12. in_flight'[n] /\ ~Pushing(n)' /\ Queued(n)' = {Len(q) + 1} /\ Running(n)' = {}
    BY <2>1, <2>6, <2>7, <2>8, <2>9
  <2>13. OneTick'
    BY <2>10, <2>11, <2>12, Zenon DEF OneTick, q
  <2> QED BY <2>5, <2>13
<1>7. CASE UNCHANGED main /\ Tick!DispatchEnds
  <2> USE <1>7 DEF Tick!DispatchEnds
  <2>1. MainType' /\ TickTypes' /\ HasEntry' /\ TicksOff' /\ TicksOver'
    BY DEF MainType, TickTypes, HasEntry, TicksOff, TicksOver
  <2>2. \A m \in Names : Pushing(m)' = Pushing(m) /\ Queued(m)' = Queued(m) /\ Running(m)' = Running(m)
    BY DEF Pushing, Queued, Running, TickTypes
  <2>3. OneTick'
    BY <2>2 DEF OneTick
  <2> QED BY <2>1, <2>3
<1>8. ASSUME NEW w \in Workers, UNCHANGED main, Tick!WorkerTest(w), tick_queue # <<>>
      PROVE TickInv'
  <2> DEFINE q == tick_queue
  <2>0. PICK n \in Names : n = Head(q)
    BY <1>8, QueueTail DEF TickTypes
  <2>1. /\ q' \in Seq(Names) /\ Len(q') = Len(q) - 1 /\ Len(q) \in Nat /\ Len(q) >= 1 /\ n = q[1]
        /\ q' = Tail(q) /\ q # <<>> /\ q \in Seq(Names)
    <3>1. q' = Tail(q) /\ q # <<>> /\ q \in Seq(Names)
      BY <1>8 DEF Tick!WorkerTest, TickTypes
    <3> HIDE DEF q
    <3> QED BY <2>0, <3>1, QueueTail
  <2>2. /\ worker[w].at = "test" /\ worker' = [worker EXCEPT ![w] = [at |-> "run", entry |-> n]]
        /\ UNCHANGED <<entries, running, in_flight, dispatcher, main>>
    BY <1>8, <2>0 DEF Tick!WorkerTest
  <2> HIDE DEF q
  <2>3. MainType' /\ TickTypes' /\ HasEntry' /\ TicksOff' /\ TicksOver'
    BY <2>1, <2>2 DEF MainType, TickTypes, HasEntry, TicksOff, TicksOver, q
  <2>4. worker[w].entry \notin Names
    BY <2>2 DEF HasEntry
  <2>5. \A m \in Names : /\ Pushing(m)' = Pushing(m)
                         /\ Running(m)' = IF m = n THEN Running(m) \union {w} ELSE Running(m)
    BY <2>2, <2>4 DEF Pushing, Running, TickTypes
  <2>6. ASSUME NEW m \in Names, NEW i \in 1..Len(q), Queued(m) = {i}
        PROVE IF m = n THEN Queued(m)' = {} ELSE i - 1 \in 1..Len(q') /\ Queued(m)' = {i - 1}
    <3>1. \A j : j \in At(q', m) <=> j \in Nat \ {0} /\ j + 1 \in {i}
      BY <2>1, <2>6, AtTail DEF Queued, q
    <3>2. i = 1 <=> n = m
      BY <2>0, <2>1, <2>6, AtTail DEF Queued, q
    <3> QED BY <2>1, <3>1, <3>2 DEF Queued, q
  <2>7. ASSUME NEW m \in Names, Queued(m) = {}
        PROVE Queued(m)' = {} /\ m # n
    BY <2>0, <2>1, <2>7, AtTail DEF Queued, q
  <2>8. ASSUME NEW m \in Names
        PROVE IF in_flight'[m]
              THEN \/ Pushing(m)' /\ Queued(m)' = {} /\ Running(m)' = {}
                   \/ ~Pushing(m)' /\ (\E i \in 1..Len(q') : Queued(m)' = {i}) /\ Running(m)' = {}
                   \/ ~Pushing(m)' /\ Queued(m)' = {} /\ \E v \in Workers : Running(m)' = {v}
              ELSE ~Pushing(m)' /\ Queued(m)' = {} /\ Running(m)' = {}
    <3>1. CASE Queued(m) = {}
      <4>1. Queued(m)' = {} /\ Running(m)' = Running(m) /\ Pushing(m)' = Pushing(m) /\ in_flight'[m] = in_flight[m]
        BY <2>2, <2>5, <2>7, <3>1
      <4> QED BY <4>1, <3>1, Zenon DEF OneTick
    <3>2. CASE Queued(m) # {}
      <4>1. /\ in_flight[m] /\ ~Pushing(m) /\ Running(m) = {}
            /\ \E i \in 1..Len(q) : Queued(m) = {i}
        BY <3>2, Zenon DEF OneTick, q
      <4>2. PICK i \in 1..Len(q) : Queued(m) = {i}
        BY <4>1
      <4>3. in_flight'[m] /\ ~Pushing(m)'
        BY <2>2, <2>5, <4>1
      <4>4. CASE m = n
        <5>1. Queued(m)' = {}
          BY <2>6, <4>2, <4>4
        <5>2. Running(m)' = {w}
          BY <2>5, <4>1, <4>4
        <5> QED BY <4>3, <5>1, <5>2
      <4>5. CASE m # n
        <5>1. i - 1 \in 1..Len(q') /\ Queued(m)' = {i - 1}
          BY <2>6, <4>2, <4>5
        <5>2. Running(m)' = {}
          BY <2>5, <4>1, <4>5
        <5> QED BY <4>3, <5>1, <5>2
      <4> QED BY <4>4, <4>5
    <3> QED BY <3>1, <3>2
  <2>9. OneTick'
    BY <2>8, Zenon DEF OneTick, q
  <2> QED BY <2>3, <2>9
<1>9. ASSUME NEW w \in Workers, UNCHANGED main,
             \/ Tick!WorkerTest(w) /\ tick_queue = <<>>
             \/ Tick!WorkerBlocks(w)
      PROVE TickInv'
  <2>1. /\ worker[w].at \in {"test", "block"}
        /\ \E at \in {"block", "ended", "wait"} : worker' = [worker EXCEPT ![w].at = at]
        /\ UNCHANGED <<entries, running, in_flight, tick_queue, dispatcher, main>>
    BY <1>9 DEF Tick!WorkerTest, Tick!WorkerBlocks
  <2>2. MainType' /\ TickTypes' /\ HasEntry' /\ TicksOff' /\ TicksOver'
    BY <2>1 DEF MainType, TickTypes, HasEntry, TicksOff, TicksOver
  <2>3. \A m \in Names : Pushing(m)' = Pushing(m) /\ Queued(m)' = Queued(m) /\ Running(m)' = Running(m)
    BY <2>1 DEF Pushing, Queued, Running, TickTypes
  <2>4. OneTick'
    BY <2>1, <2>3 DEF OneTick
  <2> QED BY <2>2, <2>4
<1>10. ASSUME NEW w \in Workers, UNCHANGED main, Tick!WorkerDone(w)
       PROVE TickInv'
  <2>0. PICK n \in Names : n = worker[w].entry
    BY <1>10 DEF Tick!WorkerDone, HasEntry
  <2>1. /\ worker[w].at = "run" /\ in_flight' = [in_flight EXCEPT ![n] = FALSE]
        /\ worker' = [worker EXCEPT ![w] = [at |-> "test", entry |-> NoName]]
        /\ UNCHANGED <<entries, running, tick_queue, dispatcher, main>>
    BY <1>10, <2>0 DEF Tick!WorkerDone
  <2>2. MainType' /\ TickTypes' /\ HasEntry' /\ TicksOff' /\ TicksOver'
    BY <2>1 DEF MainType, TickTypes, HasEntry, TicksOff, TicksOver
  <2>3. w \in Running(n)
    BY <2>0 DEF Running
  <2>4. in_flight[n] /\ ~Pushing(n) /\ Queued(n) = {} /\ Running(n) = {w}
    BY <2>1, <2>3 DEF OneTick
  <2>5. \A m \in Names : /\ Pushing(m)' = Pushing(m) /\ Queued(m)' = Queued(m)
                         /\ Running(m)' = Running(m) \ {w}
                         /\ in_flight'[m] = IF m = n THEN FALSE ELSE in_flight[m]
    BY <2>1 DEF Pushing, Queued, Running, TickTypes
  <2>6. \A m \in Names \ {n} : w \notin Running(m)
    BY <2>0 DEF Running
  <2>7. \A m \in Names \ {n} : Running(m)' = Running(m)
    <3>1. \A S : w \notin S => S \ {w} = S
      OBVIOUS
    <3> QED BY <2>5, <2>6, <3>1, Zenon
  <2>8. OneTick'
    <3> SUFFICES ASSUME NEW m \in Names
                 PROVE IF in_flight'[m]
                       THEN \/ Pushing(m)' /\ Queued(m)' = {} /\ Running(m)' = {}
                            \/ ~Pushing(m)' /\ (\E i \in 1..Len(tick_queue') : Queued(m)' = {i}) /\ Running(m)' = {}
                            \/ ~Pushing(m)' /\ Queued(m)' = {} /\ \E v \in Workers : Running(m)' = {v}
                       ELSE ~Pushing(m)' /\ Queued(m)' = {} /\ Running(m)' = {}
      BY DEF OneTick
    <3>1. CASE m = n
      BY <2>4, <2>5, <3>1
    <3>2. CASE m # n
      <4>1. /\ Pushing(m)' = Pushing(m) /\ Queued(m)' = Queued(m) /\ Running(m)' = Running(m)
            /\ in_flight'[m] = in_flight[m] /\ tick_queue' = tick_queue
        BY <2>1, <2>5, <2>7, <3>2
      <4> QED BY <4>1, Zenon DEF OneTick
    <3> QED BY <3>1, <3>2
  <2> QED BY <2>2, <2>8
<1> QED
  BY <1>1, <1>2, <1>3, <1>4, <1>5, <1>6, <1>7, <1>8, <1>9, <1>10 DEF TickStep

\* Stuttering leaves it alone.
LEMMA TickInductive == TickInv /\ [Next]_vars => TickInv'
<1>1. ASSUME TickInv, UNCHANGED vars PROVE TickInv'
  <2>1. UNCHANGED <<main, entries, in_flight, tick_queue, dispatcher, worker>>
    BY <1>1 DEF vars
  <2>2. (MainType /\ TickTypes /\ HasEntry)'
    BY <1>1, <2>1 DEF TickInv, MainType, TickTypes, HasEntry
  <2>3. (TicksOff /\ TicksOver)'
    BY <1>1, <2>1 DEF TickInv, TicksOff, TicksOver
  <2>4. OneTick'
    BY <1>1, <2>1 DEF TickInv, OneTick, Pushing, Queued, Running
  <2> QED BY <2>2, <2>3, <2>4 DEF TickInv
<1> QED BY <1>1, TickSteps, TickStepInv

\* The invariant of the scheduler in every state that the server reaches.
LEMMA TickAlways == Spec => []TickInv
  BY TickInit, TickInductive, PTL DEF Spec

\* tick_scheduler.cpp, in_flight: an entry is in flight exactly while one tick of it
\* is about to be queued, queued or with a worker, through starts, stops and crashes.
THEOREM TicksCoalesced == Spec => []TickCoalesced
<1>1. TickInv => TickCoalesced
  <2> SUFFICES ASSUME TickInv, NEW n \in Names
               PROVE (IF Pushing(n) THEN 1 ELSE 0) + Cardinality(Queued(n)) + Cardinality(Running(n))
                     = IF in_flight[n] THEN 1 ELSE 0
    BY DEF TickCoalesced, Pushing, Queued, Running, At
  <2>1. Cardinality({}) = 0
    BY FS_EmptySet
  <2>2. \A x : Cardinality({x}) = 1
    BY FS_Singleton
  <2>3. CASE in_flight[n] /\ Pushing(n) /\ Queued(n) = {} /\ Running(n) = {}
    BY <2>1, <2>3
  <2>4. CASE in_flight[n] /\ ~Pushing(n) /\ (\E i : Queued(n) = {i}) /\ Running(n) = {}
    <3>1. Cardinality(Queued(n)) = 1 /\ Cardinality(Running(n)) = 0
      BY <2>1, <2>2, <2>4, Zenon
    <3> QED BY <2>4, <3>1
  <2>5. CASE in_flight[n] /\ ~Pushing(n) /\ Queued(n) = {} /\ \E w : Running(n) = {w}
    <3>1. Cardinality(Queued(n)) = 0 /\ Cardinality(Running(n)) = 1
      BY <2>1, <2>2, <2>5, Zenon
    <3> QED BY <2>5, <3>1
  <2>6. CASE ~in_flight[n] /\ ~Pushing(n) /\ Queued(n) = {} /\ Running(n) = {}
    BY <2>1, <2>6
  <2> QED BY <2>3, <2>4, <2>5, <2>6, Zenon DEF TickInv, OneTick
<1> QED BY <1>1, TickAlways, PTL

-----------------------------------------------------------------------------
(***************************************************************************)
(* Who calls the engine, and when.                                           *)
(***************************************************************************)
Begins(a, fn) ==
  /\ exec[a].at \in {"idle", "done"}
  /\ \E o : \E prog \in Guest(fn) : exec' = [exec EXCEPT ![a] = Frame(o, fn, prog, made.n + 1)]
  /\ made' = [made EXCEPT !.n = @ + 1]

Refused(a) ==
  /\ exec[a].at = "idle"
  /\ exec' = [exec EXCEPT ![a] = [at |-> "failed", n |-> 0]]
  /\ UNCHANGED made

Returns(a) == Ended(a) /\ exec' = [exec EXCEPT ![a] = Idle] /\ UNCHANGED made

\* A thread with no call under way begins one only in its own part of the server.
MayCall(a) ==
  \/ exec[a].at = "done"
  \/ a \in Handlers /\ Serving
  \/ a \in Workers /\ worker[a].at = "run" /\ UNCHANGED tickVars
  \/ a = SubThread /\ wthread.at \in {"filter", "transform"} /\ UNCHANGED wthread
  \/ a \in Clients /\ client'[a].at \in {"connected", "leaving", "initial"}
  \/ a = Main /\ main.at = "restore" /\ load'[Main].at = "init"

CallStep ==
  \/ Restart
  \/ UNCHANGED <<exec, made, feed, rows, writer>>
  \/ \E a \in Actors : ExecNext(a) /\ UNCHANGED <<load, subsVars, storeVars, tickVars, serverVars>>
  \/ /\ UNCHANGED <<feed, rows, writer>>
     /\ \E a \in Actors : \/ MayCall(a) /\ \E fn \in FunctionNames : Begins(a, fn)
                          \/ MayCall(a) /\ Refused(a)
                          \/ Returns(a)

\* exec, load, deploy and client are functions.
CallTypes ==
  /\ exec = [a \in Actors |-> exec[a]]
  /\ load = [a \in Actors |-> load[a]]
  /\ deploy = [h \in Handlers |-> deploy[h]]
  /\ client = [c \in Clients |-> client[c]]
  /\ \A c \in Clients : "at" \in DOMAIN client[c]

\* A connection's thread is in a call only while a hook or initial data are asked for.
ClientsIdle ==
  \A c \in Clients : client[c].at \in {"out", "in", "gone"} => exec[c].at = "idle"

\* ExecuteReducer begins a call, or is refused at once.
LEMMA ExecuteReducerBegins ==
  ASSUME NEW a, NEW n, NEW fn, exec[a].at = "idle", ExecuteReducer(a, n, fn)
  PROVE Begins(a, fn) \/ Refused(a)
  BY DEF ExecuteReducer, Execute, Begins, Refused

\* LoadModule begins with a call of __init, or fails at once.
LEMMA LoadBeginBegins ==
  ASSUME CallTypes, NEW a \in Actors, NEW n, NEW m, LoadBegin(a, n, m)
  PROVE /\ (Begins(a, "__init") /\ load'[a].at = "init") \/ UNCHANGED <<exec, made>>
        /\ UNCHANGED <<feed, rows, writer>>
  BY DEF LoadBegin, Execute, Begins, CallTypes

\* Every step is one of these for the calls.
LEMMA CallSteps == CallTypes /\ ClientsIdle /\ Next => CallStep
<1> SUFFICES ASSUME CallTypes, ClientsIdle, Next PROVE CallStep
  OBVIOUS
<1> USE ActorsAssumption DEF OnlyExec, FunctionNames
<1>1. CASE Server
  <2>1. CASE Restart
    BY <2>1 DEF CallStep
  <2>2. CASE main.at = "restore" /\ \E n \in main.left : Restore(n)
    <3> PICK n \in main.left : Restore(n)
      BY <2>2
    <3>1. \E m : LoadBegin(Main, n, m)
      BY DEF Restore
    <3> QED BY <2>2, <3>1, LoadBeginBegins DEF CallStep, MayCall
  <2>3. CASE Restored \/ Listen \/ StartTicks \/ ShutdownBegins \/ GrpcStopped \/ TicksStopped
             \/ SubsStopped \/ EngineStopped
    BY <2>3 DEF Restored, Listen, StartTicks, ShutdownBegins, GrpcStopped, TicksStopped,
                SubsStopped, EngineStopped, CallStep
  <2> QED BY <1>1, <2>1, <2>2, <2>3 DEF Server
<1>2. CASE EngineNext
  <2> PICK a \in Actors : ExecNext(a) \/ LoadNext(a)
    BY <1>2 DEF EngineNext
  <2>1. UNCHANGED <<subsVars, storeVars, tickVars, serverVars>>
    BY <1>2 DEF EngineNext
  <2>2. CASE ExecNext(a)
    <3>1. UNCHANGED load
      BY <2>2 DEF ExecNext, Lock, HostCall, Trap, Return, CreateTables, StageWrite, Commit, Publish
    <3> QED BY <2>1, <2>2, <3>1 DEF CallStep
  <2>3. CASE LoadInit(a)
    <3>1. \/ Returns(a)
          \/ exec[a].at = "done" /\ Begins(a, "__migrate")
      BY <2>3 DEF LoadInit, Returns, Begins
    <3>2. UNCHANGED <<feed, rows, writer>>
      BY <2>3 DEF LoadInit
    <3> QED BY <3>1, <3>2 DEF CallStep, MayCall
  <2>4. CASE LoadMigrate(a)
    BY <2>4 DEF LoadMigrate, Returns, CallStep
  <2>5. CASE LoadSwap(a)
    BY <2>5 DEF LoadSwap, CallStep
  <2> QED BY <2>2, <2>3, <2>4, <2>5 DEF LoadNext
<1>3. CASE LogFails \/ Snapshot
  BY <1>3 DEF LogFails, WalFails, Snapshot, CallStep
<1>4. CASE Ticks
  <2>1. CASE TickMoves \/ \E n \in Names : TickDue(n)
    BY <2>1 DEF TickMoves, TickDue, CallStep
  <2>2. ASSUME NEW w \in Workers, TickCalls(w) PROVE CallStep
    <3>1. Begins(w, "tick") \/ Refused(w)
      BY <2>2, ExecuteReducerBegins DEF TickCalls
    <3> QED BY <2>2, <3>1 DEF TickCalls, CallStep, MayCall
  <2>3. ASSUME NEW w \in Workers, TickReturns(w) PROVE CallStep
    BY <2>3 DEF TickReturns, Release, Returns, CallStep
  <2> QED BY <1>4, <2>1, <2>2, <2>3 DEF Ticks
<1>5. CASE Subscriptions
  <2>1. CASE Deliver \/ TakeBatch \/ EventBegins \/ Emit \/ EventEnds
             \/ \E i \in wthread.left : SubscriptionBegins(i)
    BY <2>1 DEF Deliver, TakeBatch, EventBegins, Emit, EventEnds, SubscriptionBegins, CallStep
  <2>2. CASE StageCall
    <3>1. Begins(SubThread, wthread.at) \/ Refused(SubThread)
      BY <2>2, ExecuteReducerBegins DEF StageCall
    <3>2. /\ wthread.at \in {"filter", "transform"} /\ UNCHANGED wthread
          /\ UNCHANGED <<feed, rows, writer>>
      BY <2>2 DEF StageCall
    <3> QED BY <3>1, <3>2 DEF CallStep, MayCall
  <2>3. CASE StageReturns
    BY <2>3 DEF StageReturns, Release, Returns, CallStep
  <2>4. ASSUME NEW c \in Clients, NEW n \in Names, HookCall(c, n) PROVE CallStep
    <3>1. Begins(c, Hooks[client[c].at]) \/ Refused(c)
      BY <2>4, ExecuteReducerBegins DEF HookCall
    <3>2. Hooks[client[c].at] \in FunctionNames
      BY <2>4 DEF HookCall, Hooks
    <3>3. client'[c].at \in {"connected", "leaving"}
      BY <2>4 DEF HookCall, CallTypes, Hooks
    <3> QED BY <2>4, <3>1, <3>2, <3>3 DEF HookCall, CallStep, MayCall
  <2>5. ASSUME NEW c \in Clients, HookReturns(c) \/ InitialData(c) PROVE CallStep
    BY <2>5 DEF HookReturns, InitialData, Release, Returns, CallStep
  <2>6. ASSUME NEW c \in Clients, HooksDone(c) \/ Disconnect(c) PROVE CallStep
    BY <2>6 DEF HooksDone, Disconnect, CallStep
  <2> QED
    BY <1>5, <2>1, <2>2, <2>3, <2>4, <2>5, <2>6 DEF Subscriptions, ThreadNext, ClientNext
<1>6. ASSUME NEW h \in Handlers, Handler(h) PROVE CallStep
  <2>1. CASE DeployLoaded(h) \/ DeploySaves(h) \/ DeployWrites(h) \/ DeployDone(h)
             \/ UndeployRemoves(h) \/ \E n \in Names : UndeployModule(h, n)
    BY <2>1 DEF DeployLoaded, DeploySaves, DeployWrites, DeployDone, UndeployRemoves,
                UndeployModule, CallStep
  <2>2. CASE CallReturns(h)
    BY <2>2 DEF CallReturns, Release, Returns, CallStep
  <2>3. ASSUME NEW n \in Names, CallReducer(h, n) PROVE CallStep
    <3>1. Begins(h, "reducer") \/ Refused(h)
      BY <2>3, ExecuteReducerBegins DEF CallReducer
    <3> QED BY <2>3, <3>1 DEF CallReducer, CallStep, MayCall
  <2>4. ASSUME NEW n \in Names, NEW m \in Deployments, DeployModule(h, n, m) PROVE CallStep
    <3>1. LoadBegin(h, n, m) /\ Serving
      BY <2>4 DEF DeployModule
    <3> QED BY <3>1, LoadBeginBegins DEF CallStep, MayCall
  <2> QED BY <1>6, <2>1, <2>2, <2>3, <2>4 DEF Handler
<1>7. ASSUME NEW c \in Clients, Connected(c) PROVE CallStep
  BY <1>7 DEF Connected, Connect, CallStep
<1>8. ASSUME NEW c \in Clients, NEW q \in Requests, Subscribes(c, q) PROVE CallStep
  <2>1. CreateSubscription(c, q)
    BY <1>8 DEF Subscribes
  <2>2. CASE q.initial
    <3>1. ExecuteReducer(c, q.module, "__get_initial_data")
      BY <2>1, <2>2 DEF CreateSubscription
    <3>2. exec[c].at = "idle" /\ UNCHANGED <<feed, rows, writer>>
      BY <2>1 DEF CreateSubscription, ClientsIdle
    <3>3. client'[c].at = "initial"
      BY <2>1, <2>2 DEF CreateSubscription, CallTypes
    <3> QED BY <3>1, <3>2, <3>3, ExecuteReducerBegins DEF CallStep, MayCall
  <2>3. CASE ~q.initial
    BY <2>1, <2>3 DEF CreateSubscription, CallStep
  <2> QED BY <2>2, <2>3
<1> QED BY <1>1, <1>2, <1>3, <1>4, <1>5, <1>6, <1>7, <1>8 DEF Next

\* What a step may be to the subscriptions.
SubsStep ==
  \/ UNCHANGED subsVars
  \/ Restart \/ TicksStopped \/ SubsStopped
  \/ /\ UNCHANGED main
     /\ \/ Deliver \/ ThreadNext
        \/ \E c \in Clients : \/ ClientNext(c) \/ Connect(c)
                              \/ \E q \in Requests : CreateSubscription(c, q)

LEMMA SubsSteps == Next => SubsStep
<1> SUFFICES ASSUME Next PROVE SubsStep
  OBVIOUS
<1>1. CASE Server
  BY <1>1 DEF Server, Restored, Listen, StartTicks, Restore, ShutdownBegins, GrpcStopped,
              EngineStopped, SubsStep
<1>2. CASE EngineNext \/ LogFails \/ Snapshot
  BY <1>2 DEF EngineNext, LogFails, Snapshot, SubsStep
<1>3. CASE Ticks
  BY <1>3 DEF Ticks, TickMoves, TickDue, TickCalls, TickReturns, SubsStep
<1>4. CASE Subscriptions
  BY <1>4 DEF Subscriptions, SubsStep
<1>5. CASE \E h \in Handlers : Handler(h)
  BY <1>5 DEF Handler, DeployLoaded, DeploySaves, DeployWrites, DeployDone, UndeployRemoves,
              CallReturns, DeployModule, UndeployModule, CallReducer, SubsStep
<1>6. CASE \E c \in Clients : Connected(c) \/ \E q \in Requests : Subscribes(c, q)
  BY <1>6 DEF Connected, Subscribes, SubsStep
<1> QED BY <1>1, <1>2, <1>3, <1>4, <1>5, <1>6 DEF Next

\* What a step may be to the loads of modules.
LoadStep ==
  \/ UNCHANGED load
  \/ Restart
  \/ Restored
  \/ UNCHANGED main /\ \E a \in Actors : LoadNext(a)
  \/ main.at = "restore" /\ \E n \in main.left : Restore(n)
  \/ \E h \in Handlers : \/ DeployLoaded(h)
                         \/ \E n \in Names, m \in Deployments : DeployModule(h, n, m)

LEMMA LoadSteps == Next => LoadStep
<1> SUFFICES ASSUME Next PROVE LoadStep
  OBVIOUS
<1> USE DEF OnlyExec
<1>1. CASE Server
  BY <1>1 DEF Server, Listen, StartTicks, ShutdownBegins, GrpcStopped, TicksStopped, SubsStopped,
              EngineStopped, LoadStep
<1>2. CASE EngineNext
  <2> PICK a \in Actors : ExecNext(a) \/ LoadNext(a)
    BY <1>2 DEF EngineNext
  <2>1. ExecNext(a) => UNCHANGED load
    BY DEF ExecNext, Lock, HostCall, Trap, Return, CreateTables, StageWrite, Commit, Publish
  <2> QED BY <1>2, <2>1 DEF EngineNext, LoadStep
<1>3. CASE LogFails \/ Snapshot
  BY <1>3 DEF LogFails, WalFails, Snapshot, LoadStep
<1>4. CASE Ticks
  BY <1>4 DEF Ticks, TickMoves, TickDue, TickCalls, TickReturns, LoadStep
<1>5. CASE Subscriptions
  BY <1>5 DEF Subscriptions, Deliver, ThreadNext, TakeBatch, EventBegins, StageCall, StageReturns,
              Emit, EventEnds, SubscriptionBegins, ClientNext, HookCall, HookReturns, HooksDone,
              InitialData, Disconnect, LoadStep
<1>6. CASE \E h \in Handlers : Handler(h)
  BY <1>6 DEF Handler, DeploySaves, DeployWrites, DeployDone, UndeployRemoves, CallReturns,
              UndeployModule, CallReducer, LoadStep
<1>7. CASE \E c \in Clients : Connected(c) \/ \E q \in Requests : Subscribes(c, q)
  BY <1>7 DEF Connected, Subscribes, Connect, CreateSubscription, LoadStep
<1> QED BY <1>1, <1>2, <1>3, <1>4, <1>5, <1>6, <1>7 DEF Next

-----------------------------------------------------------------------------
(***************************************************************************)
(* What is quiet, and when.                                                  *)
(***************************************************************************)
HandlersIdle ==
  main.at \notin {"listen", "serve", "grpc"} =>
    \A h \in Handlers : deploy[h].at = "none" /\ exec[h].at = "idle"

WorkersIdle == \A w \in Workers : worker[w].at # "run" => exec[w].at = "idle"

SubThreadIdle ==
  /\ wthread = [at |-> wthread.at, batch |-> wthread.batch, left |-> wthread.left, sub |-> wthread.sub]
  /\ wthread.at \notin {"filter", "transform"} => exec[SubThread].at = "idle"

MainIdle ==
  /\ load[Main].at \notin {"init", "migrate"} => exec[Main].at = "idle"
  /\ main.at # "restore" => load[Main].at = "none"

\* The threads that Shutdown has joined so far.
SubsOver == main.at \in {"engine", "end"} => wthread.at = "ended"

QuietInv ==
  /\ CallTypes /\ ClientsIdle /\ HandlersIdle /\ WorkersIdle /\ SubThreadIdle /\ MainIdle /\ SubsOver

\* A call changes the frame of its own thread only, and does not begin in an idle one.
LEMMA ExecNextFrame ==
  ASSUME CallTypes, NEW a \in Actors, ExecNext(a)
  PROVE /\ exec[a].at \notin {"idle", "done", "failed"}
        /\ \E f : exec' = [exec EXCEPT ![a] = f]
<1>1. CASE Lock(a)
  BY <1>1 DEF Lock, ExecAt, Fails
<1>2. CASE HostCall(a)
  BY <1>2 DEF HostCall, ExecAt
<1>3. CASE Trap(a)
  BY <1>3 DEF Trap, ExecAt, Fails
<1>4. CASE Return(a)
  BY <1>4 DEF Return, ExecAt, Fails, Succeeds
<1>5. CASE CreateTables(a)
  <2>1. exec' = exec \/ exec' = [exec EXCEPT ![a].at = "stage"]
    BY <1>5 DEF CreateTables
  <2>2. exec[a].at = "create"
    BY <1>5 DEF CreateTables, ExecAt
  <2> QED BY <2>1, <2>2 DEF CallTypes
<1>6. CASE StageWrite(a)
  BY <1>6 DEF StageWrite, ExecAt
<1>7. CASE Commit(a)
  BY <1>7 DEF Commit, ExecAt, Fails
<1>8. CASE Publish(a)
  BY <1>8 DEF Publish, ExecAt, Succeeds
<1> QED BY <1>1, <1>2, <1>3, <1>4, <1>5, <1>6, <1>7, <1>8 DEF ExecNext

\* An idle thread that may not call stays idle.
LEMMA StaysIdle ==
  ASSUME CallTypes, ClientsIdle, Next, NEW a \in Actors, exec[a].at = "idle", ~MayCall(a)
  PROVE exec'[a].at = "idle"
<1>1. CallStep
  BY CallSteps
<1>2. CASE Restart
  BY <1>2 DEF Restart, Idle
<1>3. ASSUME NEW b \in Actors, ExecNext(b) PROVE exec'[a].at = "idle"
  BY <1>3, ExecNextFrame DEF CallTypes
<1>4. ASSUME NEW b \in Actors, MayCall(b), \E f : exec' = [exec EXCEPT ![b] = f]
      PROVE exec'[a].at = "idle"
  BY <1>4 DEF CallTypes
<1>5. ASSUME NEW b \in Actors, Returns(b) PROVE exec'[a].at = "idle"
  BY <1>5 DEF Returns, CallTypes, Idle
<1>6. ASSUME NEW b \in Actors, NEW fn, Begins(b, fn) \/ Refused(b)
      PROVE \E f : exec' = [exec EXCEPT ![b] = f]
  BY <1>6 DEF Begins, Refused
<1> QED BY <1>1, <1>2, <1>3, <1>4, <1>5, <1>6 DEF CallStep

\* The functions stay functions.
LEMMA CallTypesStep == CallTypes /\ ClientsIdle /\ Next => CallTypes'
<1> SUFFICES ASSUME CallTypes, ClientsIdle, Next PROVE CallTypes'
  OBVIOUS
<1> USE ActorsAssumption
<1>1. exec' = [a \in Actors |-> exec'[a]]
  <2>1. CallStep
    BY CallSteps
  <2>2. CASE Restart
    BY <2>2 DEF Restart
  <2>3. CASE UNCHANGED exec
    BY <2>3 DEF CallTypes
  <2>4. ASSUME NEW b \in Actors, \E f : exec' = [exec EXCEPT ![b] = f]
        PROVE exec' = [a \in Actors |-> exec'[a]]
    BY <2>4 DEF CallTypes
  <2> QED BY <2>1, <2>2, <2>3, <2>4, ExecNextFrame DEF CallStep, Begins, Refused, Returns
<1>2. load' = [a \in Actors |-> load'[a]]
  <2>1. LoadStep
    BY LoadSteps
  <2>2. CASE Restart
    BY <2>2 DEF Restart
  <2>3. CASE UNCHANGED load
    BY <2>3 DEF CallTypes
  <2>4. ASSUME NEW b \in Actors, \E f : load' = [load EXCEPT ![b] = f]
        PROVE load' = [a \in Actors |-> load'[a]]
    BY <2>4 DEF CallTypes
  <2>5. CASE Restored
    BY <2>4, <2>5 DEF Restored
  <2>6. ASSUME NEW b \in Actors, LoadNext(b) PROVE \E f : load' = [load EXCEPT ![b] = f]
    BY <2>6 DEF LoadNext, LoadInit, LoadMigrate, LoadSwap
  <2>7. ASSUME NEW b \in Actors, NEW n, NEW m, LoadBegin(b, n, m)
        PROVE \E f : load' = [load EXCEPT ![b] = f]
    BY <2>7 DEF LoadBegin
  <2>8. ASSUME NEW h \in Handlers, DeployLoaded(h) PROVE \E f : load' = [load EXCEPT ![h] = f]
    BY <2>8 DEF DeployLoaded
  <2> QED BY <2>1, <2>2, <2>3, <2>4, <2>5, <2>6, <2>7, <2>8 DEF LoadStep, Restore, DeployModule
<1>3. deploy' = [h \in Handlers |-> deploy'[h]]
  <2>1. CASE Restart
    BY <2>1 DEF Restart
  <2>2. CASE UNCHANGED deploy
    BY <2>2 DEF CallTypes
  <2>3. ASSUME NEW h \in Handlers, Handler(h) PROVE deploy' = [g \in Handlers |-> deploy'[g]]
    <3>1. UNCHANGED deploy \/ \E d : deploy' = [deploy EXCEPT ![h] = d]
      BY <2>3 DEF Handler, DeployLoaded, DeploySaves, DeployWrites, DeployDone, UndeployRemoves,
              CallReturns, DeployModule, UndeployModule, CallReducer, DeployStep
    <3> QED BY <3>1 DEF CallTypes
  <2> QED
    BY <2>1, <2>2, <2>3 DEF Next, Server, Restored, Listen, StartTicks, Restore, ShutdownBegins,
       GrpcStopped, TicksStopped, SubsStopped, EngineStopped, EngineNext, LogFails, Snapshot, Ticks, TickMoves,
       TickDue, TickCalls, TickReturns, Subscriptions, Connected, Subscribes
<1>4. client' = [c \in Clients |-> client'[c]] /\ \A c \in Clients : "at" \in DOMAIN client'[c]
  <2>1. SubsStep
    BY SubsSteps
  <2>2. CASE Restart
    BY <2>2 DEF Restart
  <2>3. CASE UNCHANGED client
    BY <2>3 DEF CallTypes
  <2>4. ASSUME NEW c \in Clients,
               ClientNext(c) \/ Connect(c) \/ \E q \in Requests : CreateSubscription(c, q)
        PROVE UNCHANGED client \/ \E f : client' = [client EXCEPT ![c] = f] /\ "at" \in DOMAIN f
    <3>1. CASE \E n \in Names : HookCall(c, n)
      <4>1. \E l : client' = [client EXCEPT ![c].left = l]
        BY <3>1 DEF HookCall
      <4> QED BY <4>1 DEF CallTypes
    <3>2. CASE HookReturns(c) \/ HooksDone(c) \/ InitialData(c)
      <4>1. UNCHANGED client \/ \E x : client' = [client EXCEPT ![c] = [at |-> x]]
        BY <3>2 DEF HookReturns, HooksDone, InitialData
      <4>2. \A x : "at" \in DOMAIN [at |-> x]
        OBVIOUS
      <4> QED BY <4>1, <4>2, Zenon
    <3>3. CASE Disconnect(c) \/ Connect(c) \/ \E q \in Requests : CreateSubscription(c, q)
      <4>1. \/ UNCHANGED client
            \/ \E x, y : client' = [client EXCEPT ![c] = [at |-> x, left |-> y]]
            \/ \E x, y : client' = [client EXCEPT ![c] = [at |-> x, sub |-> y]]
        BY <3>3 DEF Connect, CreateSubscription, Disconnect
      <4>2. \A x, y : "at" \in DOMAIN [at |-> x, left |-> y] /\ "at" \in DOMAIN [at |-> x, sub |-> y]
        OBVIOUS
      <4> QED BY <4>1, <4>2, Zenon
    <3> QED BY <2>4, <3>1, <3>2, <3>3 DEF ClientNext
  <2>5. ASSUME NEW c \in Clients, NEW f, client' = [client EXCEPT ![c] = f], "at" \in DOMAIN f
        PROVE /\ client' = [d \in Clients |-> client'[d]]
              /\ \A d \in Clients : "at" \in DOMAIN client'[d]
    BY <2>5 DEF CallTypes
  <2>6. Deliver \/ ThreadNext \/ TicksStopped \/ SubsStopped => UNCHANGED client
    BY DEF Deliver, ThreadNext, TakeBatch, EventBegins, StageCall, StageReturns, Emit, EventEnds,
           SubscriptionBegins, TicksStopped, SubsStopped
  <2> QED BY <2>1, <2>2, <2>3, <2>4, <2>5, <2>6 DEF SubsStep
<1> QED BY <1>1, <1>2, <1>3, <1>4 DEF CallTypes

\* The initial state is quiet.
LEMMA QuietInit == Init => QuietInv
<1> SUFFICES ASSUME Init PROVE QuietInv
  OBVIOUS
<1> USE ActorsAssumption DEF Init, EngineInit, SubsInit, Idle, NoLoad, NoDeploy, Waiting
<1>1. CallTypes /\ ClientsIdle
  BY DEF CallTypes, ClientsIdle
<1>2. HandlersIdle /\ WorkersIdle /\ SubThreadIdle /\ MainIdle /\ SubsOver
  BY DEF HandlersIdle, WorkersIdle, SubThreadIdle, MainIdle, SubsOver
<1> QED BY <1>1, <1>2 DEF QuietInv

\* A connection's thread leaves its hooks or its subscription with its call returned.
LEMMA ClientsIdleStep == CallTypes /\ ClientsIdle /\ Next => ClientsIdle'
<1> SUFFICES ASSUME CallTypes, ClientsIdle, Next,
                    NEW c \in Clients, client'[c].at \in {"out", "in", "gone"}
             PROVE exec'[c].at = "idle"
  BY DEF ClientsIdle
<1> USE ActorsAssumption, ThreadsAssumption
<1>1. ~MayCall(c) \/ exec[c].at = "done"
  BY DEF MayCall
<1>2. CASE client[c].at \in {"out", "in", "gone"}
  BY <1>1, <1>2, StaysIdle DEF ClientsIdle
<1>3. CASE client[c].at \notin {"out", "in", "gone"}
  <2>1. SubsStep
    BY SubsSteps
  <2>2. CASE Restart
    BY <2>2 DEF Restart, Idle
  <2>3. CASE UNCHANGED client
    BY <1>3, <2>3
  <2>4. Deliver \/ ThreadNext \/ TicksStopped \/ SubsStopped => UNCHANGED client
    BY DEF Deliver, ThreadNext, TakeBatch, EventBegins, StageCall, StageReturns, Emit, EventEnds,
           SubscriptionBegins, TicksStopped, SubsStopped
  <2>5. ASSUME NEW d \in Clients, ClientNext(d) \/ Connect(d) \/ \E q \in Requests : CreateSubscription(d, q)
        PROVE exec'[c].at = "idle"
    <3>1. CASE HooksDone(d)
      BY <1>3, <3>1 DEF HooksDone, CallTypes
    <3>2. CASE InitialData(d)
      BY <1>3, <3>2 DEF InitialData, CallTypes, Release, Idle
    <3>3. CASE HookReturns(d) \/ Connect(d) \/ Disconnect(d) \/ \E q \in Requests : CreateSubscription(d, q)
      BY <1>3, <3>3 DEF HookReturns, Connect, Disconnect, CreateSubscription, CallTypes
    <3>4. ASSUME NEW n \in Names, HookCall(d, n) PROVE FALSE
      <4>1. client'[c].at = client[c].at
        BY <3>4 DEF HookCall, CallTypes
      <4> QED BY <1>3, <4>1
    <3> QED BY <2>5, <3>1, <3>2, <3>3, <3>4 DEF ClientNext
  <2> QED BY <2>1, <2>2, <2>3, <2>4, <2>5 DEF SubsStep
<1> QED BY <1>2, <1>3

\* After the drain, and before the boot is over, no handler is at work.
LEMMA HandlersIdleStep == TickInv /\ QuietInv /\ Next => HandlersIdle'
<1> SUFFICES ASSUME TickInv, QuietInv, Next, main'.at \notin {"listen", "serve", "grpc"},
                    NEW h \in Handlers
             PROVE deploy'[h].at = "none" /\ exec'[h].at = "idle"
  BY DEF HandlersIdle
<1> USE ActorsAssumption, ThreadsAssumption
<1>1. CASE Restart
  BY <1>1 DEF Restart, NoDeploy, Idle
<1>2. CASE GrpcStopped
  BY <1>2 DEF GrpcStopped
<1>3. CASE ~Restart /\ ~GrpcStopped
  <2>1. main.at \notin {"listen", "serve", "grpc"}
    <3>1. TickStep
      BY TickSteps
    <3> QED BY <1>3, <3>1 DEF TickStep, MainMoves, MainStep, StartTicks, TickInv, MainType, MainStates
  <2>2. deploy[h].at = "none" /\ exec[h].at = "idle"
    BY <2>1 DEF QuietInv, HandlersIdle
  <2>3. ~MayCall(h)
    BY <2>1, <2>2 DEF MayCall, Serving
  <2>4. exec'[h].at = "idle"
    BY <2>2, <2>3, StaysIdle DEF QuietInv
  <2>5. ASSUME NEW g \in Handlers, Handler(g) PROVE deploy'[h].at = "none"
    <3>1. deploy[g].at = "none" /\ ~Serving
      BY <2>1 DEF QuietInv, HandlersIdle, Serving
    <3>2. UNCHANGED deploy
      BY <2>5, <3>1 DEF Handler, DeployLoaded, DeploySaves, DeployWrites, DeployDone, UndeployRemoves,
              CallReturns, DeployModule, UndeployModule, CallReducer, Deploys
    <3> QED BY <2>2, <3>2
  <2>6. deploy'[h].at = "none"
    BY <1>3, <2>2, <2>5 DEF Next, Server, Restored, Listen, StartTicks, Restore, ShutdownBegins,
       GrpcStopped, TicksStopped, SubsStopped, EngineStopped, EngineNext, LogFails, Snapshot, Ticks, TickMoves,
       TickDue, TickCalls, TickReturns, Subscriptions, Connected, Subscribes
  <2> QED BY <2>4, <2>6
<1> QED BY <1>1, <1>2, <1>3

\* A worker that does not run an entry is in no call.
LEMMA WorkersIdleStep == TickInv /\ QuietInv /\ Next => WorkersIdle'
<1> SUFFICES ASSUME TickInv, QuietInv, Next, NEW w \in Workers, worker'[w].at # "run"
             PROVE exec'[w].at = "idle"
  BY DEF WorkersIdle
<1> USE ActorsAssumption, ThreadsAssumption
<1>1. TickStep
  BY TickSteps
<1>2. CASE worker[w].at # "run"
  <2>1. exec[w].at = "idle"
    BY <1>2 DEF QuietInv, WorkersIdle
  <2>2. ~MayCall(w)
    BY <1>2, <2>1 DEF MayCall
  <2> QED BY <2>1, <2>2, StaysIdle DEF QuietInv
<1>3. CASE worker[w].at = "run"
  <2>1. worker'[w].at = "run" \/ exec'[w].at = "idle"
    <3>1. CASE UNCHANGED worker
      BY <1>3, <3>1
    <3>2. CASE Restart
      BY <3>2 DEF Restart, Idle
    <3>3. CASE StartTicks
      BY <1>3, <3>3 DEF StartTicks, TickInv, TicksOff
    <3>4. CASE GrpcStopped
      BY <1>3, <3>4 DEF GrpcStopped, Tick!TickStop
    <3>5. CASE Tick!Push
      BY <1>3, <3>5 DEF Tick!Push, TickInv, TickTypes
    <3>6. ASSUME NEW v \in Workers, Tick!WorkerTest(v) \/ Tick!WorkerBlocks(v) PROVE worker'[w].at = "run"
      BY <1>3, <3>6 DEF Tick!WorkerTest, Tick!WorkerBlocks, TickInv, TickTypes
    <3>7. ASSUME NEW v \in Workers, Tick!WorkerDone(v), Release(v)
          PROVE worker'[w].at = "run" \/ exec'[w].at = "idle"
      BY <1>3, <3>7 DEF Tick!WorkerDone, TickInv, TickTypes, Release, Idle, QuietInv, CallTypes
    <3>8. Tick!DispatchEnds \/ (\E n \in Names : Tick!Dispatch(n)) => UNCHANGED worker
      BY DEF Tick!DispatchEnds, Tick!Dispatch
    <3> QED BY <1>1, <3>1, <3>2, <3>3, <3>4, <3>5, <3>6, <3>7, <3>8 DEF TickStep
  <2> QED BY <2>1
<1> QED BY <1>2, <1>3

\* The subscription thread leaves a filter or a transform with its call returned.
LEMMA SubThreadIdleStep == QuietInv /\ Next => SubThreadIdle'
<1> SUFFICES ASSUME QuietInv, Next PROVE SubThreadIdle'
  OBVIOUS
<1> USE ActorsAssumption, ThreadsAssumption DEF QuietInv
<1>1. SubsStep
  BY SubsSteps
<1>2. CASE Restart
  BY <1>2 DEF Restart, Waiting, SubThreadIdle, Idle
<1>3. Deliver \/ TicksStopped \/ SubsStopped => UNCHANGED wthread
  BY DEF Deliver, TicksStopped, SubsStopped
<1>4. ASSUME NEW c \in Clients, ClientNext(c) \/ Connect(c) \/ \E q \in Requests : CreateSubscription(c, q)
      PROVE UNCHANGED wthread
  BY <1>4 DEF ClientNext, HookCall, HookReturns, HooksDone, InitialData, Disconnect, Connect,
              CreateSubscription
<1>5. CASE UNCHANGED wthread
  <2>1. CASE wthread.at \notin {"filter", "transform"}
    <3>1. ~MayCall(SubThread)
      BY <2>1 DEF MayCall, SubThreadIdle
    <3>2. exec'[SubThread].at = "idle"
      BY <2>1, <3>1, StaysIdle DEF SubThreadIdle
    <3> QED BY <1>5, <3>2 DEF SubThreadIdle
  <2>2. CASE wthread.at \in {"filter", "transform"}
    BY <1>5, <2>2 DEF SubThreadIdle
  <2> QED BY <2>1, <2>2
<1>6. CASE ThreadNext
  <2>1. CASE StageCall
    BY <1>5, <2>1 DEF StageCall
  <2>2. CASE StageReturns
    BY <2>2 DEF StageReturns, Release, Idle, CallTypes, SubThreadIdle
  <2>3. CASE TakeBatch \/ EventBegins \/ Emit \/ EventEnds
    BY <2>3 DEF TakeBatch, EventBegins, Emit, EventEnds, SubThreadIdle
  <2>4. ASSUME NEW i \in wthread.left, SubscriptionBegins(i) PROVE SubThreadIdle'
    BY <2>4 DEF SubscriptionBegins, SubThreadIdle
  <2> QED BY <1>6, <2>1, <2>2, <2>3, <2>4 DEF ThreadNext
<1> QED BY <1>1, <1>2, <1>3, <1>4, <1>5, <1>6 DEF SubsStep

\* The main thread is in a call only while it restores a module.
LEMMA MainIdleStep == TickInv /\ QuietInv /\ Next => MainIdle'
<1> SUFFICES ASSUME TickInv, QuietInv, Next PROVE MainIdle'
  OBVIOUS
<1> USE ActorsAssumption, ThreadsAssumption DEF QuietInv
<1>1. LoadStep /\ TickStep
  BY LoadSteps, TickSteps
<1>2. CASE Restart
  BY <1>2 DEF Restart, Idle, NoLoad, MainIdle
<1>3. ASSUME load'[Main] = load[Main], load[Main].at \notin {"init", "migrate"}, ~Restart
      PROVE exec'[Main].at = "idle"
  <2>1. ~MayCall(Main)
    BY <1>3 DEF MayCall, MainIdle
  <2> QED BY <1>3, <2>1, StaysIdle DEF MainIdle
<1>4. main'.at # "restore" => Restart \/ main.at # "restore" \/ (load[Main].at = "none" /\ UNCHANGED load)
  BY <1>1 DEF TickStep, MainMoves, MainStep, StartTicks, GrpcStopped, TickInv, MainType, Loads
<1>5. CASE load'[Main] = load[Main]
  BY <1>2, <1>3, <1>4, <1>5 DEF MainIdle
<1>6. CASE Restored
  BY <1>6 DEF Restored, MainIdle, NoLoad, CallTypes
<1>7. ASSUME NEW a \in Actors, LoadNext(a), UNCHANGED main PROVE MainIdle'
  <2>1. CASE a # Main
    <3>1. load'[Main] = load[Main]
      BY <1>7, <2>1 DEF LoadNext, LoadInit, LoadMigrate, LoadSwap, CallTypes
    <3> QED BY <1>5, <3>1
  <2>2. CASE a = Main
    <3>1. main.at = "restore"
      BY <1>7, <2>2 DEF LoadNext, LoadInit, LoadMigrate, LoadSwap, Loads, MainIdle
    <3>2. CASE LoadInit(Main)
      <4>1. load'[Main].at = "migrate" \/ exec'[Main].at = "idle"
        <5>1. CASE load' = [load EXCEPT ![Main].at = "migrate"]
          BY <3>2, <5>1 DEF LoadInit, Loads, CallTypes
        <5>2. CASE exec' = [exec EXCEPT ![Main] = Idle]
          BY <5>2 DEF CallTypes, Idle
        <5> QED BY <3>2, <5>1, <5>2 DEF LoadInit
      <4> QED BY <1>7, <3>1, <4>1 DEF MainIdle
    <3>3. CASE LoadMigrate(Main)
      BY <1>7, <3>1, <3>3 DEF LoadMigrate, MainIdle, CallTypes, Idle
    <3>4. CASE LoadSwap(Main)
      BY <1>7, <3>1, <3>4 DEF LoadSwap, Loads, MainIdle
    <3> QED BY <1>7, <2>2, <3>2, <3>3, <3>4 DEF LoadNext
  <2> QED BY <2>1, <2>2
<1>8. ASSUME NEW n \in main.left, Restore(n) PROVE MainIdle'
  <2>1. \E m : LoadBegin(Main, n, m)
    BY <1>8 DEF Restore
  <2>2. main'.at = "restore" /\ exec[Main].at = "idle"
    BY <1>8 DEF Restore, MainIdle, Loads, TickInv, MainType
  <2>3. load'[Main].at = "init" \/ UNCHANGED exec
    BY <2>1, LoadBeginBegins
  <2> QED BY <2>2, <2>3 DEF MainIdle
<1>9. ASSUME NEW h \in Handlers,
             DeployLoaded(h) \/ \E n \in Names, m \in Deployments : DeployModule(h, n, m)
      PROVE load'[Main] = load[Main]
  <2>1. h # Main
    BY ThreadsAssumption
  <2>2. CASE DeployLoaded(h)
    BY <2>1, <2>2 DEF DeployLoaded, CallTypes
  <2>3. ASSUME NEW n \in Names, NEW m \in Deployments, DeployModule(h, n, m)
        PROVE load'[Main] = load[Main]
    BY <2>1, <2>3 DEF DeployModule, LoadBegin, CallTypes
  <2> QED BY <1>9, <2>2, <2>3
<1> QED BY <1>1, <1>2, <1>5, <1>6, <1>7, <1>8, <1>9 DEF LoadStep

\* The subscription thread that was joined has ended, and stays so.
LEMMA SubsOverStep == TickInv /\ QuietInv /\ Next => SubsOver'
<1> SUFFICES ASSUME TickInv, QuietInv, Next, main'.at \in {"engine", "end"} PROVE wthread'.at = "ended"
  BY DEF SubsOver
<1> USE DEF QuietInv
<1>1. TickStep /\ SubsStep
  BY TickSteps, SubsSteps
<1>2. ~Restart
  BY DEF Restart
<1>3. main.at \in {"engine", "end"} \/ (SubsJoined /\ UNCHANGED wthread)
  BY <1>1, <1>2 DEF TickStep, MainMoves, MainStep, StartTicks, GrpcStopped, TickInv, MainType
<1>4. wthread.at = "ended"
  BY <1>3 DEF SubsOver, SubsJoined
<1>5. UNCHANGED wthread
  <2>1. ~ThreadNext
    BY <1>4 DEF ThreadNext, TakeBatch, EventBegins, StageCall, StageReturns, Emit, EventEnds,
                SubscriptionBegins
  <2>2. ASSUME NEW c \in Clients, ClientNext(c) \/ Connect(c) \/ \E q \in Requests : CreateSubscription(c, q)
        PROVE UNCHANGED wthread
    BY <2>2 DEF ClientNext, HookCall, HookReturns, HooksDone, InitialData, Disconnect, Connect,
                CreateSubscription
  <2> QED BY <1>1, <1>2, <2>1, <2>2 DEF SubsStep, Deliver, TicksStopped, SubsStopped
<1> QED BY <1>4, <1>5

LEMMA QuietInductive == TickInv /\ QuietInv /\ [Next]_vars => QuietInv'
<1> SUFFICES ASSUME TickInv, QuietInv, [Next]_vars PROVE QuietInv'
  OBVIOUS
<1>1. CASE Next
  BY <1>1, CallTypesStep, ClientsIdleStep, HandlersIdleStep, WorkersIdleStep, SubThreadIdleStep,
     MainIdleStep, SubsOverStep DEF QuietInv
<1>2. CASE UNCHANGED vars
  BY <1>2 DEF vars, QuietInv, CallTypes, ClientsIdle, HandlersIdle, WorkersIdle, SubThreadIdle,
              MainIdle, SubsOver
<1> QED BY <1>1, <1>2

\* The invariant of the threads in every state that the server reaches.
LEMMA QuietAlways == Spec => []QuietInv
  BY TickAlways, QuietInit, QuietInductive, PTL DEF Spec

\* OriginDBServer::Shutdown: once the engine is destroyed, no thread it waited for is
\* in a call, or could still make one, however the threads were scheduled until then.
THEOREM EngineGoesLast == Spec => []QuietBeforeEngineGoes
<1>1. TickInv /\ QuietInv => QuietBeforeEngineGoes
  <2> SUFFICES ASSUME TickInv, QuietInv, main.at = "end" PROVE
         /\ \A a \in Actors \ Clients : exec[a].at = "idle"
         /\ \A w \in Workers : worker[w].at \notin {"run", "test"}
         /\ wthread.at = "ended"
    BY DEF QuietBeforeEngineGoes
  <2>1. wthread.at = "ended" /\ \A w \in Workers : worker[w].at \notin {"run", "test"}
    BY DEF QuietInv, SubsOver, TickInv, TicksOver
  <2>2. \A h \in Handlers : exec[h].at = "idle"
    BY DEF QuietInv, HandlersIdle
  <2>3. \A w \in Workers : exec[w].at = "idle"
    BY <2>1 DEF QuietInv, WorkersIdle
  <2>4. exec[SubThread].at = "idle" /\ exec[Main].at = "idle"
    BY <2>1 DEF QuietInv, SubThreadIdle, MainIdle
  <2> QED BY <2>1, <2>2, <2>3, <2>4, ActorsAssumption
<1> QED BY <1>1, TickAlways, QuietAlways, PTL

-----------------------------------------------------------------------------
(***************************************************************************)
(* Deployments: everything that is, or may become, the code of a name was    *)
(* asked for under its version.                                              *)
(***************************************************************************)
Asked(n, v, c) == [name |-> n, version |-> v, code |-> c] \in asked

\* A sequence of whatever it has.
OwnSeq(s) == s \in Seq({s[i] : i \in DOMAIN s})

ModuleTypes ==
  /\ OwnSeq(objects)
  /\ \A i \in 1..Len(objects) :
       objects[i] = [name |-> objects[i].name, code |-> objects[i].code, version |-> objects[i].version,
                     tables |-> objects[i].tables, read_only |-> objects[i].read_only,
                     instantiated |-> objects[i].instantiated]
  /\ modules = [n \in Names |-> modules[n]]
  /\ files = [n \in Names |-> [wasm |-> files[n].wasm, manifest |-> files[n].manifest]]
  /\ saving = [h \in Handlers |-> saving[h]]
  /\ DOMAIN index \subseteq Names
  /\ \A n \in DOMAIN index : index[n] = [version |-> index[n].version, code |-> index[n].code]

FilesAsked ==
  \A n \in Names : files[n].manifest \notin {NoFile, Store!Torn} =>
    Asked(n, files[n].manifest.version, files[n].manifest.sha256)

IndexAsked == \A n \in DOMAIN index : Asked(n, index[n].version, index[n].code)

\* What is being deployed, saved or loaded.
DeployAsked ==
  \A h \in Handlers :
    /\ deploy[h].at \in {"load", "save", "saving"} =>
         /\ deploy[h] = [at |-> deploy[h].at, name |-> deploy[h].name, module |-> deploy[h].module]
         /\ deploy[h].name \in Names
         /\ Asked(deploy[h].name, deploy[h].module.version, deploy[h].module.code)
    /\ deploy[h].at = "remove" => deploy[h].name \in Names

SavingAsked ==
  \A h \in Handlers : saving[h].at \in {"tmp", "truncate", "manifest"} =>
    /\ saving[h] = [at |-> saving[h].at, name |-> saving[h].name, code |-> saving[h].code,
                    version |-> saving[h].version]
    /\ saving[h].name \in Names
    /\ Asked(saving[h].name, saving[h].version, saving[h].code)

ObjectsAsked ==
  \A i \in 1..Len(objects) : Asked(objects[i].name, objects[i].version, objects[i].code)

LoadsBound ==
  \A a \in Actors : load[a].at \in {"init", "migrate", "swap"} =>
    /\ load[a] = [at |-> load[a].at, name |-> load[a].name, obj |-> load[a].obj, prev |-> load[a].prev]
    /\ load[a].obj \in 1..Len(objects) /\ objects[load[a].obj].name = load[a].name
    /\ load[a].name \in Names

ModulesBound ==
  \A n \in Names : modules[n] # 0 =>
    modules[n] \in 1..Len(objects) /\ objects[modules[n]].name = n

RestoreLeft == main.at = "restore" => main.left \subseteq DOMAIN index

DeployInv ==
  /\ ModuleTypes /\ FilesAsked /\ IndexAsked /\ DeployAsked /\ SavingAsked
  /\ ObjectsAsked /\ LoadsBound /\ ModulesBound /\ RestoreLeft

LEMMA OwnSeqOf == ASSUME NEW T, NEW t \in Seq(T) PROVE OwnSeq(t)
<1>1. Len(t) \in Nat /\ t \in [1..Len(t) -> T] /\ DOMAIN t = 1..Len(t)
  OBVIOUS
<1>2. t \in [1..Len(t) -> {t[i] : i \in DOMAIN t}]
  BY <1>1
<1>3. \A U, n : n \in Nat /\ t \in [1..n -> U] => t \in Seq(U)
  OBVIOUS
<1>4. t \in Seq({t[i] : i \in DOMAIN t})
  BY <1>1, <1>2, <1>3, Zenon
<1> QED BY <1>4 DEF OwnSeq

\* Sequences of what they have: an empty one, one more element, one element replaced.
LEMMA OwnSeqFacts ==
  ASSUME NEW s, OwnSeq(s), NEW x
  PROVE /\ Len(s) \in Nat /\ DOMAIN s = 1..Len(s)
        /\ OwnSeq(Append(s, x)) /\ Len(Append(s, x)) = Len(s) + 1
        /\ \A i \in 1..Len(s) : Append(s, x)[i] = s[i]
        /\ Append(s, x)[Len(s) + 1] = x
        /\ s # <<>> => /\ OwnSeq(Tail(s)) /\ Len(Tail(s)) = Len(s) - 1 /\ Len(s) >= 1
                       /\ Head(s) = s[1]
                       /\ \A i \in 1..Len(Tail(s)) : Tail(s)[i] = s[i + 1]
<1> DEFINE S == {s[i] : i \in DOMAIN s}
<1>1. s \in Seq(S)
  BY DEF OwnSeq
<1>2. Len(s) \in Nat /\ DOMAIN s = 1..Len(s)
  BY <1>1
<1>3. s \in Seq(S \union {x}) /\ x \in S \union {x}
  BY <1>1, <1>2
<1> HIDE DEF S
<1>4. /\ Append(s, x) \in Seq(S \union {x}) /\ Len(Append(s, x)) = Len(s) + 1
      /\ \A i \in 1..Len(s) : Append(s, x)[i] = s[i]
      /\ Append(s, x)[Len(s) + 1] = x
  BY <1>3, QueueAppend
<1>5. OwnSeq(Append(s, x))
  BY <1>4, OwnSeqOf
<1>6. ASSUME s # <<>>
      PROVE /\ OwnSeq(Tail(s)) /\ Len(Tail(s)) = Len(s) - 1 /\ Len(s) >= 1 /\ Head(s) = s[1]
            /\ \A i \in 1..Len(Tail(s)) : Tail(s)[i] = s[i + 1]
  <2>1. /\ Tail(s) \in Seq(S) /\ Len(Tail(s)) = Len(s) - 1 /\ Len(s) >= 1 /\ Head(s) = s[1]
        /\ \A i \in 1..Len(Tail(s)) : Tail(s)[i] = s[i + 1]
    BY <1>1, <1>6, QueueTail
  <2> QED BY <2>1, OwnSeqOf
<1> QED BY <1>2, <1>4, <1>5, <1>6

LEMMA OwnSeqEmpty == OwnSeq(<<>>) /\ Len(<<>>) = 0
  BY DEF OwnSeq

LEMMA OwnSeqMade ==
  ASSUME NEW n \in Nat, NEW t, t = [j \in 1..n |-> t[j]]
  PROVE OwnSeq(t) /\ Len(t) = n
<1>1. t \in [1..n -> {t[j] : j \in 1..n}]
  OBVIOUS
<1>2. t \in Seq({t[j] : j \in 1..n}) /\ Len(t) = n
  BY <1>1
<1> QED BY <1>2, OwnSeqOf

LEMMA OwnSeqReplace ==
  ASSUME NEW s, OwnSeq(s), NEW i, NEW x
  PROVE OwnSeq([s EXCEPT ![i] = x]) /\ Len([s EXCEPT ![i] = x]) = Len(s)
<1>1. Len(s) \in Nat /\ DOMAIN s = 1..Len(s) /\ s = [j \in 1..Len(s) |-> s[j]]
  BY DEF OwnSeq
<1> DEFINE t == [s EXCEPT ![i] = x]
<1>2. t = [j \in 1..Len(s) |-> t[j]]
  BY <1>1
<1> HIDE DEF t
<1>3. OwnSeq(t) /\ Len(t) = Len(s)
  BY <1>1, <1>2, OwnSeqMade
<1> QED BY <1>3 DEF t

\* What a step may be to the modules.
ModuleStep ==
  \/ /\ UNCHANGED <<objects, modules, load, storeVars, deploy, asked>>
     /\ main'.at = "restore" => UNCHANGED main
  \/ Restart \/ EngineStopped \/ Restored
  \/ main.at = "restore" /\ \E n \in main.left : Restore(n)
  \/ /\ UNCHANGED <<storeVars, serverVars>>
     /\ \E a \in Actors : Lock(a) \/ Trap(a) \/ LoadNext(a)
  \/ \E h \in Handlers :
       \/ DeployLoaded(h) \/ DeploySaves(h) \/ DeployWrites(h) \/ DeployDone(h) \/ UndeployRemoves(h)
       \/ \E n \in Names, m \in Deployments : DeployModule(h, n, m)
       \/ \E n \in Names : UndeployModule(h, n)

LEMMA ModuleSteps == TickInv /\ Next => ModuleStep
<1> SUFFICES ASSUME TickInv, Next PROVE ModuleStep
  OBVIOUS
<1> USE DEF OnlyExec, TickInv, MainType
<1>1. CASE Server
  <2>1. CASE Listen \/ StartTicks \/ ShutdownBegins \/ GrpcStopped \/ TicksStopped \/ SubsStopped
    BY <2>1 DEF Listen, StartTicks, ShutdownBegins, GrpcStopped, TicksStopped, SubsStopped, MainStep,
                ModuleStep
  <2> QED BY <1>1, <2>1 DEF Server, ModuleStep
<1>2. CASE EngineNext
  <2> PICK a \in Actors : ExecNext(a) \/ LoadNext(a)
    BY <1>2 DEF EngineNext
  <2>1. UNCHANGED <<storeVars, serverVars>>
    BY <1>2 DEF EngineNext
  <2>2. ExecNext(a) /\ ~Lock(a) /\ ~Trap(a) => UNCHANGED <<objects, modules, load>>
    BY DEF ExecNext, HostCall, Return, CreateTables, StageWrite, Commit, Publish
  <2> QED BY <2>1, <2>2 DEF ModuleStep
<1>3. CASE LogFails \/ Snapshot
  BY <1>3 DEF LogFails, WalFails, Snapshot, ModuleStep
<1>4. CASE Ticks
  BY <1>4 DEF Ticks, TickMoves, TickDue, TickCalls, TickReturns, ModuleStep
<1>5. CASE Subscriptions
  BY <1>5 DEF Subscriptions, Deliver, ThreadNext, TakeBatch, EventBegins, StageCall, StageReturns,
              Emit, EventEnds, SubscriptionBegins, ClientNext, HookCall, HookReturns, HooksDone,
              InitialData, Disconnect, ModuleStep
<1>6. CASE \E h \in Handlers : Handler(h)
  BY <1>6 DEF Handler, CallReturns, CallReducer, ModuleStep
<1>7. ASSUME NEW c \in Clients, Connected(c) \/ \E q \in Requests : Subscribes(c, q) PROVE ModuleStep
  <2>1. CASE Connected(c)
    BY <2>1 DEF Connected, Connect, ModuleStep
  <2>2. ASSUME NEW q \in Requests, Subscribes(c, q) PROVE ModuleStep
    BY <2>2 DEF Subscribes, CreateSubscription, ModuleStep
  <2> QED BY <1>7, <2>1, <2>2
<1> QED BY <1>1, <1>2, <1>3, <1>4, <1>5, <1>6, <1>7 DEF Next

\* The index that Initialize builds has what the files say, and nothing that was not asked for.
LEMMA IndexFacts ==
  ASSUME files = [n \in Names |-> [wasm |-> files[n].wasm, manifest |-> files[n].manifest]], FilesAsked
  PROVE /\ DOMAIN Store!Index = {n \in Names : Store!Indexed(n)}
        /\ \A n \in DOMAIN Store!Index :
             /\ Store!Index[n] = [version |-> Store!Index[n].version, code |-> Store!Index[n].code]
             /\ Asked(n, Store!Index[n].version, Store!Index[n].code)
  BY DEF Store!Index, Store!Indexed, FilesAsked

LEMMA DeployInit == Init => DeployInv
<1> SUFFICES ASSUME Init PROVE DeployInv
  OBVIOUS
<1> USE DEF Init, EngineInit, Store!StoreInit
<1>1. files = [n \in Names |-> [wasm |-> files[n].wasm, manifest |-> files[n].manifest]]
  BY InstalledAssumption
<1>2. FilesAsked
  BY DEF FilesAsked, Asked
<1>3. /\ DOMAIN index = {n \in Names : Store!Indexed(n)}
      /\ \A n \in DOMAIN index : /\ index[n] = [version |-> index[n].version, code |-> index[n].code]
                                 /\ Asked(n, index[n].version, index[n].code)
  BY <1>1, <1>2, IndexFacts
<1>4. ModuleTypes
  BY <1>1, <1>3, OwnSeqEmpty DEF ModuleTypes
<1>5. IndexAsked /\ RestoreLeft
  BY <1>3 DEF IndexAsked, RestoreLeft
<1>6. DeployAsked /\ SavingAsked
  BY DEF DeployAsked, SavingAsked, NoDeploy, Store!NotSaving
<1>7. ObjectsAsked /\ LoadsBound /\ ModulesBound
  BY DEF ObjectsAsked, LoadsBound, ModulesBound, NoLoad
<1> QED BY <1>2, <1>4, <1>5, <1>6, <1>7 DEF DeployInv

\* What the engine has, from one step to the next: objects keep their names, versions
\* and code, and one may be added.
LEMMA ObjectsKept ==
  ASSUME ModuleTypes, NEW o, NEW b, objects' = [objects EXCEPT ![o].instantiated = b]
  PROVE /\ OwnSeq(objects') /\ Len(objects') = Len(objects)
        /\ \A i \in 1..Len(objects) :
             /\ objects'[i] = [name |-> objects'[i].name, code |-> objects'[i].code,
                               version |-> objects'[i].version, tables |-> objects'[i].tables,
                               read_only |-> objects'[i].read_only,
                               instantiated |-> objects'[i].instantiated]
             /\ objects'[i].name = objects[i].name /\ objects'[i].code = objects[i].code
             /\ objects'[i].version = objects[i].version
             /\ objects'[i].tables = objects[i].tables /\ objects'[i].read_only = objects[i].read_only
<1>1. OwnSeq(objects') /\ Len(objects') = Len(objects)
  BY OwnSeqReplace DEF ModuleTypes
<1>2. DOMAIN objects = 1..Len(objects)
  BY OwnSeqFacts DEF ModuleTypes
<1>3. ASSUME NEW i \in 1..Len(objects), i # o PROVE objects'[i] = objects[i]
  BY <1>2, <1>3
<1>4. ASSUME o \in 1..Len(objects)
      PROVE objects'[o] = [objects[o] EXCEPT !.instantiated = b]
  BY <1>2, <1>4
<1>5. ASSUME o \in 1..Len(objects)
      PROVE objects'[o] = [name |-> objects[o].name, code |-> objects[o].code,
                           version |-> objects[o].version, tables |-> objects[o].tables,
                           read_only |-> objects[o].read_only, instantiated |-> b]
  <2>1. PICK r : r = objects[o]
    OBVIOUS
  <2>2. r = [name |-> r.name, code |-> r.code, version |-> r.version, tables |-> r.tables,
             read_only |-> r.read_only, instantiated |-> r.instantiated]
    BY <1>5, <2>1 DEF ModuleTypes
  <2>3. [r EXCEPT !.instantiated = b]
          = [name |-> r.name, code |-> r.code, version |-> r.version, tables |-> r.tables,
             read_only |-> r.read_only, instantiated |-> b]
    BY <2>2
  <2> QED BY <1>4, <1>5, <2>1, <2>3
<1> QED BY <1>1, <1>3, <1>5 DEF ModuleTypes

\* A call that instantiates, or loses, an instance.
LEMMA DeployExec ==
  ASSUME TickInv, QuietInv, DeployInv, NEW a \in Actors, Lock(a) \/ Trap(a),
         UNCHANGED <<storeVars, serverVars>>
  PROVE DeployInv'
<1> USE DEF DeployInv
<1>1. CASE UNCHANGED objects
  <2>1. UNCHANGED <<objects, modules, load, files, index, saving, deploy, asked, main>>
    BY <1>1 DEF Lock, Trap
  <2> QED BY <2>1 DEF ModuleTypes, FilesAsked, IndexAsked, DeployAsked, SavingAsked, ObjectsAsked,
                      LoadsBound, ModulesBound, RestoreLeft, Asked
<1>2. CASE \E o, b : objects' = [objects EXCEPT ![o].instantiated = b]
  <2>1. /\ OwnSeq(objects') /\ Len(objects') = Len(objects)
        /\ \A i \in 1..Len(objects) :
             /\ objects'[i] = [name |-> objects'[i].name, code |-> objects'[i].code,
                               version |-> objects'[i].version, tables |-> objects'[i].tables,
                               read_only |-> objects'[i].read_only,
                               instantiated |-> objects'[i].instantiated]
             /\ objects'[i].name = objects[i].name /\ objects'[i].code = objects[i].code
             /\ objects'[i].version = objects[i].version
    BY <1>2, ObjectsKept
  <2>2. UNCHANGED <<modules, load, files, index, saving, deploy, asked, main>>
    BY DEF Lock, Trap
  <2>3. ModuleTypes'
    BY <2>1, <2>2 DEF ModuleTypes
  <2>4. (FilesAsked /\ IndexAsked /\ DeployAsked /\ SavingAsked /\ RestoreLeft)'
    BY <2>2 DEF FilesAsked, IndexAsked, DeployAsked, SavingAsked, RestoreLeft, Asked
  <2>5. (ObjectsAsked /\ LoadsBound /\ ModulesBound)'
    BY <2>1, <2>2 DEF ObjectsAsked, LoadsBound, ModulesBound, Asked
  <2> QED BY <2>3, <2>4, <2>5
<1> QED BY <1>1, <1>2 DEF Lock, Trap

\* LoadModule's beginning, of a module that was asked for.
LEMMA DeployLoadBegin ==
  ASSUME CallTypes, DeployInv, NEW a \in Actors, NEW n \in Names, NEW m, LoadBegin(a, n, m),
         asked \subseteq asked', [name |-> n, version |-> m.version, code |-> m.code] \in asked'
  PROVE /\ OwnSeq(objects') /\ UNCHANGED modules
        /\ \A i \in 1..Len(objects') :
             objects'[i] = [name |-> objects'[i].name, code |-> objects'[i].code,
                            version |-> objects'[i].version, tables |-> objects'[i].tables,
                            read_only |-> objects'[i].read_only,
                            instantiated |-> objects'[i].instantiated]
        /\ ObjectsAsked' /\ LoadsBound' /\ ModulesBound'
<1> USE DEF DeployInv
<1>1. UNCHANGED modules
  BY DEF LoadBegin
<1>2. CASE UNCHANGED objects /\ load' = [load EXCEPT ![a] = [at |-> "failed"]]
  BY <1>1, <1>2 DEF ModuleTypes, ObjectsAsked, LoadsBound, ModulesBound, Asked, CallTypes
<1>3. CASE /\ objects' = Append(objects, [name |-> n, code |-> m.code, version |-> m.version,
                                          tables |-> m.tables, read_only |-> m.read_only,
                                          instantiated |-> TRUE])
           /\ load' = [load EXCEPT ![a] = [at |-> "init", name |-> n, obj |-> Len(objects) + 1,
                                           prev |-> modules[n]]]
  <2>1. /\ OwnSeq(objects') /\ Len(objects') = Len(objects) + 1 /\ Len(objects) \in Nat
        /\ \A i \in 1..Len(objects) : objects'[i] = objects[i]
        /\ objects'[Len(objects) + 1] = [name |-> n, code |-> m.code, version |-> m.version,
                                         tables |-> m.tables, read_only |-> m.read_only,
                                         instantiated |-> TRUE]
    BY <1>3, OwnSeqFacts DEF ModuleTypes
  <2>2. \A i \in 1..Len(objects') : i \in 1..Len(objects) \/ i = Len(objects) + 1
    BY <2>1
  <2>3. \A i \in 1..Len(objects') :
             objects'[i] = [name |-> objects'[i].name, code |-> objects'[i].code,
                            version |-> objects'[i].version, tables |-> objects'[i].tables,
                            read_only |-> objects'[i].read_only,
                            instantiated |-> objects'[i].instantiated]
    BY <2>1, <2>2 DEF ModuleTypes
  <2>4. ObjectsAsked'
    BY <2>1, <2>2 DEF ObjectsAsked, Asked
  <2>5. LoadsBound'
    BY <1>3, <2>1, <2>2 DEF LoadsBound, CallTypes
  <2>6. ModulesBound'
    BY <1>1, <2>1 DEF ModulesBound
  <2> QED BY <1>1, <2>1, <2>3, <2>4, <2>5, <2>6
<1> QED BY <1>2, <1>3 DEF LoadBegin

\* A file of a name is replaced.
LEMMA FileReplaced ==
  ASSUME NEW f, f = [n \in Names |-> [wasm |-> f[n].wasm, manifest |-> f[n].manifest]],
         NEW x \in Names, NEW v,
         NEW g, g = [f EXCEPT ![x].wasm = v] \/ g = [f EXCEPT ![x].manifest = v]
  PROVE /\ g = [n \in Names |-> [wasm |-> g[n].wasm, manifest |-> g[n].manifest]]
        /\ \A n \in Names \ {x} : g[n] = f[n]
        /\ g = [f EXCEPT ![x].wasm = v] => g[x].manifest = f[x].manifest /\ g[x].wasm = v
        /\ g = [f EXCEPT ![x].manifest = v] => g[x].manifest = v /\ g[x].wasm = f[x].wasm
  OBVIOUS

\* Handlers' steps: the request, its Save, its failure; and the removal of a module.
LEMMA DeployHandler ==
  ASSUME TickInv, QuietInv, DeployInv, NEW h \in Handlers,
         \/ DeployLoaded(h) \/ DeploySaves(h) \/ DeployWrites(h) \/ DeployDone(h) \/ UndeployRemoves(h)
         \/ \E n \in Names, m \in Deployments : DeployModule(h, n, m)
         \/ \E n \in Names : UndeployModule(h, n)
  PROVE DeployInv'
<1> USE ActorsAssumption DEF DeployInv, QuietInv
<1>1. ASSUME NEW n \in Names, NEW m \in Deployments, DeployModule(h, n, m) PROVE DeployInv'
  <2>1. /\ LoadBegin(h, n, m) /\ asked' = asked \union {[name |-> n, version |-> m.version, code |-> m.code]}
        /\ deploy' = [deploy EXCEPT ![h] = [at |-> "load", name |-> n, module |-> m]]
        /\ UNCHANGED <<files, index, saving, main>>
    BY <1>1 DEF DeployModule
  <2>2. asked \subseteq asked' /\ [name |-> n, version |-> m.version, code |-> m.code] \in asked'
    BY <2>1
  <2>3. /\ OwnSeq(objects') /\ UNCHANGED modules
        /\ \A i \in 1..Len(objects') :
             objects'[i] = [name |-> objects'[i].name, code |-> objects'[i].code,
                            version |-> objects'[i].version, tables |-> objects'[i].tables,
                            read_only |-> objects'[i].read_only,
                            instantiated |-> objects'[i].instantiated]
        /\ ObjectsAsked' /\ LoadsBound' /\ ModulesBound'
    BY <2>1, <2>2, DeployLoadBegin
  <2>4. ModuleTypes'
    BY <2>1, <2>3 DEF ModuleTypes
  <2>5. (FilesAsked /\ IndexAsked /\ SavingAsked /\ RestoreLeft)'
    BY <2>1, <2>2 DEF FilesAsked, IndexAsked, SavingAsked, RestoreLeft, Asked
  <2>6. DeployAsked'
    BY <2>1, <2>2 DEF DeployAsked, Asked, CallTypes
  <2> QED BY <2>3, <2>4, <2>5, <2>6
<1>2. CASE DeployLoaded(h)
  <2>1. /\ load' = [load EXCEPT ![h] = NoLoad]
        /\ deploy' = [deploy EXCEPT ![h] = NoDeploy] \/ deploy' = [deploy EXCEPT ![h].at = "save"]
        /\ deploy[h].at = "load"
        /\ UNCHANGED <<objects, modules, files, index, saving, asked, main>>
    BY <1>2 DEF DeployLoaded, Deploys, DeployStep
  <2>2. (ModuleTypes /\ FilesAsked /\ IndexAsked /\ SavingAsked /\ ObjectsAsked /\ ModulesBound /\ RestoreLeft)'
    BY <2>1 DEF ModuleTypes, FilesAsked, IndexAsked, SavingAsked, ObjectsAsked, ModulesBound,
                RestoreLeft, Asked
  <2>3. LoadsBound'
    BY <2>1 DEF LoadsBound, CallTypes, NoLoad
  <2>4. DeployAsked'
    <3>1. CASE deploy' = [deploy EXCEPT ![h] = NoDeploy]
      BY <2>1, <3>1 DEF DeployAsked, CallTypes, NoDeploy, Asked
    <3>2. CASE deploy' = [deploy EXCEPT ![h].at = "save"]
      BY <2>1, <3>2 DEF DeployAsked, CallTypes, Asked
    <3> QED BY <2>1, <3>1, <3>2
  <2> QED BY <2>2, <2>3, <2>4
<1>3. CASE DeploySaves(h)
  <2>1. /\ saving' = [saving EXCEPT ![h] = [at |-> "tmp", name |-> deploy[h].name,
                                            code |-> deploy[h].module.code,
                                            version |-> deploy[h].module.version]]
        /\ deploy' = [deploy EXCEPT ![h].at = "saving"] /\ deploy[h].at = "save"
        /\ UNCHANGED <<objects, modules, load, files, index, asked, main>>
    BY <1>3 DEF DeploySaves, DeployStep, Deploys, Store!SaveBegin
  <2>2. (FilesAsked /\ IndexAsked /\ ObjectsAsked /\ LoadsBound /\ ModulesBound /\ RestoreLeft)'
    BY <2>1 DEF FilesAsked, IndexAsked, ObjectsAsked, LoadsBound, ModulesBound, RestoreLeft, Asked
  <2>3. ModuleTypes'
    BY <2>1 DEF ModuleTypes
  <2>4. SavingAsked'
    BY <2>1 DEF SavingAsked, DeployAsked, ModuleTypes, Asked
  <2>5. DeployAsked'
    BY <2>1 DEF DeployAsked, CallTypes, Asked
  <2> QED BY <2>2, <2>3, <2>4, <2>5
<1>4. CASE DeployWrites(h)
  <2>1. Store!SaveNext(h) /\ UNCHANGED <<objects, modules, load, deploy, asked, main>>
    BY <1>4 DEF DeployWrites
  <2>2. (DeployAsked /\ ObjectsAsked /\ LoadsBound /\ ModulesBound)'
    BY <2>1 DEF DeployAsked, ObjectsAsked, LoadsBound, ModulesBound, Asked
  <2>3. saving[h].at \in {"tmp", "truncate", "manifest"} /\ \E at : saving' = [saving EXCEPT ![h].at = at]
    BY <2>1 DEF Store!SaveNext, Store!SaveRename, Store!SaveTruncate, Store!SaveManifest,
                Store!SaveStep, Store!SaveFails, Store!Saves
  <2>4. SavingAsked' /\ saving' = [g \in Handlers |-> saving'[g]]
    <3>1. PICK at : saving' = [saving EXCEPT ![h].at = at]
      BY <2>3
    <3>2. saving = [g \in Handlers |-> saving[g]]
      BY DEF ModuleTypes
    <3>3. saving' = [g \in Handlers |-> saving'[g]] /\ \A g \in Handlers \ {h} : saving'[g] = saving[g]
      BY <3>1, <3>2
    <3>4. saving'[h] = [saving[h] EXCEPT !.at = at]
      BY <3>1, <3>2
    <3>5. /\ saving'[h] = [at |-> saving'[h].at, name |-> saving'[h].name, code |-> saving'[h].code,
                           version |-> saving'[h].version]
          /\ saving'[h].name = saving[h].name /\ saving'[h].code = saving[h].code
          /\ saving'[h].version = saving[h].version
      BY <2>3, <3>4 DEF SavingAsked
    <3>6. SavingAsked'
      BY <2>1, <2>3, <3>3, <3>5 DEF SavingAsked, Asked
    <3> QED BY <3>3, <3>6
  <2>5. /\ saving[h].name \in Names
        /\ Asked(saving[h].name, saving[h].version, saving[h].code)
    BY <2>3 DEF SavingAsked
  <2>6. /\ files' = [n \in Names |-> [wasm |-> files'[n].wasm, manifest |-> files'[n].manifest]]
        /\ FilesAsked'
    <3>1. CASE UNCHANGED files
      BY <2>1, <3>1 DEF FilesAsked, ModuleTypes, Asked
    <3>2. ASSUME NEW code, files' = [files EXCEPT ![saving[h].name].wasm = code]
          PROVE /\ files' = [n \in Names |-> [wasm |-> files'[n].wasm, manifest |-> files'[n].manifest]]
                /\ FilesAsked'
      <4>1. /\ \A n \in Names : files'[n].manifest = files[n].manifest
            /\ files' = [n \in Names |-> [wasm |-> files'[n].wasm, manifest |-> files'[n].manifest]]
        <5>1. files = [n \in Names |-> [wasm |-> files[n].wasm, manifest |-> files[n].manifest]]
          BY DEF ModuleTypes
        <5> HIDE DEF DeployInv
        <5>2. PICK x \in Names : x = saving[h].name
          BY <2>5
        <5>3. files' = [files EXCEPT ![x].wasm = code]
          BY <3>2, <5>2
        <5> QED BY <5>1, <5>3, FileReplaced
      <4> QED BY <2>1, <4>1 DEF FilesAsked, Asked
    <3>3. ASSUME NEW m, files' = [files EXCEPT ![saving[h].name].manifest = m],
                 m # Store!Torn => m = [version |-> saving[h].version, sha256 |-> saving[h].code]
          PROVE /\ files' = [n \in Names |-> [wasm |-> files'[n].wasm, manifest |-> files'[n].manifest]]
                /\ FilesAsked'
      <4>0. PICK x \in Names : x = saving[h].name
        BY <2>5
      <4>1. /\ \A n \in Names \ {x} : files'[n] = files[n]
            /\ files'[x].manifest = m
            /\ files' = [n \in Names |-> [wasm |-> files'[n].wasm, manifest |-> files'[n].manifest]]
        <5>1. files = [n \in Names |-> [wasm |-> files[n].wasm, manifest |-> files[n].manifest]]
          BY DEF ModuleTypes
        <5>2. files' = [files EXCEPT ![x].manifest = m]
          BY <3>3, <4>0
        <5> QED BY <5>1, <5>2
      <4>2. ASSUME NEW n \in Names, files'[n].manifest \notin {NoFile, Store!Torn}
            PROVE Asked(n, files[n].manifest.version, files[n].manifest.sha256)'
        <5>1. CASE n = x
          BY <2>1, <2>5, <3>3, <4>0, <4>1, <4>2, <5>1 DEF Asked
        <5>2. CASE n # x
          BY <2>1, <4>1, <4>2, <5>2 DEF FilesAsked, Asked
        <5> QED BY <5>1, <5>2
      <4> QED BY <4>1, <4>2 DEF FilesAsked
    <3> QED BY <2>1, <3>1, <3>2, <3>3 DEF Store!SaveNext, Store!SaveRename, Store!SaveTruncate,
                Store!SaveManifest, Store!SaveFails, Store!Manifest
  <2>7. /\ DOMAIN index' \subseteq Names /\ DOMAIN index \subseteq DOMAIN index'
        /\ \A n \in DOMAIN index' : index'[n] = [version |-> index'[n].version, code |-> index'[n].code]
        /\ IndexAsked'
    <3>1. CASE UNCHANGED index
      BY <2>1, <3>1 DEF IndexAsked, ModuleTypes, Asked
    <3>2. CASE index' = [n \in DOMAIN index \union {saving[h].name} |->
                           IF n = saving[h].name
                           THEN [version |-> saving[h].version, code |-> saving[h].code] ELSE index[n]]
      BY <2>1, <2>5, <3>2 DEF IndexAsked, ModuleTypes, Asked
    <3> QED BY <2>1, <3>1, <3>2 DEF Store!SaveNext, Store!SaveRename, Store!SaveTruncate, Store!SaveManifest
  <2>8. ModuleTypes' /\ RestoreLeft'
    BY <2>1, <2>4, <2>6, <2>7 DEF ModuleTypes, RestoreLeft
  <2> QED BY <2>2, <2>4, <2>6, <2>7, <2>8
<1>5. CASE DeployDone(h)
  <2>1. /\ saving' = [saving EXCEPT ![h] = Store!NotSaving]
        /\ UNCHANGED modules \/ modules' = [modules EXCEPT ![deploy[h].name] = 0]
        /\ deploy' = [deploy EXCEPT ![h] = NoDeploy]
        /\ UNCHANGED <<objects, load, files, index, asked, main>>
    BY <1>5 DEF DeployDone, Store!SaveReturns, UnloadModule
  <2>2. (FilesAsked /\ IndexAsked /\ ObjectsAsked /\ LoadsBound /\ RestoreLeft)'
    BY <2>1 DEF FilesAsked, IndexAsked, ObjectsAsked, LoadsBound, RestoreLeft, Asked
  <2>3. ModuleTypes' /\ ModulesBound'
    BY <2>1 DEF ModuleTypes, ModulesBound
  <2>4. SavingAsked' /\ DeployAsked'
    BY <2>1 DEF SavingAsked, DeployAsked, ModuleTypes, CallTypes, Asked, NoDeploy, Store!NotSaving
  <2> QED BY <2>2, <2>3, <2>4
<1>6. CASE UndeployRemoves(h)
  <2>1. PICK n \in Names : n = deploy[h].name
    BY <1>6 DEF UndeployRemoves, Deploys, DeployAsked
  <2>2. /\ deploy[h].at = "remove"
        /\ index' = [m \in DOMAIN index \ {n} |-> index[m]]
        /\ \/ UNCHANGED files \/ files' = [files EXCEPT ![n] = Store!NoFiles]
           \/ files' = [files EXCEPT ![n].wasm = NoFile] \/ files' = [files EXCEPT ![n].manifest = NoFile]
        /\ deploy' = [deploy EXCEPT ![h] = NoDeploy]
        /\ UNCHANGED <<objects, modules, load, saving, asked, main>>
    BY <1>6, <2>1 DEF UndeployRemoves, Store!Remove, Deploys
  <2>3. (SavingAsked /\ ObjectsAsked /\ LoadsBound /\ ModulesBound)'
    BY <2>2 DEF SavingAsked, ObjectsAsked, LoadsBound, ModulesBound, Asked
  <2>4. RestoreLeft'
    BY <2>2 DEF RestoreLeft, HandlersIdle
  <2>5. /\ files' = [m \in Names |-> [wasm |-> files'[m].wasm, manifest |-> files'[m].manifest]]
        /\ \A m \in Names : files'[m].manifest \in {files[m].manifest, NoFile}
    <3>1. files = [m \in Names |-> [wasm |-> files[m].wasm, manifest |-> files[m].manifest]]
      BY DEF ModuleTypes
    <3>2. CASE UNCHANGED files \/ files' = [files EXCEPT ![n] = Store!NoFiles]
      BY <3>1, <3>2 DEF Store!NoFiles
    <3> HIDE DEF DeployInv
    <3>3. CASE files' = [files EXCEPT ![n].wasm = NoFile] \/ files' = [files EXCEPT ![n].manifest = NoFile]
      <4>1. /\ files' = [m \in Names |-> [wasm |-> files'[m].wasm, manifest |-> files'[m].manifest]]
            /\ \A m \in Names \ {n} : files'[m] = files[m]
            /\ files'[n].manifest \in {files[n].manifest, NoFile}
        BY <3>1, <3>3, FileReplaced
      <4> QED BY <4>1
    <3> QED BY <2>2, <3>2, <3>3
  <2>6. ModuleTypes' /\ IndexAsked' /\ FilesAsked'
    BY <2>2, <2>5 DEF ModuleTypes, IndexAsked, FilesAsked, Asked
  <2>7. DeployAsked'
    BY <2>2 DEF DeployAsked, CallTypes, Asked, NoDeploy
  <2> QED BY <2>3, <2>4, <2>5, <2>6, <2>7
<1>7. ASSUME NEW n \in Names, UndeployModule(h, n) PROVE DeployInv'
  <2>1. /\ modules' = [modules EXCEPT ![n] = 0]
        /\ deploy' = [deploy EXCEPT ![h] = [at |-> "remove", name |-> n]]
        /\ UNCHANGED <<objects, load, files, index, saving, asked, main>>
    BY <1>7 DEF UndeployModule, UnloadModule
  <2>2. (FilesAsked /\ IndexAsked /\ SavingAsked /\ ObjectsAsked /\ LoadsBound /\ RestoreLeft)'
    BY <2>1 DEF FilesAsked, IndexAsked, SavingAsked, ObjectsAsked, LoadsBound, RestoreLeft, Asked
  <2>3. ModuleTypes' /\ ModulesBound'
    BY <2>1 DEF ModuleTypes, ModulesBound
  <2>4. DeployAsked'
    BY <2>1 DEF DeployAsked, CallTypes, Asked
  <2> QED BY <2>2, <2>3, <2>4
<1> QED BY <1>1, <1>2, <1>3, <1>4, <1>5, <1>6, <1>7

\* The beginning of a life: nothing in memory, the index from the files.
LEMMA DeployRestart == DeployInv /\ Restart => DeployInv'
<1> SUFFICES ASSUME DeployInv, Restart PROVE DeployInv'
  OBVIOUS
<1> USE DEF DeployInv
<1>1. /\ objects' = <<>> /\ modules' = [n \in Names |-> 0] /\ load' = [a \in Actors |-> NoLoad]
      /\ deploy' = [h \in Handlers |-> NoDeploy] /\ saving' = [h \in Handlers |-> Store!NotSaving]
      /\ index' = Store!Index /\ main' = [at |-> "restore", left |-> {n \in Names : Store!Indexed(n)}]
      /\ UNCHANGED <<files, asked>>
  BY DEF Restart, Store!StoreInitialize
<1>2. /\ DOMAIN index' = {n \in Names : Store!Indexed(n)}
      /\ \A n \in DOMAIN index' :
           /\ index'[n] = [version |-> index'[n].version, code |-> index'[n].code]
           /\ Asked(n, index'[n].version, index'[n].code)
  <2>1. /\ DOMAIN Store!Index = {n \in Names : Store!Indexed(n)}
        /\ \A n \in DOMAIN Store!Index :
             /\ Store!Index[n] = [version |-> Store!Index[n].version, code |-> Store!Index[n].code]
             /\ Asked(n, Store!Index[n].version, Store!Index[n].code)
    BY IndexFacts DEF ModuleTypes
  <2> QED BY <1>1, <2>1
<1>3. ModuleTypes'
  <2>1. OwnSeq(objects') /\ Len(objects') = 0
    BY <1>1, OwnSeqEmpty
  <2>2. files' = [n \in Names |-> [wasm |-> files'[n].wasm, manifest |-> files'[n].manifest]]
    BY <1>1 DEF ModuleTypes
  <2> QED BY <1>1, <1>2, <2>1, <2>2 DEF ModuleTypes
<1>4. (FilesAsked /\ IndexAsked /\ RestoreLeft)'
  BY <1>1, <1>2 DEF FilesAsked, IndexAsked, RestoreLeft, Asked
<1>5. (DeployAsked /\ SavingAsked)'
  BY <1>1 DEF DeployAsked, SavingAsked, NoDeploy, Store!NotSaving
<1>6. (ObjectsAsked /\ LoadsBound /\ ModulesBound)'
  BY <1>1 DEF ObjectsAsked, LoadsBound, ModulesBound, NoLoad
<1> QED BY <1>3, <1>4, <1>5, <1>6

\* A module of the index is loaded at boot.
LEMMA DeployRestore ==
  ASSUME TickInv, QuietInv, DeployInv, NEW n, n \in main.left, Restore(n)
  PROVE DeployInv'
<1> USE ActorsAssumption DEF DeployInv, QuietInv
<1>1. n \in DOMAIN index /\ n \in Names
  BY DEF Restore, RestoreLeft, ModuleTypes
<1>2. PICK m : /\ m = [code |-> index[n].code, version |-> index[n].version, tables |-> {},
                       read_only |-> FALSE]
               /\ LoadBegin(Main, n, m)
  BY DEF Restore
<1>3. /\ main' = [main EXCEPT !.left = @ \ {n}] /\ main.at = "restore"
      /\ UNCHANGED <<files, index, saving, deploy, asked>>
  BY DEF Restore
<1>4. [name |-> n, version |-> m.version, code |-> m.code] \in asked' /\ asked \subseteq asked'
  BY <1>1, <1>2, <1>3 DEF IndexAsked, Asked
<1>5. /\ OwnSeq(objects') /\ UNCHANGED modules
      /\ \A i \in 1..Len(objects') :
           objects'[i] = [name |-> objects'[i].name, code |-> objects'[i].code,
                          version |-> objects'[i].version, tables |-> objects'[i].tables,
                          read_only |-> objects'[i].read_only,
                          instantiated |-> objects'[i].instantiated]
      /\ ObjectsAsked' /\ LoadsBound' /\ ModulesBound'
  <2>1. Main \in Actors
    OBVIOUS
  <2> QED BY <1>1, <1>2, <1>4, <2>1, DeployLoadBegin
<1>6. ModuleTypes'
  BY <1>3, <1>5 DEF ModuleTypes
<1>7. (FilesAsked /\ IndexAsked /\ SavingAsked /\ DeployAsked)'
  BY <1>3 DEF FilesAsked, IndexAsked, SavingAsked, DeployAsked, Asked
<1>8. RestoreLeft'
  BY <1>3 DEF RestoreLeft, TickInv, MainType
<1> QED BY <1>5, <1>6, <1>7, <1>8

\* The steps of LoadModule after its beginning, and the end of it at boot.
LEMMA DeployLoadNext ==
  ASSUME TickInv, QuietInv, DeployInv, NEW a \in Actors,
         \/ LoadNext(a) /\ UNCHANGED <<storeVars, serverVars>>
         \/ Restored /\ a = Main
  PROVE DeployInv'
<1> USE DEF DeployInv, QuietInv
<1>1. UNCHANGED <<objects, files, index, saving, deploy, asked, main>>
  BY DEF LoadNext, LoadInit, LoadMigrate, LoadSwap, Restored
<1>2. (FilesAsked /\ IndexAsked /\ SavingAsked /\ DeployAsked /\ ObjectsAsked /\ RestoreLeft)'
  BY <1>1 DEF FilesAsked, IndexAsked, SavingAsked, DeployAsked, ObjectsAsked, RestoreLeft, Asked
<1>3. CASE /\ UNCHANGED modules
           /\ \E l : load' = [load EXCEPT ![a] = l] /\ l.at \notin {"init", "migrate", "swap"}
  <2>1. LoadsBound'
    BY <1>1, <1>3 DEF LoadsBound, CallTypes
  <2>2. ModuleTypes' /\ ModulesBound'
    BY <1>1, <1>3 DEF ModuleTypes, ModulesBound
  <2> QED BY <1>2, <2>1, <2>2
<1>4. CASE /\ UNCHANGED modules /\ load[a].at \in {"init", "migrate", "swap"}
           /\ \E at : load' = [load EXCEPT ![a].at = at]
  <2>1. LoadsBound'
    BY <1>1, <1>4 DEF LoadsBound, CallTypes
  <2>2. ModuleTypes' /\ ModulesBound'
    BY <1>1, <1>4 DEF ModuleTypes, ModulesBound
  <2> QED BY <1>2, <2>1, <2>2
<1>5. CASE LoadSwap(a)
  <2>1. PICK n \in Names : n = load[a].name
    BY <1>5 DEF LoadSwap, Loads, LoadsBound
  <2>2. PICK o \in 1..Len(objects) : o = load[a].obj /\ objects[o].name = n
    BY <1>5, <2>1 DEF LoadSwap, Loads, LoadsBound
  <2>3. modules' = [modules EXCEPT ![n] = o] /\ load' = [load EXCEPT ![a] = [at |-> "loaded"]]
    BY <1>5, <2>1, <2>2 DEF LoadSwap
  <2>4. LoadsBound'
    BY <1>1, <2>3 DEF LoadsBound, CallTypes
  <2>5. ModulesBound' /\ ModuleTypes'
    BY <1>1, <2>2, <2>3 DEF ModulesBound, ModuleTypes
  <2> QED BY <1>2, <2>4, <2>5
<1> QED
  <2>1. CASE LoadInit(a)
    BY <1>3, <1>4, <2>1 DEF LoadInit, Loads
  <2>2. CASE LoadMigrate(a)
    <3>1. CASE exec[a].at = "done"
      BY <1>4, <2>2, <3>1 DEF LoadMigrate, Loads
    <3>2. CASE exec[a].at # "done"
      <4>1. load' = [load EXCEPT ![a] = [at |-> "failed"]] /\ UNCHANGED modules
        BY <2>2, <3>2 DEF LoadMigrate
      <4>2. PICK l : l = [at |-> "failed"]
        OBVIOUS
      <4>3. load' = [load EXCEPT ![a] = l] /\ l.at \notin {"init", "migrate", "swap"}
        BY <4>1, <4>2
      <4> QED BY <1>3, <4>1, <4>3
    <3> QED BY <3>1, <3>2
  <2>3. CASE Restored /\ a = Main
    BY <1>3, <2>3 DEF Restored, NoLoad
  <2> QED BY <1>5, <2>1, <2>2, <2>3 DEF LoadNext

LEMMA DeployInductive == TickInv /\ QuietInv /\ DeployInv /\ [Next]_vars => DeployInv'
<1> SUFFICES ASSUME TickInv, QuietInv, DeployInv, [Next]_vars PROVE DeployInv'
  OBVIOUS
<1>1. CASE /\ UNCHANGED <<objects, modules, load, storeVars, deploy, asked>>
           /\ main'.at = "restore" => UNCHANGED main
  BY <1>1 DEF DeployInv, ModuleTypes, FilesAsked, IndexAsked, DeployAsked, SavingAsked, ObjectsAsked,
              LoadsBound, ModulesBound, RestoreLeft, Asked
<1>2. CASE UNCHANGED vars
  BY <1>1, <1>2 DEF vars
<1>3. CASE EngineStopped
  <2>1. /\ modules' = [n \in Names |-> 0] /\ main'.at # "restore"
        /\ UNCHANGED <<objects, load, files, index, saving, deploy, asked>>
    BY <1>3 DEF EngineStopped, MainStep, TickInv, MainType
  <2> QED BY <2>1 DEF DeployInv, ModuleTypes, FilesAsked, IndexAsked, DeployAsked, SavingAsked,
                      ObjectsAsked, LoadsBound, ModulesBound, RestoreLeft, Asked
<1>4. CASE Next
  <2>1. ModuleStep
    BY <1>4, ModuleSteps
  <2>2. CASE Restored
    BY <2>2, DeployLoadNext, ActorsAssumption
  <2> QED BY <1>1, <1>3, <2>1, <2>2, DeployRestart, DeployRestore, DeployLoadNext, DeployExec,
             DeployHandler DEF ModuleStep
<1> QED BY <1>2, <1>4

LEMMA DeployAlways == Spec => [](TickInv /\ QuietInv /\ DeployInv)
<1>1. Init => DeployInv
  BY DeployInit
<1>2. Spec => []TickInv
  BY TickAlways
<1>3. Spec => []QuietInv
  BY QuietAlways
<1>4. TickInv /\ QuietInv /\ DeployInv /\ [Next]_vars => DeployInv'
  BY DeployInductive
<1> QED BY <1>1, <1>2, <1>3, <1>4, PTL DEF Spec

\* The code a name is bound to was asked for, or installed, under the version that goes
\* with it: after a crash between any two file operations of any Save, after failed Saves
\* and removals, for any number of handlers, names, deployments and lives.
THEOREM ModulesAreAsDeployed == Spec => []DeployedPairs
<1>1. DeployInv => DeployedPairs
  BY DEF DeployInv, ModulesBound, ObjectsAsked, DeployedPairs, Asked
<1> QED BY <1>1, DeployAlways, PTL

-----------------------------------------------------------------------------
(***************************************************************************)
(* Calls: the frame of a thread that has one under way, the events it has    *)
(* published, and what it has read.                                          *)
(***************************************************************************)
IsFrame(f) ==
  f = [at |-> f.at, obj |-> f.obj, fn |-> f.fn, todo |-> f.todo, status |-> f.status,
       overlay |-> f.overlay, events |-> f.events, seen |-> f.seen, staged |-> f.staged, n |-> f.n]

FrameOk(f) ==
  /\ IsFrame(f)
  /\ OwnSeq(f.todo) /\ OwnSeq(f.events) /\ OwnSeq(f.staged)
  /\ \A i \in 1..Len(f.todo) : f.todo[i].op \in HostCalls /\ f.todo[i].cell \in Cells
  /\ \A i \in 1..Len(f.staged) : f.staged[i].call = f.n
  /\ DOMAIN f.seen \subseteq Cells

Live(a) == exec[a].at \in {"lock"} \union InCall

MadeType ==
  made = [n |-> made.n, failed |-> made.failed] /\ made.n \in Nat /\ made.failed \subseteq 1..made.n

\* A call under way has its own number, and has not failed.
LiveFrames ==
  \A a \in Actors : Live(a) =>
    /\ FrameOk(exec[a])
    /\ exec[a].n \in 1..made.n /\ exec[a].n \notin made.failed
    /\ exec[a].at = "lock" => DOMAIN exec[a].seen = {}

LiveDistinct == \A a, b \in Actors : Live(a) /\ Live(b) /\ a # b => exec[a].n # exec[b].n

\* What is in the feed is from calls that were made and have not failed, and a call has
\* published nothing before its commit.
FeedOfCalls ==
  /\ OwnSeq(feed)
  /\ \A o \in 1..Len(feed) : feed[o].call \in 1..made.n /\ feed[o].call \notin made.failed
  /\ \A a \in Actors : Live(a) /\ exec[a].at # "publish" =>
       \A o \in 1..Len(feed) : feed[o].call # exec[a].n

\* call_mutex: one call at a time in an object.
Exclusive ==
  \A a, b \in Actors : exec[a].at \in InCall /\ exec[b].at \in InCall /\ a # b => exec[a].obj # exec[b].obj

CallInv == MadeType /\ LiveFrames /\ LiveDistinct /\ FeedOfCalls /\ Exclusive /\ Serialized

\* A frame with another stage, and with other contents.
LEMMA FrameFields ==
  ASSUME NEW f, IsFrame(f), NEW x
  PROVE /\ [f EXCEPT !.at = x]
             = [at |-> x, obj |-> f.obj, fn |-> f.fn, todo |-> f.todo, status |-> f.status,
                overlay |-> f.overlay, events |-> f.events, seen |-> f.seen, staged |-> f.staged, n |-> f.n]
        /\ [f EXCEPT !.todo = x]
             = [at |-> f.at, obj |-> f.obj, fn |-> f.fn, todo |-> x, status |-> f.status,
                overlay |-> f.overlay, events |-> f.events, seen |-> f.seen, staged |-> f.staged, n |-> f.n]
        /\ [f EXCEPT !.overlay = x]
             = [at |-> f.at, obj |-> f.obj, fn |-> f.fn, todo |-> f.todo, status |-> f.status,
                overlay |-> x, events |-> f.events, seen |-> f.seen, staged |-> f.staged, n |-> f.n]
        /\ [f EXCEPT !.events = x]
             = [at |-> f.at, obj |-> f.obj, fn |-> f.fn, todo |-> f.todo, status |-> f.status,
                overlay |-> f.overlay, events |-> x, seen |-> f.seen, staged |-> f.staged, n |-> f.n]
        /\ [f EXCEPT !.seen = x]
             = [at |-> f.at, obj |-> f.obj, fn |-> f.fn, todo |-> f.todo, status |-> f.status,
                overlay |-> f.overlay, events |-> f.events, seen |-> x, staged |-> f.staged, n |-> f.n]
        /\ [f EXCEPT !.staged = x]
             = [at |-> f.at, obj |-> f.obj, fn |-> f.fn, todo |-> f.todo, status |-> f.status,
                overlay |-> f.overlay, events |-> f.events, seen |-> f.seen, staged |-> x, n |-> f.n]
  BY DEF IsFrame

\* A host call leaves the frame's call, stage and writes alone, and remembers nothing
\* but what is committed.
LEMMA StagedFrame ==
  ASSUME NEW f, FrameOk(f), NEW op, op.op \in HostCalls, op.cell \in Cells
  PROVE /\ FrameOk(Staged(f, op))
        /\ Staged(f, op).at = f.at /\ Staged(f, op).obj = f.obj /\ Staged(f, op).n = f.n
        /\ Staged(f, op).todo = f.todo
        /\ \A c \in DOMAIN Staged(f, op).seen :
             \/ Staged(f, op).seen[c] = Committed(c)
             \/ c \in DOMAIN f.seen /\ Staged(f, op).seen[c] = f.seen[c]
<1> USE DEF FrameOk
<1>1. ASSUME NEW cells, cells \subseteq Cells
      PROVE LET g == Look(f, cells)
            IN /\ FrameOk(g) /\ g.at = f.at /\ g.obj = f.obj /\ g.n = f.n /\ g.todo = f.todo
               /\ \A c \in DOMAIN g.seen : \/ g.seen[c] = Committed(c)
                                           \/ c \in DOMAIN f.seen /\ g.seen[c] = f.seen[c]
  <2> DEFINE fresh == {c \in cells : Allowed(f.obj, c[1]) /\ c \notin DOMAIN f.overlay}
  <2> DEFINE s == [c \in fresh \union DOMAIN f.seen |-> IF c \in fresh THEN Committed(c) ELSE f.seen[c]]
  <2>1. Look(f, cells) = [f EXCEPT !.seen = s]
    BY DEF Look, IsFrame
  <2>2. /\ DOMAIN s \subseteq Cells
        /\ \A c \in DOMAIN s : s[c] = Committed(c) \/ (c \in DOMAIN f.seen /\ s[c] = f.seen[c])
    BY <1>1
  <2> HIDE DEF s
  <2>3. Look(f, cells) = [at |-> f.at, obj |-> f.obj, fn |-> f.fn, todo |-> f.todo, status |-> f.status,
                          overlay |-> f.overlay, events |-> f.events, seen |-> s,
                          staged |-> f.staged, n |-> f.n]
    BY <2>1, FrameFields
  <2> QED BY <2>2, <2>3 DEF IsFrame
<1>2. CASE op.op \in {"write", "delete"}
  <2>1. CASE Staged(f, op) = f
    BY <2>1
  <2>2. ASSUME NEW x, Staged(f, op) = [f EXCEPT !.overlay = x]
        PROVE /\ FrameOk(Staged(f, op))
              /\ Staged(f, op).at = f.at /\ Staged(f, op).obj = f.obj /\ Staged(f, op).n = f.n
              /\ Staged(f, op).todo = f.todo /\ Staged(f, op).seen = f.seen
    BY <2>2, FrameFields DEF IsFrame
  <2> QED BY <1>2, <2>1, <2>2 DEF Staged
<1>3. CASE op.op = "emit"
  <2>0. PICK e : e = [topic |-> op.topic, payload |-> op.val]
    OBVIOUS
  <2>1. Staged(f, op) = [f EXCEPT !.events = Append(f.events, e)]
    BY <1>3, <2>0 DEF Staged, IsFrame
  <2>2. OwnSeq(Append(f.events, e))
    BY OwnSeqFacts
  <2>3. Staged(f, op) = [at |-> f.at, obj |-> f.obj, fn |-> f.fn, todo |-> f.todo, status |-> f.status,
                         overlay |-> f.overlay, events |-> Append(f.events, e), seen |-> f.seen,
                         staged |-> f.staged, n |-> f.n]
    BY <2>1, FrameFields
  <2> QED BY <2>2, <2>3 DEF IsFrame
<1>4. CASE op.op = "read"
  <2>1. Staged(f, op) = Look(f, {op.cell})
    BY <1>4 DEF Staged
  <2> QED BY <1>1, <2>1
<1>5. CASE op.op = "scan"
  <2>1. Staged(f, op) = Look(f, {c \in Cells : c[1] = op.cell[1]})
    BY <1>5 DEF Staged
  <2> QED BY <1>1, <2>1
<1> QED BY <1>2, <1>3, <1>4, <1>5 DEF HostCalls

\* A step within a call.
Moves(a, f) ==
  /\ exec' = [exec EXCEPT ![a] = f] /\ UNCHANGED made
  /\ f.at \in InCall /\ FrameOk(f) /\ f.n = exec[a].n /\ f.obj = exec[a].obj
  /\ exec[a].at = "publish" => f.at = "publish"

CallMoves(a) ==
  \/ Fails(a) /\ exec[a].at # "publish" /\ UNCHANGED feed
  \/ Succeeds(a) /\ UNCHANGED feed
  \/ \E f : Moves(a, f) /\ UNCHANGED feed
  \/ /\ exec[a].at = "publish"
     /\ \E f, e : Moves(a, f) /\ e.call = exec[a].n /\ feed' = Append(feed, e)

LEMMA FrameAt ==
  ASSUME NEW f, FrameOk(f), NEW x
  PROVE LET g == [f EXCEPT !.at = x]
        IN FrameOk(g) /\ g.at = x /\ g.n = f.n /\ g.obj = f.obj /\ g.seen = f.seen
<1>1. [f EXCEPT !.at = x]
        = [at |-> x, obj |-> f.obj, fn |-> f.fn, todo |-> f.todo, status |-> f.status,
           overlay |-> f.overlay, events |-> f.events, seen |-> f.seen, staged |-> f.staged, n |-> f.n]
  BY FrameFields DEF FrameOk
<1> QED BY <1>1 DEF FrameOk, IsFrame

\* A call that goes on to its next stage.
LEMMA MoveAt ==
  ASSUME CallTypes, NEW a \in Actors, FrameOk(exec[a]), NEW x \in InCall,
         exec' = [exec EXCEPT ![a].at = x], UNCHANGED <<made, feed>>, exec[a].at # "publish"
  PROVE CallMoves(a)
<1>1. PICK g : g = [exec[a] EXCEPT !.at = x]
  OBVIOUS
<1>2. FrameOk(g) /\ g.at = x /\ g.n = exec[a].n /\ g.obj = exec[a].obj
  BY <1>1, FrameAt
<1>3. exec' = [exec EXCEPT ![a] = g]
  BY <1>1
<1> QED BY <1>2, <1>3 DEF CallMoves, Moves

\* Every step of a call is one of these.
LEMMA ExecMoves ==
  ASSUME CallTypes, NEW a \in Actors, Live(a), FrameOk(exec[a]), ExecNext(a)
  PROVE CallMoves(a)
<1> USE DEF InCall
<1>1. CASE Lock(a)
  <2>1. CASE exec' = [exec EXCEPT ![a].at = "guest"] /\ UNCHANGED made
    BY <1>1, <2>1, MoveAt DEF Lock, ExecAt
  <2> QED BY <1>1, <2>1 DEF Lock, ExecAt, CallMoves
<1>2. CASE HostCall(a)
  <2>1. PICK f : f = exec[a]
    OBVIOUS
  <2>2. /\ exec[a].at = "guest" /\ UNCHANGED <<made, feed>> /\ f.todo # <<>>
        /\ exec' = [exec EXCEPT ![a] = [Staged(f, Head(f.todo)) EXCEPT !.todo = Tail(@)]]
    BY <1>2, <2>1 DEF HostCall, ExecAt
  <2>3. /\ OwnSeq(Tail(f.todo)) /\ Len(f.todo) \in Nat /\ Len(f.todo) >= 1
        /\ Head(f.todo) = f.todo[1] /\ Len(Tail(f.todo)) = Len(f.todo) - 1
        /\ \A i \in 1..Len(Tail(f.todo)) : Tail(f.todo)[i] = f.todo[i + 1]
    BY <2>1, <2>2, OwnSeqFacts DEF FrameOk
  <2>4. PICK op : op = Head(f.todo)
    OBVIOUS
  <2>5. op.op \in HostCalls /\ op.cell \in Cells
    BY <2>1, <2>3, <2>4 DEF FrameOk
  <2>6. PICK g : g = Staged(f, op)
    OBVIOUS
  <2>7. FrameOk(g) /\ g.at = f.at /\ g.obj = f.obj /\ g.n = f.n /\ g.todo = f.todo
    BY <2>1, <2>5, <2>6, StagedFrame
  <2>8. PICK k : k = [g EXCEPT !.todo = Tail(g.todo)]
    OBVIOUS
  <2>9. k = [at |-> g.at, obj |-> g.obj, fn |-> g.fn, todo |-> Tail(g.todo), status |-> g.status,
             overlay |-> g.overlay, events |-> g.events, seen |-> g.seen, staged |-> g.staged, n |-> g.n]
    BY <2>7, <2>8, FrameFields DEF FrameOk
  <2>10. \A i \in 1..Len(k.todo) : k.todo[i].op \in HostCalls /\ k.todo[i].cell \in Cells
    <3>1. \A i \in 1..Len(k.todo) : k.todo[i] = f.todo[i + 1] /\ i + 1 \in 1..Len(f.todo)
      BY <2>3, <2>7, <2>9
    <3> QED BY <2>1, <3>1 DEF FrameOk
  <2>11. FrameOk(k) /\ k.at = "guest" /\ k.n = exec[a].n /\ k.obj = exec[a].obj
    BY <2>1, <2>2, <2>3, <2>7, <2>9, <2>10 DEF FrameOk, IsFrame
  <2>12. exec' = [exec EXCEPT ![a] = k]
    BY <2>2, <2>4, <2>6, <2>8
  <2> QED BY <2>2, <2>11, <2>12 DEF CallMoves, Moves
<1>3. CASE Trap(a)
  BY <1>3 DEF Trap, ExecAt, CallMoves
<1>4. CASE Return(a)
  <2>1. exec[a].at = "guest" /\ UNCHANGED feed
    BY <1>4 DEF Return, ExecAt
  <2>2. CASE Fails(a) \/ Succeeds(a)
    BY <2>1, <2>2 DEF CallMoves
  <2>3. ASSUME NEW x \in {"publish", "create"}, exec' = [exec EXCEPT ![a].at = x], UNCHANGED made
        PROVE CallMoves(a)
    BY <2>1, <2>3, MoveAt
  <2> QED BY <1>4, <2>2, <2>3 DEF Return
<1>5. CASE CreateTables(a)
  <2>1. exec[a].at = "create" /\ UNCHANGED <<feed, made>>
    BY <1>5 DEF CreateTables, ExecAt
  <2>2. CASE exec' = [exec EXCEPT ![a].at = "stage"]
    BY <2>1, <2>2, MoveAt
  <2>3. CASE UNCHANGED exec
    <3>1. exec' = [exec EXCEPT ![a] = exec[a]]
      BY <2>3 DEF CallTypes
    <3> QED BY <2>1, <3>1 DEF CallMoves, Moves
  <2> QED BY <1>5, <2>2, <2>3 DEF CreateTables
<1>6. CASE StageWrite(a)
  <2>1. exec[a].at = "stage" /\ UNCHANGED <<feed, made>>
    BY <1>6 DEF StageWrite, ExecAt
  <2>2. CASE exec' = [exec EXCEPT ![a].at = "commit"]
    BY <2>1, <2>2, MoveAt
  <2>3. ASSUME NEW op, NEW c, NEW new,
               exec' = [exec EXCEPT ![a].staged = Append(@, [op |-> op, cell |-> c, new |-> new,
                                                             call |-> exec[a].n])]
        PROVE CallMoves(a)
    <3>1. PICK w : w = [op |-> op, cell |-> c, new |-> new, call |-> exec[a].n]
      OBVIOUS
    <3>2. PICK f : f = exec[a]
      OBVIOUS
    <3>3. PICK k : k = [f EXCEPT !.staged = Append(f.staged, w)]
      OBVIOUS
    <3>4. exec' = [exec EXCEPT ![a] = k]
      BY <2>3, <3>1, <3>2, <3>3
    <3>5. k = [at |-> f.at, obj |-> f.obj, fn |-> f.fn, todo |-> f.todo, status |-> f.status,
               overlay |-> f.overlay, events |-> f.events, seen |-> f.seen,
               staged |-> Append(f.staged, w), n |-> f.n]
      BY <3>2, <3>3, FrameFields, ZenonT(60) DEF FrameOk
    <3>6. /\ OwnSeq(k.staged) /\ Len(k.staged) = Len(f.staged) + 1 /\ Len(f.staged) \in Nat
          /\ \A i \in 1..Len(f.staged) : k.staged[i] = f.staged[i]
          /\ k.staged[Len(f.staged) + 1] = w
      BY <3>2, <3>5, OwnSeqFacts DEF FrameOk
    <3>7. w.call = f.n
      BY <3>1, <3>2
    <3>8. \A i \in 1..Len(k.staged) : k.staged[i].call = k.n
      BY <3>2, <3>5, <3>6, <3>7 DEF FrameOk
    <3>9. FrameOk(k) /\ k.at = "stage" /\ k.n = exec[a].n /\ k.obj = exec[a].obj
      BY <2>1, <3>2, <3>5, <3>6, <3>8 DEF FrameOk, IsFrame
    <3> QED BY <2>1, <3>4, <3>9 DEF CallMoves, Moves
  <2> QED BY <1>6, <2>2, <2>3 DEF StageWrite
<1>7. CASE Commit(a)
  <2>1. exec[a].at = "commit" /\ UNCHANGED feed
    BY <1>7 DEF Commit, ExecAt
  <2>2. CASE exec' = [exec EXCEPT ![a].at = "publish", ![a].overlay = <<>>] /\ UNCHANGED made
    <3>1. PICK f : f = [exec[a] EXCEPT !.at = "publish"]
      OBVIOUS
    <3>2. PICK k : k = [f EXCEPT !.overlay = <<>>]
      OBVIOUS
    <3>3. exec' = [exec EXCEPT ![a] = k]
      BY <2>2, <3>1, <3>2 DEF CallTypes
    <3>4. FrameOk(f) /\ f.at = "publish" /\ f.n = exec[a].n /\ f.obj = exec[a].obj
      BY <3>1, FrameAt
    <3>5. k = [at |-> f.at, obj |-> f.obj, fn |-> f.fn, todo |-> f.todo, status |-> f.status,
               overlay |-> <<>>, events |-> f.events, seen |-> f.seen, staged |-> f.staged, n |-> f.n]
      BY <3>2, <3>4, FrameFields DEF FrameOk
    <3>6. FrameOk(k) /\ k.at = "publish" /\ k.n = exec[a].n /\ k.obj = exec[a].obj
      BY <3>4, <3>5 DEF FrameOk, IsFrame
    <3> QED BY <2>1, <2>2, <3>3, <3>6 DEF CallMoves, Moves
  <2> QED BY <1>7, <2>1, <2>2 DEF Commit, CallMoves
<1>8. CASE Publish(a)
  <2>1. exec[a].at = "publish"
    BY <1>8 DEF Publish, ExecAt
  <2>2. PICK f : f = exec[a]
    OBVIOUS
  <2>3. CASE f.staged # <<>>
    <3>1. /\ OwnSeq(Tail(f.staged)) /\ Len(f.staged) \in Nat /\ Len(f.staged) >= 1
          /\ Head(f.staged) = f.staged[1] /\ Len(Tail(f.staged)) = Len(f.staged) - 1
          /\ \A i \in 1..Len(Tail(f.staged)) : Tail(f.staged)[i] = f.staged[i + 1]
      BY <2>2, <2>3, OwnSeqFacts DEF FrameOk
    <3>2. PICK k : k = [f EXCEPT !.staged = Tail(f.staged)]
      OBVIOUS
    <3>3. exec' = [exec EXCEPT ![a] = k] /\ feed' = Append(feed, Head(f.staged)) /\ UNCHANGED made
      BY <1>8, <2>2, <2>3, <3>2 DEF Publish
    <3>4. k = [at |-> f.at, obj |-> f.obj, fn |-> f.fn, todo |-> f.todo, status |-> f.status,
               overlay |-> f.overlay, events |-> f.events, seen |-> f.seen,
               staged |-> Tail(f.staged), n |-> f.n]
      BY <2>2, <3>2, FrameFields DEF FrameOk
    <3>5. \A i \in 1..Len(k.staged) : k.staged[i] = f.staged[i + 1] /\ i + 1 \in 1..Len(f.staged)
      BY <3>1, <3>4
    <3>6. \A i \in 1..Len(k.staged) : k.staged[i].call = k.n
      BY <2>2, <3>4, <3>5 DEF FrameOk
    <3>7. FrameOk(k) /\ k.at = "publish" /\ k.n = exec[a].n /\ k.obj = exec[a].obj
      BY <2>1, <2>2, <3>1, <3>4, <3>6 DEF FrameOk, IsFrame
    <3>8. Head(f.staged).call = exec[a].n
      BY <2>2, <3>1 DEF FrameOk
    <3> QED BY <2>1, <3>3, <3>7, <3>8 DEF CallMoves, Moves
  <2>4. CASE f.staged = <<>> /\ f.events # <<>>
    <3>1. OwnSeq(Tail(f.events)) /\ Len(f.events) \in Nat /\ Len(f.events) >= 1
      BY <2>2, <2>4, OwnSeqFacts DEF FrameOk
    <3>2. PICK k : k = [f EXCEPT !.events = Tail(f.events)]
      OBVIOUS
    <3>3. exec' = [exec EXCEPT ![a] = k] /\ feed' = Append(feed, Head(CustomEvents(f))) /\ UNCHANGED made
      BY <1>8, <2>2, <2>4, <3>2 DEF Publish
    <3>4. k = [at |-> f.at, obj |-> f.obj, fn |-> f.fn, todo |-> f.todo, status |-> f.status,
               overlay |-> f.overlay, events |-> Tail(f.events), seen |-> f.seen,
               staged |-> f.staged, n |-> f.n]
      BY <2>2, <3>2, FrameFields, ZenonT(60) DEF FrameOk
    <3>5. FrameOk(k) /\ k.at = "publish" /\ k.n = exec[a].n /\ k.obj = exec[a].obj
      BY <2>1, <2>2, <3>1, <3>4 DEF FrameOk, IsFrame
    <3>6. Head(CustomEvents(f)).call = exec[a].n
      <4>1. Head(CustomEvents(f)) = CustomEvents(f)[1]
        BY <3>1 DEF CustomEvents
      <4> QED BY <2>2, <3>1, <4>1 DEF CustomEvents
    <3> QED BY <2>1, <3>3, <3>5, <3>6 DEF CallMoves, Moves
  <2>5. CASE f.staged = <<>> /\ f.events = <<>>
    BY <1>8, <2>2, <2>5 DEF Publish, CallMoves
  <2> QED BY <2>3, <2>4, <2>5
<1> QED BY <1>1, <1>2, <1>3, <1>4, <1>5, <1>6, <1>7, <1>8 DEF ExecNext

\* A thread's frame is replaced.
LEMMA FrameReplaced ==
  ASSUME CallTypes, NEW a \in Actors, NEW f, exec' = [exec EXCEPT ![a] = f]
  PROVE exec'[a] = f /\ \A b \in Actors \ {a} : exec'[b] = exec[b]
  BY DEF CallTypes

\* A call begins: it has the next number, and has seen and published nothing.
LEMMA FrameBegins ==
  ASSUME NEW fn \in FunctionNames, NEW o, NEW prog \in Guest(fn), NEW n
  PROVE LET f == Frame(o, fn, prog, n)
        IN FrameOk(f) /\ f.n = n /\ f.at = "lock" /\ DOMAIN f.seen = {}
<1>1. PICK f : f = Frame(o, fn, prog, n)
  OBVIOUS
<1>2. f = [at |-> "lock", obj |-> o, fn |-> fn, todo |-> prog.ops, status |-> prog.status,
           overlay |-> <<>>, events |-> <<>>, seen |-> <<>>, staged |-> <<>>, n |-> n]
  BY <1>1 DEF Frame
<1>3. OwnSeq(prog.ops) /\ \A i \in 1..Len(prog.ops) : prog.ops[i].op \in HostCalls /\ prog.ops[i].cell \in Cells
  <2>1. OwnSeq(prog.ops)
    BY GuestAssumption DEF OwnSeq
  <2>2. DOMAIN prog.ops = 1..Len(prog.ops)
    BY <2>1, OwnSeqFacts
  <2> QED BY <2>1, <2>2, GuestAssumption
<1>4. OwnSeq(<<>>) /\ Len(<<>>) = 0 /\ DOMAIN <<>> = {}
  BY OwnSeqEmpty
<1>5. FrameOk(f) /\ f.n = n /\ f.at = "lock" /\ DOMAIN f.seen = {}
  BY <1>2, <1>3, <1>4 DEF FrameOk, IsFrame
<1> QED BY <1>1, <1>5

LEMMA CallInit == Init => CallInv
<1> SUFFICES ASSUME Init PROVE CallInv
  OBVIOUS
<1>1. \A a \in Actors : exec[a].at = "idle"
  BY DEF Init, EngineInit, Idle
<1>2. made = [n |-> 0, failed |-> {}] /\ feed = <<>>
  BY DEF Init, EngineInit
<1>3. MadeType /\ FeedOfCalls
  BY <1>1, <1>2, OwnSeqEmpty DEF MadeType, FeedOfCalls, Live, InCall
<1> QED BY <1>1, <1>3 DEF CallInv, LiveFrames, LiveDistinct, Exclusive, Serialized, Live, InCall

LEMMA CallRestart == CallInv /\ Restart => CallInv'
<1> SUFFICES ASSUME Restart PROVE CallInv'
  OBVIOUS
<1>1. \A a \in Actors : exec'[a].at = "idle"
  BY DEF Restart, Idle
<1>2. made' = [n |-> 0, failed |-> {}] /\ feed' = <<>>
  BY DEF Restart
<1>3. MadeType' /\ FeedOfCalls'
  BY <1>1, <1>2, OwnSeqEmpty DEF MadeType, FeedOfCalls, Live, InCall
<1> QED BY <1>1, <1>3 DEF CallInv, LiveFrames, LiveDistinct, Exclusive, Serialized, Live, InCall

\* A call that is over: its thread is in no call, whatever else the step does to it.
Over(a, f) == exec' = [exec EXCEPT ![a] = f] /\ f.at \in {"idle", "done", "failed"}

LEMMA CallOver ==
  ASSUME CallTypes, CallInv, NEW a \in Actors, NEW f, Over(a, f), UNCHANGED feed,
         \/ UNCHANGED made
         \/ Live(a) /\ exec[a].at # "publish" /\ made' = [made EXCEPT !.failed = @ \union {exec[a].n}]
  PROVE (MadeType /\ LiveFrames /\ LiveDistinct /\ FeedOfCalls /\ Exclusive)'
<1> USE DEF CallInv
<1>1. exec'[a] = f /\ \A b \in Actors \ {a} : exec'[b] = exec[b]
  BY FrameReplaced DEF Over
<1>2. \A b \in Actors : Live(b)' => b # a /\ exec'[b] = exec[b] /\ Live(b)
  BY <1>1 DEF Live, InCall, Over
<1>3. \A b \in Actors : exec'[b].at \in InCall => b # a /\ exec'[b] = exec[b]
  BY <1>1 DEF InCall, Over
<1>4. /\ MadeType' /\ made'.n = made.n
      /\ made'.failed = made.failed \/ (/\ Live(a) /\ exec[a].at # "publish"
                                        /\ made'.failed = made.failed \union {exec[a].n})
  BY DEF MadeType, LiveFrames
<1>5. LiveFrames' /\ LiveDistinct'
  BY <1>2, <1>4 DEF LiveFrames, LiveDistinct
<1>6. FeedOfCalls'
  BY <1>2, <1>4 DEF FeedOfCalls
<1>7. Exclusive'
  BY <1>3 DEF Exclusive
<1> QED BY <1>4, <1>5, <1>6, <1>7

\* A call that begins.
LEMMA CallBegins ==
  ASSUME CallTypes, CallInv, NEW a \in Actors, NEW fn \in FunctionNames, Begins(a, fn), UNCHANGED feed
  PROVE (MadeType /\ LiveFrames /\ LiveDistinct /\ FeedOfCalls /\ Exclusive)'
<1> USE DEF CallInv
<1>1. PICK f : /\ FrameOk(f) /\ f.n = made.n + 1 /\ f.at = "lock" /\ DOMAIN f.seen = {}
               /\ exec' = [exec EXCEPT ![a] = f]
  <2> PICK o : \E prog \in Guest(fn) : exec' = [exec EXCEPT ![a] = Frame(o, fn, prog, made.n + 1)]
    BY DEF Begins
  <2>1. PICK prog \in Guest(fn) : exec' = [exec EXCEPT ![a] = Frame(o, fn, prog, made.n + 1)]
    OBVIOUS
  <2>2. PICK g : g = Frame(o, fn, prog, made.n + 1)
    OBVIOUS
  <2>3. FrameOk(g) /\ g.n = made.n + 1 /\ g.at = "lock" /\ DOMAIN g.seen = {}
    BY <2>2, FrameBegins
  <2> QED BY <2>1, <2>2, <2>3
<1>2. exec'[a] = f /\ \A b \in Actors \ {a} : exec'[b] = exec[b]
  BY <1>1, FrameReplaced
<1>3. made' = [n |-> made.n + 1, failed |-> made.failed] /\ made.n \in Nat
  BY DEF Begins, MadeType
<1>4. \A b \in Actors \ {a} : Live(b)' <=> Live(b)
  BY <1>2 DEF Live
<1>5. MadeType'
  BY <1>3 DEF MadeType
<1>6. LiveFrames' /\ LiveDistinct'
  BY <1>1, <1>2, <1>3, <1>4 DEF LiveFrames, LiveDistinct, MadeType
<1>7. FeedOfCalls'
  BY <1>1, <1>2, <1>3, <1>4 DEF FeedOfCalls, MadeType
<1>8. Exclusive'
  BY <1>1, <1>2 DEF Exclusive, InCall
<1> QED BY <1>5, <1>6, <1>7, <1>8

\* A step within a call, with an event of its own or with none.
LEMMA CallGoesOn ==
  ASSUME CallTypes, CallInv, NEW a \in Actors, Live(a), NEW f, Moves(a, f),
         \/ UNCHANGED feed
         \/ exec[a].at = "publish" /\ \E e : e.call = exec[a].n /\ feed' = Append(feed, e),
         exec[a].at = "lock" => \A b \in Actors : exec[b].at \in InCall => exec[b].obj # exec[a].obj
  PROVE (MadeType /\ LiveFrames /\ LiveDistinct /\ FeedOfCalls /\ Exclusive)'
<1> USE DEF CallInv
<1>1. exec'[a] = f /\ \A b \in Actors \ {a} : exec'[b] = exec[b]
  BY FrameReplaced DEF Moves
<1>2. /\ UNCHANGED made /\ f.at \in InCall /\ FrameOk(f) /\ f.n = exec[a].n /\ f.obj = exec[a].obj
      /\ exec[a].at = "publish" => f.at = "publish"
  BY DEF Moves
<1>3. \A b \in Actors : Live(b)' <=> Live(b)
  BY <1>1, <1>2 DEF Live
<1>4. MadeType'
  BY <1>2 DEF MadeType
<1>5. LiveFrames' /\ LiveDistinct'
  <2>1. \A b \in Actors : exec'[b].n = exec[b].n
    BY <1>1, <1>2
  <2>2. f.at # "lock"
    BY <1>2 DEF InCall
  <2> QED BY <1>1, <1>2, <1>3, <2>1, <2>2 DEF LiveFrames, LiveDistinct
<1>6. Exclusive'
  <2>1. \A b \in Actors \ {a} : exec[b].at \in InCall => exec[b].obj # f.obj
    BY <1>2 DEF Exclusive, Live
  <2> QED BY <1>1, <2>1 DEF Exclusive
<1>7. FeedOfCalls'
  <2>1. exec[a].n \in 1..made.n /\ exec[a].n \notin made.failed
    BY DEF LiveFrames
  <2>2. CASE UNCHANGED feed
    <3>1. \A b \in Actors : Live(b)' /\ exec'[b].at # "publish" =>
            Live(b) /\ exec[b].at # "publish" /\ exec'[b].n = exec[b].n
      BY <1>1, <1>2, <1>3
    <3> QED BY <1>2, <2>2, <3>1 DEF FeedOfCalls
  <2>3. ASSUME exec[a].at = "publish", NEW e, e.call = exec[a].n, feed' = Append(feed, e)
        PROVE FeedOfCalls'
    <3>1. /\ OwnSeq(feed') /\ Len(feed') = Len(feed) + 1 /\ Len(feed) \in Nat
          /\ \A o \in 1..Len(feed) : feed'[o] = feed[o]
          /\ feed'[Len(feed) + 1] = e
      BY <2>3, OwnSeqFacts DEF FeedOfCalls
    <3>2. \A o \in 1..Len(feed') : o \in 1..Len(feed) \/ o = Len(feed) + 1
      BY <3>1
    <3>3. \A o \in 1..Len(feed') : feed'[o].call \in 1..made'.n /\ feed'[o].call \notin made'.failed
      BY <1>2, <2>1, <2>3, <3>1, <3>2 DEF FeedOfCalls
    <3>4. \A b \in Actors : Live(b)' /\ exec'[b].at # "publish" =>
            /\ b # a /\ Live(b) /\ exec[b].at # "publish" /\ exec'[b].n = exec[b].n
            /\ exec[b].n # exec[a].n
      BY <1>1, <1>2, <1>3, <2>3 DEF LiveDistinct
    <3> QED BY <2>3, <3>1, <3>2, <3>3, <3>4 DEF FeedOfCalls
  <2> QED BY <2>2, <2>3
<1> QED BY <1>4, <1>5, <1>6, <1>7

\* What a step of a call remembers, and what it changes: a cell's value changes only
\* with its writer, by a commit, and after it the call is not looked at any more.
LEMMA SeenKept ==
  ASSUME CallTypes, NEW a \in Actors, Live(a), FrameOk(exec[a]), ExecNext(a),
         exec'[a].at \in InCall \ {"publish"}
  PROVE /\ exec'[a].obj = exec[a].obj
        /\ \A c \in DOMAIN exec'[a].seen :
             \/ exec'[a].seen[c] = Committed(c)
             \/ c \in DOMAIN exec[a].seen /\ exec'[a].seen[c] = exec[a].seen[c]
<1>1. CASE HostCall(a)
  <2>1. PICK f : f = exec[a]
    OBVIOUS
  <2>2. /\ f.todo # <<>>
        /\ exec' = [exec EXCEPT ![a] = [Staged(f, Head(f.todo)) EXCEPT !.todo = Tail(@)]]
    BY <1>1, <2>1 DEF HostCall
  <2>3. PICK op : op = Head(f.todo)
    OBVIOUS
  <2>4. op.op \in HostCalls /\ op.cell \in Cells
    <3>1. Len(f.todo) \in Nat /\ Len(f.todo) >= 1 /\ Head(f.todo) = f.todo[1]
      BY <2>1, <2>2, OwnSeqFacts DEF FrameOk
    <3> QED BY <2>1, <2>3, <3>1 DEF FrameOk
  <2>5. PICK g : g = Staged(f, op)
    OBVIOUS
  <2>6. /\ FrameOk(g) /\ g.obj = f.obj
        /\ \A c \in DOMAIN g.seen : \/ g.seen[c] = Committed(c)
                                    \/ c \in DOMAIN f.seen /\ g.seen[c] = f.seen[c]
    BY <2>1, <2>4, <2>5, StagedFrame
  <2>7. PICK k : k = [g EXCEPT !.todo = Tail(g.todo)]
    OBVIOUS
  <2>8. k = [at |-> g.at, obj |-> g.obj, fn |-> g.fn, todo |-> Tail(g.todo), status |-> g.status,
             overlay |-> g.overlay, events |-> g.events, seen |-> g.seen, staged |-> g.staged, n |-> g.n]
    BY <2>6, <2>7, FrameFields DEF FrameOk
  <2>9. exec' = [exec EXCEPT ![a] = k]
    BY <2>2, <2>3, <2>5, <2>7
  <2>10. exec'[a] = k
    BY <2>9, FrameReplaced
  <2>11. k.seen = g.seen /\ k.obj = g.obj
    BY <2>8
  <2> QED BY <2>1, <2>6, <2>10, <2>11
<1>2. ASSUME NEW x, exec' = [exec EXCEPT ![a].at = x]
      PROVE exec'[a].obj = exec[a].obj /\ exec'[a].seen = exec[a].seen
  <2>1. PICK g : g = [exec[a] EXCEPT !.at = x]
    OBVIOUS
  <2>2. exec' = [exec EXCEPT ![a] = g]
    BY <1>2, <2>1
  <2>3. exec'[a] = g
    BY <2>2, FrameReplaced
  <2> QED BY <2>1, <2>3, FrameAt
<1>3. CASE Lock(a) \/ Return(a) \/ CreateTables(a)
  <2>1. CASE \E x : exec' = [exec EXCEPT ![a].at = x]
    BY <1>2, <2>1
  <2>2. CASE Fails(a) \/ Succeeds(a)
    BY <2>2 DEF Fails, Succeeds, InCall, CallTypes
  <2>3. CASE UNCHANGED exec
    BY <2>3
  <2> QED BY <1>3, <2>1, <2>2, <2>3 DEF Lock, Return, CreateTables
<1>4. CASE StageWrite(a)
  <2>1. CASE exec' = [exec EXCEPT ![a].at = "commit"]
    BY <1>2, <2>1
  <2>2. ASSUME NEW w, exec' = [exec EXCEPT ![a].staged = Append(@, w)]
        PROVE exec'[a].obj = exec[a].obj /\ exec'[a].seen = exec[a].seen
    <3>1. PICK f : f = exec[a]
      OBVIOUS
    <3>2. PICK k : k = [f EXCEPT !.staged = Append(f.staged, w)]
      OBVIOUS
    <3>3. exec' = [exec EXCEPT ![a] = k]
      BY <2>2, <3>1, <3>2
    <3>4. k = [at |-> f.at, obj |-> f.obj, fn |-> f.fn, todo |-> f.todo, status |-> f.status,
               overlay |-> f.overlay, events |-> f.events, seen |-> f.seen,
               staged |-> Append(f.staged, w), n |-> f.n]
      BY <3>1, <3>2, FrameFields, ZenonT(60) DEF FrameOk
    <3>5. exec'[a] = k
      BY <3>3, FrameReplaced
    <3> QED BY <3>1, <3>4, <3>5
  <2> QED BY <1>4, <2>1, <2>2 DEF StageWrite
<1>5. CASE Trap(a) \/ Commit(a) \/ Publish(a)
  <2>1. CallMoves(a)
    BY ExecMoves
  <2>2. CASE Trap(a) \/ Fails(a) \/ Succeeds(a)
    BY <2>2 DEF Trap, Fails, Succeeds, InCall, CallTypes
  <2>3. CASE Publish(a)
    <3>1. exec[a].at = "publish"
      BY <2>3 DEF Publish, ExecAt
    <3>2. ASSUME NEW f, Moves(a, f) PROVE exec'[a].at = "publish"
      <4>1. exec' = [exec EXCEPT ![a] = f] /\ f.at = "publish"
        BY <3>1, <3>2 DEF Moves
      <4> QED BY <4>1, FrameReplaced
    <3> QED BY <2>1, <2>2, <3>1, <3>2 DEF CallMoves
  <2>4. CASE exec' = [exec EXCEPT ![a].at = "publish", ![a].overlay = <<>>]
    <3>1. PICK g : g = [exec[a] EXCEPT !.at = "publish"]
      OBVIOUS
    <3>2. PICK k : k = [g EXCEPT !.overlay = <<>>]
      OBVIOUS
    <3>3. exec' = [exec EXCEPT ![a] = k]
      BY <2>4, <3>1, <3>2 DEF CallTypes
    <3>4. FrameOk(g) /\ g.at = "publish"
      BY <3>1, FrameAt
    <3>5. k.at = g.at
      BY <3>2, <3>4, FrameFields DEF FrameOk
    <3> QED BY <3>3, <3>4, <3>5, FrameReplaced
  <2> QED BY <1>5, <2>2, <2>3, <2>4 DEF Commit
<1> QED BY <1>1, <1>3, <1>4, <1>5 DEF ExecNext

LEMMA RowsKept ==
  ASSUME CallTypes, NEW a \in Actors, Live(a), FrameOk(exec[a]), ExecNext(a), NEW c \in Cells
  PROVE \/ Cell(rows', c) = Committed(c) /\ writer'[c] = writer[c]
        \/ /\ exec[a].at \in InCall /\ exec'[a].at \notin InCall \ {"publish"}
           /\ writer'[c] = exec[a].obj
<1>1. CASE UNCHANGED <<rows, writer>>
  BY <1>1 DEF Committed
<1>2. CASE CreateTables(a)
  <2>1. ASSUME NEW t \in Tables, rows[t] = NoTable,
               rows' = [u \in Tables |-> IF u = t THEN EmptyTable ELSE rows[u]]
        PROVE Cell(rows', c) = Committed(c)
    <3>1. c[1] \in Tables /\ c[2] \in Keys
      BY DEF Cells
    <3>2. CASE c[1] = t
      BY <2>1, <3>1, <3>2 DEF Cell, Committed, EmptyTable
    <3>3. CASE c[1] # t
      BY <2>1, <3>1, <3>3 DEF Cell, Committed
    <3> QED BY <3>2, <3>3
  <2>2. UNCHANGED rows \/ \E t \in Tables : /\ rows[t] = NoTable
                                            /\ rows' = [u \in Tables |-> IF u = t THEN EmptyTable ELSE rows[u]]
    BY <1>2 DEF CreateTables, Missing
  <2>3. UNCHANGED writer
    BY <1>2 DEF CreateTables
  <2> QED BY <1>1, <2>1, <2>2, <2>3
<1>3. CASE Commit(a)
  <2>1. PICK tabs : rows' = tabs /\ writer' = Writers(exec[a].obj, tabs)
    BY <1>3 DEF Commit
  <2>2. exec[a].at \in InCall
    BY <1>3 DEF Commit, ExecAt, InCall
  <2>3. exec'[a].at \notin InCall \ {"publish"}
    <3>1. CASE Fails(a)
      BY <3>1 DEF Fails, InCall, CallTypes
    <3>2. CASE exec' = [exec EXCEPT ![a].at = "publish", ![a].overlay = <<>>]
      <4>1. PICK g : g = [exec[a] EXCEPT !.at = "publish"]
        OBVIOUS
      <4>2. PICK k : k = [g EXCEPT !.overlay = <<>>]
        OBVIOUS
      <4>3. exec' = [exec EXCEPT ![a] = k]
        BY <3>2, <4>1, <4>2 DEF CallTypes
      <4>4. FrameOk(g) /\ g.at = "publish"
        BY <4>1, FrameAt
      <4>5. k.at = g.at
        BY <4>2, <4>4, FrameFields DEF FrameOk
      <4> QED BY <4>3, <4>4, <4>5, FrameReplaced
    <3> QED BY <1>3, <3>1, <3>2 DEF Commit
  <2>4. CASE Cell(tabs, c) # Committed(c)
    BY <2>1, <2>2, <2>3, <2>4 DEF Writers
  <2>5. CASE Cell(tabs, c) = Committed(c)
    BY <2>1, <2>5 DEF Writers
  <2> QED BY <2>4, <2>5
<1>4. ExecNext(a) /\ ~CreateTables(a) /\ ~Commit(a) => UNCHANGED <<rows, writer>>
  BY DEF ExecNext, Lock, HostCall, Trap, Return, StageWrite, Publish
<1> QED BY <1>1, <1>2, <1>3, <1>4

\* Steps that leave the rows and their writers alone, and no call but one that has seen nothing.
LEMMA SerializedKept ==
  ASSUME CallTypes, CallInv, NEW a \in Actors, NEW f, exec' = [exec EXCEPT ![a] = f],
         f.at \notin InCall, UNCHANGED <<rows, writer>>
  PROVE Serialized'
<1>1. exec'[a] = f /\ \A b \in Actors \ {a} : exec'[b] = exec[b]
  BY FrameReplaced
<1>2. \A b \in Actors : exec'[b].at \in InCall \ {"publish"} =>
        exec'[b] = exec[b] /\ exec[b].at \in InCall \ {"publish"}
  BY <1>1
<1>3. \A c : Committed(c)' = Committed(c)
  BY DEF Committed
<1> QED BY <1>2, <1>3 DEF CallInv, Serialized

LEMMA CallExec ==
  ASSUME CallTypes, CallInv, NEW a \in Actors, ExecNext(a)
  PROVE CallInv'
<1>1. Live(a)
  BY DEF ExecNext, Lock, HostCall, Trap, Return, CreateTables, StageWrite, Commit, Publish, ExecAt,
         Live, InCall
<1>2. FrameOk(exec[a])
  BY <1>1 DEF CallInv, LiveFrames
<1>3. CallMoves(a)
  BY <1>1, <1>2, ExecMoves
<1>4. (MadeType /\ LiveFrames /\ LiveDistinct /\ FeedOfCalls /\ Exclusive)'
  <2>1. CASE Fails(a) /\ exec[a].at # "publish" /\ UNCHANGED feed
    <3>1. PICK f : f = [at |-> "failed", n |-> exec[a].n]
      OBVIOUS
    <3>2. exec' = [exec EXCEPT ![a] = f] /\ f.at = "failed"
      BY <2>1, <3>1 DEF Fails
    <3>3. Over(a, f)
      BY <3>2 DEF Over
    <3>4. \/ UNCHANGED made
          \/ Live(a) /\ exec[a].at # "publish" /\ made' = [made EXCEPT !.failed = @ \union {exec[a].n}]
      BY <1>1, <2>1 DEF Fails
    <3>5. UNCHANGED feed
      BY <2>1
    <3> QED BY <3>3, <3>4, <3>5, CallOver
  <2>2. CASE Succeeds(a) /\ UNCHANGED feed
    <3>1. PICK f : f = [at |-> "done", n |-> exec[a].n]
      OBVIOUS
    <3>2. exec' = [exec EXCEPT ![a] = f] /\ f.at = "done"
      BY <2>2, <3>1 DEF Succeeds
    <3>3. Over(a, f) /\ UNCHANGED made /\ UNCHANGED feed
      BY <2>2, <3>2 DEF Succeeds, Over
    <3> QED BY <3>3, CallOver
  <2>3. exec[a].at = "lock" => \A b \in Actors : exec[b].at \in InCall => exec[b].obj # exec[a].obj
    <3>1. exec[a].at = "lock" => Lock(a)
      BY DEF ExecNext, HostCall, Trap, Return, CreateTables, StageWrite, Commit, Publish, ExecAt
    <3> QED BY <3>1 DEF Lock
  <2>4. ASSUME NEW f, Moves(a, f), UNCHANGED feed
        PROVE (MadeType /\ LiveFrames /\ LiveDistinct /\ FeedOfCalls /\ Exclusive)'
    BY <1>1, <2>3, <2>4, CallGoesOn
  <2>5. ASSUME exec[a].at = "publish", NEW f, NEW e, Moves(a, f), e.call = exec[a].n,
               feed' = Append(feed, e)
        PROVE (MadeType /\ LiveFrames /\ LiveDistinct /\ FeedOfCalls /\ Exclusive)'
    BY <1>1, <2>3, <2>5, CallGoesOn
  <2> QED BY <1>3, <2>1, <2>2, <2>4, <2>5 DEF CallMoves
<1>5. Serialized'
  <2> SUFFICES ASSUME NEW b \in Actors, exec'[b].at \in InCall \ {"publish"}, NEW c \in DOMAIN exec'[b].seen
               PROVE Cell(rows', c) = exec'[b].seen[c] \/ writer'[c] # exec'[b].obj
    BY DEF Serialized, Committed
  <2>1. c \in Cells
    <3>1. Live(b)'
      BY DEF Live
    <3> QED BY <1>4, <3>1 DEF LiveFrames, FrameOk
  <2>2. \/ Cell(rows', c) = Committed(c) /\ writer'[c] = writer[c]
        \/ /\ exec[a].at \in InCall /\ exec'[a].at \notin InCall \ {"publish"}
           /\ writer'[c] = exec[a].obj
    BY <1>1, <1>2, <2>1, RowsKept
  <2>3. CASE b = a
    <3>1. /\ exec'[a].obj = exec[a].obj
          /\ \/ exec'[a].seen[c] = Committed(c)
             \/ c \in DOMAIN exec[a].seen /\ exec'[a].seen[c] = exec[a].seen[c]
      BY <1>1, <1>2, <2>3, SeenKept
    <3>2. CASE exec'[a].seen[c] = Committed(c)
      BY <2>2, <2>3, <3>2
    <3>3. CASE c \in DOMAIN exec[a].seen /\ exec'[a].seen[c] = exec[a].seen[c]
      <4>1. exec[a].at \in InCall \ {"publish"}
        <5>1. exec[a].at # "lock"
          BY <1>1, <3>3 DEF CallInv, LiveFrames
        <5>2. exec[a].at # "publish"
          <6> SUFFICES ASSUME exec[a].at = "publish" PROVE FALSE
            OBVIOUS
          <6>1. ~Fails(a) /\ ~Succeeds(a)
            BY <2>3 DEF Fails, Succeeds, CallTypes, InCall
          <6>2. PICK f : Moves(a, f)
            BY <1>3, <6>1 DEF CallMoves
          <6>3. exec' = [exec EXCEPT ![a] = f] /\ f.at = "publish"
            BY <6>2 DEF Moves
          <6> QED BY <2>3, <6>3, FrameReplaced
        <5> QED BY <1>1, <5>1, <5>2 DEF Live
      <4>2. Committed(c) = exec[a].seen[c] \/ writer[c] # exec[a].obj
        BY <3>3, <4>1 DEF CallInv, Serialized
      <4> QED BY <2>2, <2>3, <3>1, <3>3, <4>2
    <3> QED BY <3>1, <3>2, <3>3
  <2>4. CASE b # a
    <3>1. exec'[b] = exec[b]
      <4>1. PICK f : exec' = [exec EXCEPT ![a] = f]
        BY ExecNextFrame
      <4> QED BY <2>4, <4>1, FrameReplaced
    <3>2. Committed(c) = exec[b].seen[c] \/ writer[c] # exec[b].obj
      BY <3>1 DEF CallInv, Serialized
    <3>3. exec[a].at \in InCall => exec[a].obj # exec[b].obj
      BY <2>4, <3>1 DEF CallInv, Exclusive
    <3> QED BY <2>2, <3>1, <3>2, <3>3
  <2> QED BY <2>3, <2>4
<1> QED BY <1>4, <1>5 DEF CallInv

LEMMA CallInductive == QuietInv /\ CallInv /\ [Next]_vars => CallInv'
<1> SUFFICES ASSUME QuietInv, CallInv, [Next]_vars PROVE CallInv'
  OBVIOUS
<1>0. CallTypes /\ ClientsIdle
  BY DEF QuietInv
<1>1. CASE UNCHANGED <<exec, made, feed, rows, writer>>
  <2>1. Serialized'
    BY <1>1 DEF CallInv, Serialized, Committed
  <2> QED BY <1>1, <2>1 DEF CallInv, MadeType, LiveFrames, LiveDistinct, FeedOfCalls, Exclusive, Live
<1>2. CASE UNCHANGED vars
  BY <1>1, <1>2 DEF vars
<1>3. CASE Next
  <2>1. CallStep
    BY <1>0, <1>3, CallSteps
  <2>2. ASSUME NEW a \in Actors, NEW fn \in FunctionNames, Begins(a, fn), UNCHANGED <<feed, rows, writer>>
        PROVE CallInv'
    <3>1. (MadeType /\ LiveFrames /\ LiveDistinct /\ FeedOfCalls /\ Exclusive)'
      BY <1>0, <2>2, CallBegins
    <3>2. PICK o : \E prog \in Guest(fn) : exec' = [exec EXCEPT ![a] = Frame(o, fn, prog, made.n + 1)]
      BY <2>2 DEF Begins
    <3>3. PICK prog \in Guest(fn) : exec' = [exec EXCEPT ![a] = Frame(o, fn, prog, made.n + 1)]
      BY <3>2
    <3>4. Frame(o, fn, prog, made.n + 1).at \notin InCall
      BY FrameBegins DEF InCall
    <3>5. Serialized'
      BY <1>0, <2>2, <3>3, <3>4, SerializedKept
    <3> QED BY <3>1, <3>5 DEF CallInv
  <2>3. ASSUME NEW a \in Actors, Refused(a) \/ Returns(a), UNCHANGED <<feed, rows, writer>>
        PROVE CallInv'
    <3>1. PICK f : exec' = [exec EXCEPT ![a] = f] /\ f.at \in {"idle", "failed"} /\ UNCHANGED made
      <4>1. CASE Refused(a)
        <5>1. PICK g : g = [at |-> "failed", n |-> 0]
          OBVIOUS
        <5> QED BY <4>1, <5>1 DEF Refused
      <4>2. CASE Returns(a)
        <5>1. PICK g : g = Idle
          OBVIOUS
        <5>2. exec' = [exec EXCEPT ![a] = g] /\ g.at = "idle" /\ UNCHANGED made
          BY <4>2, <5>1 DEF Returns, Idle
        <5> QED BY <5>2
      <4> QED BY <2>3, <4>1, <4>2
    <3>2. (MadeType /\ LiveFrames /\ LiveDistinct /\ FeedOfCalls /\ Exclusive)'
      <4>1. Over(a, f) /\ UNCHANGED made /\ UNCHANGED feed
        BY <2>3, <3>1 DEF Over
      <4> QED BY <1>0, <4>1, CallOver
    <3>3. Serialized'
      BY <1>0, <2>3, <3>1, SerializedKept DEF InCall
    <3> QED BY <3>2, <3>3 DEF CallInv
  <2> QED BY <1>0, <1>1, <2>1, <2>2, <2>3, CallRestart, CallExec DEF CallStep
<1> QED BY <1>2, <1>3

LEMMA CallAlways == Spec => []CallInv
  BY CallInit, CallInductive, QuietAlways, PTL DEF Spec

\* host_emit_event and CommitHostCall: nothing in the feed is from a call that failed,
\* whoever is calling, however the guests end and whenever the log fails.
THEOREM FailedCallsPublishNothing == Spec => []FailedCallsSilent
<1>1. CallInv => FailedCallsSilent
  BY DEF CallInv, FeedOfCalls, FailedCallsSilent
<1> QED BY <1>1, CallAlways, PTL

\* call_mutex, held from the lookup of the instance through the commit: what a running
\* call has read of the committed rows is not changed by another call of its object.
THEOREM CallsAreSerialized == Spec => []Serialized
<1>1. CallInv => Serialized
  BY DEF CallInv
<1> QED BY <1>1, CallAlways, PTL

\* processing_thread_ holds subscriptions_mutex_ while it is with one event.
Busy == {"sub", "filter", "transform", "emit"}

-----------------------------------------------------------------------------
(***************************************************************************)
(* Whose subscriptions are live, and who holds the mutex.                    *)
(***************************************************************************)
SubTypes ==
  /\ OwnSeq(wsubs)
  /\ \A i \in 1..Len(wsubs) :
       /\ wsubs[i] = [client |-> wsubs[i].client, module |-> wsubs[i].module, tables |-> wsubs[i].tables,
                      filter |-> wsubs[i].filter, transform |-> wsubs[i].transform, since |-> wsubs[i].since, live |-> wsubs[i].live]
       /\ wsubs[i].client \in Clients
  /\ wclient = [c \in Clients |-> wclient[c]]
  /\ \A c \in Clients : OwnSeq(wclient[c])
  /\ wthread.at \in {"wait", "events", "ended"} \union Busy
  /\ OwnSeq(emitted)

MutexHeld ==
  /\ wthread.at \in Busy <=> wmutex = SubThread
  /\ \A c \in Clients : client[c].at \in {"leaving", "initial"} => wmutex = c

\* A live subscription is listed under its connection, which is neither leaving nor gone.
LiveListed ==
  \A i \in 1..Len(wsubs) : wsubs[i].live =>
    /\ client[wsubs[i].client].at \in {"in", "initial"}
    /\ \E j \in 1..Len(wclient[wsubs[i].client]) : wclient[wsubs[i].client][j] = i

\* What the thread works on is live as long as it holds the mutex.
ThreadSubs ==
  /\ wthread.at \in Busy =>
       \A i \in wthread.left : i \in 1..Len(wsubs) /\ wsubs[i].live
  /\ wthread.at \in Busy \ {"sub"} =>
       wthread.sub \in 1..Len(wsubs) /\ wsubs[wthread.sub].live /\ wthread.sub \notin wthread.left
  /\ wthread.at \in {"filter", "transform"} => Stages(wthread.sub) # <<>>

OwnerInv == SubTypes /\ MutexHeld /\ LiveListed /\ ThreadSubs

\* A subscription has no stages exactly if it names no function.
LEMMA StagesFacts ==
  ASSUME NEW i
  PROVE /\ Stages(i) = <<>> <=> (~wsubs[i].filter /\ ~wsubs[i].transform)
        /\ Stages(i) # <<>> => Head(Stages(i)) \in {"filter", "transform"}
<1>1. CASE wsubs[i].filter /\ wsubs[i].transform
  BY <1>1 DEF Stages
<1>2. CASE wsubs[i].filter /\ ~wsubs[i].transform
  BY <1>2 DEF Stages
<1>3. CASE ~wsubs[i].filter /\ wsubs[i].transform
  BY <1>3 DEF Stages
<1>4. CASE ~wsubs[i].filter /\ ~wsubs[i].transform
  BY <1>4 DEF Stages
<1> QED BY <1>1, <1>2, <1>3, <1>4

LEMMA OwnerInit == Init => OwnerInv
<1> SUFFICES ASSUME Init PROVE OwnerInv
  OBVIOUS
<1> USE DEF Init, SubsInit, Waiting, Busy
<1>1. SubTypes
  BY OwnSeqEmpty DEF SubTypes
<1>2. MutexHeld
  BY ThreadsAssumption DEF MutexHeld
<1>3. LiveListed /\ ThreadSubs
  BY OwnSeqEmpty DEF LiveListed, ThreadSubs
<1> QED BY <1>1, <1>2, <1>3 DEF OwnerInv

LEMMA OwnerRestart == Restart => OwnerInv'
<1> SUFFICES ASSUME Restart PROVE OwnerInv'
  OBVIOUS
<1>0. /\ wsubs' = <<>> /\ wclient' = [c \in Clients |-> <<>>] /\ wmutex' = Free
      /\ wthread' = [at |-> "wait", batch |-> <<>>, left |-> {}, sub |-> 0]
      /\ client' = [c \in Clients |-> [at |-> "out"]] /\ emitted' = <<>>
  BY DEF Restart, Waiting
<1>1. SubTypes'
  BY <1>0, OwnSeqEmpty DEF SubTypes
<1>2. MutexHeld'
  BY <1>0, ThreadsAssumption DEF MutexHeld, Busy
<1>3. LiveListed' /\ ThreadSubs'
  BY <1>0, OwnSeqEmpty DEF LiveListed, ThreadSubs, Busy
<1> QED BY <1>1, <1>2, <1>3 DEF OwnerInv

\* The thread's own steps.
LEMMA OwnerThread == QuietInv /\ OwnerInv /\ ThreadNext => OwnerInv'
<1> SUFFICES ASSUME QuietInv, OwnerInv, ThreadNext PROVE OwnerInv'
  OBVIOUS
<1> USE DEF OwnerInv, QuietInv, Busy
<1>0. UNCHANGED <<wsubs, wclient, client>>
  BY DEF ThreadNext, TakeBatch, EventBegins, SubscriptionBegins, StageCall, StageReturns, Emit, EventEnds
<1>1. LiveListed'
  BY <1>0 DEF LiveListed
<1>2. \A i : Stages(i)' = Stages(i)
  BY <1>0 DEF Stages
<1>3. ASSUME UNCHANGED emitted, wthread'.at \in {"wait", "events", "ended"} \union Busy PROVE SubTypes'
  BY <1>0, <1>3 DEF SubTypes
<1>4. CASE TakeBatch
  <2>1. wthread.at = "wait" /\ wthread'.at \in {"events", "ended"} /\ UNCHANGED <<wmutex, emitted>>
    BY <1>4 DEF TakeBatch, SubThreadIdle
  <2> QED BY <1>0, <1>1, <1>3, <2>1 DEF MutexHeld, ThreadSubs
<1>5. CASE EventBegins
  <2>1. /\ wthread' = [at |-> "sub", batch |-> wthread.batch,
                       left |-> {i \in 1..Len(wsubs) : wsubs[i].live}, sub |-> wthread.sub]
        /\ wmutex = Free /\ wmutex' = SubThread /\ UNCHANGED emitted
    BY <1>5 DEF EventBegins, SubThreadIdle
  <2>2. MutexHeld'
    BY <1>0, <2>1, ThreadsAssumption DEF MutexHeld
  <2>3. ThreadSubs'
    BY <1>0, <2>1 DEF ThreadSubs
  <2> QED BY <1>1, <1>3, <2>1, <2>2, <2>3
<1>6. ASSUME NEW i \in wthread.left, SubscriptionBegins(i) PROVE OwnerInv'
  <2>0. CASE ~Matches(i, Head(wthread.batch))
    <3>1. /\ wthread' = [at |-> "sub", batch |-> wthread.batch, left |-> wthread.left \ {i},
                         sub |-> wthread.sub]
          /\ wthread.at = "sub" /\ UNCHANGED <<wmutex, emitted>>
      BY <1>6, <2>0 DEF SubscriptionBegins, SubThreadIdle
    <3>2. MutexHeld' /\ ThreadSubs'
      BY <1>0, <3>1 DEF MutexHeld, ThreadSubs
    <3> QED BY <1>1, <1>3, <3>1, <3>2
  <2> SUFFICES ASSUME Matches(i, Head(wthread.batch)) PROVE OwnerInv'
    BY <2>0
  <2>1. PICK at : at = (IF Stages(i) = <<>> THEN "emit" ELSE Head(Stages(i)))
    OBVIOUS
  <2>2. /\ wthread' = [at |-> at, batch |-> wthread.batch, left |-> wthread.left \ {i}, sub |-> i]
        /\ wthread.at = "sub" /\ UNCHANGED <<wmutex, emitted>>
    BY <1>6, <2>1 DEF SubscriptionBegins, SubThreadIdle
  <2>3. at \in {"emit", "filter", "transform"} /\ (at # "emit" => Stages(i) # <<>>)
    BY <2>1, StagesFacts
  <2>4. MutexHeld'
    BY <1>0, <2>2, <2>3 DEF MutexHeld
  <2>5. ThreadSubs'
    BY <1>0, <1>2, <2>2, <2>3 DEF ThreadSubs
  <2> QED BY <1>1, <1>3, <2>2, <2>3, <2>4, <2>5
<1>7. CASE StageCall
  <2>1. UNCHANGED <<wmutex, emitted, wthread>>
    BY <1>7 DEF StageCall
  <2> QED BY <1>0, <1>1, <1>2, <1>3, <2>1 DEF MutexHeld, ThreadSubs, SubTypes
<1>8. CASE StageReturns
  <2>1. PICK at \in {"transform", "emit", "sub"} :
          /\ wthread' = [at |-> at, batch |-> wthread.batch, left |-> wthread.left, sub |-> wthread.sub]
          /\ wthread.at \in {"filter", "transform"}
          /\ UNCHANGED <<wmutex, emitted>>
    BY <1>8 DEF StageReturns, SubThreadIdle
  <2>2. MutexHeld'
    BY <1>0, <2>1 DEF MutexHeld
  <2>3. ThreadSubs'
    BY <1>0, <1>2, <2>1 DEF ThreadSubs
  <2> QED BY <1>1, <1>3, <2>1, <2>2, <2>3
<1>9. CASE Emit
  <2>1. /\ wthread' = [at |-> "sub", batch |-> wthread.batch, left |-> wthread.left, sub |-> wthread.sub]
        /\ wthread.at = "emit" /\ UNCHANGED wmutex /\ \E e : emitted' = Append(emitted, e)
    BY <1>9 DEF Emit, SubThreadIdle
  <2>2. OwnSeq(emitted')
    BY <2>1, OwnSeqFacts DEF SubTypes
  <2>3. SubTypes'
    BY <1>0, <2>1, <2>2 DEF SubTypes
  <2>4. MutexHeld' /\ ThreadSubs'
    BY <1>0, <2>1 DEF MutexHeld, ThreadSubs
  <2> QED BY <1>1, <2>3, <2>4
<1>10. CASE EventEnds
  <2>1. wthread.at = "sub" /\ wthread'.at \in {"wait", "events"} /\ wmutex' = Free /\ UNCHANGED emitted
    BY <1>10 DEF EventEnds, SubThreadIdle
  <2>2. MutexHeld'
    BY <1>0, <2>1, ThreadsAssumption DEF MutexHeld
  <2> QED BY <1>0, <1>1, <1>3, <2>1, <2>2 DEF ThreadSubs
<1> QED BY <1>4, <1>5, <1>6, <1>7, <1>8, <1>9, <1>10 DEF ThreadNext

\* One field of a subscription is set.
LEMMA SubReplaced ==
  ASSUME NEW r, r = [client |-> r.client, module |-> r.module, tables |-> r.tables, filter |-> r.filter,
                     transform |-> r.transform, since |-> r.since, live |-> r.live], NEW b
  PROVE [r EXCEPT !.live = b]
          = [client |-> r.client, module |-> r.module, tables |-> r.tables, filter |-> r.filter,
             transform |-> r.transform, since |-> r.since, live |-> b]
  OBVIOUS

\* The connections' steps.
LEMMA OwnerClient ==
  ASSUME QuietInv, OwnerInv, NEW c \in Clients,
         ClientNext(c) \/ Connect(c) \/ \E q \in Requests : CreateSubscription(c, q)
  PROVE OwnerInv'
<1> USE ThreadsAssumption DEF OwnerInv, QuietInv
<1>1. UNCHANGED wthread
  BY DEF ClientNext, HookCall, HookReturns, HooksDone, InitialData, Disconnect, Connect, CreateSubscription
<1>2. ASSUME UNCHANGED wsubs PROVE ThreadSubs'
  BY <1>1, <1>2 DEF ThreadSubs, Stages
<1>3. ASSUME UNCHANGED <<wsubs, wclient>>, OwnSeq(emitted') PROVE SubTypes'
  BY <1>1, <1>3 DEF SubTypes
<1>5. CASE \E n \in Names : HookCall(c, n)
  <2>1. /\ \E l : client' = [client EXCEPT ![c].left = l]
        /\ UNCHANGED <<wsubs, wclient, wmutex, emitted>>
    BY <1>5 DEF HookCall
  <2>2. \A d \in Clients : client'[d].at = client[d].at
    BY <2>1 DEF CallTypes
  <2>3. MutexHeld' /\ LiveListed'
    BY <1>1, <2>1, <2>2 DEF MutexHeld, LiveListed, SubTypes
  <2> QED BY <1>2, <1>3, <2>1, <2>3 DEF SubTypes
<1>6. CASE HookReturns(c)
  <2>1. UNCHANGED <<wsubs, wclient, wmutex, emitted, client>>
    BY <1>6 DEF HookReturns
  <2>2. MutexHeld' /\ LiveListed'
    BY <1>1, <2>1 DEF MutexHeld, LiveListed
  <2> QED BY <1>2, <1>3, <2>1, <2>2 DEF SubTypes
<1>7. CASE HooksDone(c) \/ Connect(c)
  <2>1. /\ client'[c].at \in {"gone", "in", "connected"}
        /\ \A d \in Clients \ {c} : client'[d] = client[d]
        /\ wmutex' = (IF wmutex = c /\ client'[c].at # "connected" THEN Free ELSE wmutex)
        /\ client[c].at \in {"out", "connected", "leaving"}
        /\ UNCHANGED <<wsubs, wclient, emitted>>
    <3>1. CASE HooksDone(c)
      BY <3>1 DEF HooksDone, Hooks, CallTypes
    <3>2. CASE Connect(c)
      BY <3>2 DEF Connect, CallTypes
    <3> QED BY <1>7, <3>1, <3>2
  <2>2. MutexHeld'
    BY <1>1, <2>1 DEF MutexHeld
  <2>3. LiveListed'
    BY <2>1, ZenonT(60) DEF LiveListed, SubTypes
  <2> QED BY <1>2, <1>3, <2>1, <2>2, <2>3 DEF SubTypes
<1>8. CASE InitialData(c)
  <2>1. client'[c].at = "in" /\ \A d \in Clients \ {c} : client'[d] = client[d]
    BY <1>8 DEF InitialData, CallTypes
  <2>2. client[c].at = "initial" /\ wmutex' = Free /\ UNCHANGED <<wsubs, wclient>>
    BY <1>8 DEF InitialData
  <2>3. OwnSeq(emitted')
    <3>1. CASE UNCHANGED emitted
      BY <3>1 DEF SubTypes
    <3>2. ASSUME NEW e, emitted' = Append(emitted, e) PROVE OwnSeq(emitted')
      BY <3>2, OwnSeqFacts DEF SubTypes
    <3> QED BY <1>8, <3>1, <3>2 DEF InitialData
  <2>4. MutexHeld'
    <3>1. wmutex = c /\ c # SubThread /\ \A d \in Clients \ {c} : client[d].at \notin {"leaving", "initial"}
      BY <2>2 DEF MutexHeld
    <3> QED BY <1>1, <2>1, <2>2, <3>1 DEF MutexHeld
  <2>5. LiveListed'
    BY <2>1, <2>2, ZenonT(60) DEF LiveListed, SubTypes
  <2> QED BY <1>2, <1>3, <2>2, <2>3, <2>4, <2>5
<1>9. CASE Disconnect(c)
  <2>1. client'[c].at = "leaving" /\ \A d \in Clients \ {c} : client'[d] = client[d]
    BY <1>9 DEF Disconnect, CallTypes
  <2>2. /\ wmutex = Free /\ wmutex' = c
        /\ wsubs' = [i \in 1..Len(wsubs) |-> IF i \in ToSet(wclient[c])
                                             THEN [wsubs[i] EXCEPT !.live = FALSE] ELSE wsubs[i]]
        /\ wclient' = [wclient EXCEPT ![c] = <<>>] /\ UNCHANGED emitted
    BY <1>9 DEF Disconnect
  <2>4. wthread.at \notin Busy
    BY <2>2 DEF MutexHeld
  <2>5. /\ Len(wsubs) \in Nat /\ OwnSeq(wsubs') /\ Len(wsubs') = Len(wsubs)
    <3>1. Len(wsubs) \in Nat
      BY OwnSeqFacts DEF SubTypes
    <3>2. wsubs' = [i \in 1..Len(wsubs) |-> wsubs'[i]]
      BY <2>2
    <3> QED BY <3>1, <3>2, OwnSeqMade
  <2>6. \A i \in 1..Len(wsubs) :
          /\ wsubs'[i] = [client |-> wsubs'[i].client, module |-> wsubs'[i].module, tables |-> wsubs'[i].tables,
                          filter |-> wsubs'[i].filter, transform |-> wsubs'[i].transform,
                          since |-> wsubs'[i].since, live |-> wsubs'[i].live]
          /\ wsubs'[i].client = wsubs[i].client
          /\ wsubs'[i].live => wsubs[i].live /\ i \notin ToSet(wclient[c])
    <3> TAKE i \in 1..Len(wsubs)
    <3>1. PICK r : r = wsubs[i]
      OBVIOUS
    <3>2. r = [client |-> r.client, module |-> r.module, tables |-> r.tables, filter |-> r.filter,
               transform |-> r.transform, since |-> r.since, live |-> r.live]
      BY <3>1 DEF SubTypes
    <3>3. [r EXCEPT !.live = FALSE]
            = [client |-> r.client, module |-> r.module, tables |-> r.tables, filter |-> r.filter,
               transform |-> r.transform, since |-> r.since, live |-> FALSE]
      BY <3>2, SubReplaced
    <3>4. CASE i \in ToSet(wclient[c])
      <4>1. wsubs'[i] = [client |-> r.client, module |-> r.module, tables |-> r.tables, filter |-> r.filter,
                         transform |-> r.transform, since |-> r.since, live |-> FALSE]
        BY <2>2, <3>1, <3>3, <3>4
      <4> QED BY <3>1, <4>1
    <3>5. CASE i \notin ToSet(wclient[c])
      <4>1. wsubs'[i] = r
        BY <2>2, <3>1, <3>5
      <4> QED BY <3>1, <3>2, <3>5, <4>1
    <3> QED BY <3>4, <3>5
  <2>7. SubTypes'
    <3>1. OwnSeq(<<>>)
      BY OwnSeqEmpty
    <3>2. wclient' = [d \in Clients |-> wclient'[d]] /\ \A d \in Clients : OwnSeq(wclient'[d])
      BY <2>2, <3>1 DEF SubTypes
    <3> QED BY <1>1, <2>2, <2>5, <2>6, <3>2 DEF SubTypes
  <2>8. MutexHeld'
    BY <1>1, <2>1, <2>2, <2>4 DEF MutexHeld
  <2>9. ThreadSubs'
    BY <1>1, <2>4 DEF ThreadSubs, Busy
  <2>10. LiveListed'
    <3> SUFFICES ASSUME NEW i \in 1..Len(wsubs), wsubs'[i].live
                 PROVE /\ client'[wsubs'[i].client].at \in {"in", "initial"}
                       /\ \E j \in 1..Len(wclient'[wsubs'[i].client]) : wclient'[wsubs'[i].client][j] = i
      BY <2>5 DEF LiveListed
    <3>1. PICK d \in Clients : d = wsubs[i].client /\ d = wsubs'[i].client
      BY <2>6 DEF SubTypes
    <3>2. wsubs[i].live /\ i \notin ToSet(wclient[c])
      BY <2>6
    <3>3. PICK j \in 1..Len(wclient[d]) : wclient[d][j] = i
      BY <3>1, <3>2 DEF LiveListed
    <3>4. DOMAIN wclient[d] = 1..Len(wclient[d])
      BY OwnSeqFacts DEF SubTypes
    <3>5. d # c
      BY <3>2, <3>3, <3>4 DEF ToSet
    <3>6. wclient'[d] = wclient[d]
      BY <2>2, <3>5 DEF SubTypes
    <3>7. client'[d].at \in {"in", "initial"}
      BY <2>1, <3>1, <3>2, <3>5, ZenonT(60) DEF LiveListed
    <3>8. \E n \in 1..Len(wclient'[d]) : wclient'[d][n] = i
      BY <3>3, <3>6
    <3> QED BY <3>1, <3>7, <3>8, Zenon
  <2> QED BY <2>7, <2>8, <2>9, <2>10
<1>10. ASSUME NEW q \in Requests, CreateSubscription(c, q) PROVE OwnerInv'
  <2>1. PICK r : r = [client |-> c, module |-> q.module, tables |-> q.tables, filter |-> q.filter,
                      transform |-> q.transform, since |-> fed + 1, live |-> TRUE]
    OBVIOUS
  <2>2. /\ client[c].at = "in" /\ wmutex = Free /\ UNCHANGED emitted
        /\ wsubs' = Append(wsubs, r)
        /\ wclient' = [wclient EXCEPT ![c] = Append(@, Len(wsubs) + 1)]
        /\ \/ UNCHANGED <<wmutex, client>>
           \/ wmutex' = c /\ client' = [client EXCEPT ![c] = [at |-> "initial", sub |-> Len(wsubs) + 1]]
    BY <1>10, <2>1 DEF CreateSubscription
  <2>3. wthread.at \notin Busy
    BY <2>2 DEF MutexHeld
  <2>4. /\ Len(wsubs) \in Nat /\ OwnSeq(wsubs') /\ Len(wsubs') = Len(wsubs) + 1
        /\ \A i \in 1..Len(wsubs) : wsubs'[i] = wsubs[i]
        /\ wsubs'[Len(wsubs) + 1] = r
    BY <2>2, OwnSeqFacts DEF SubTypes
  <2>5. /\ Len(wclient[c]) \in Nat /\ OwnSeq(Append(wclient[c], Len(wsubs) + 1))
        /\ Len(Append(wclient[c], Len(wsubs) + 1)) = Len(wclient[c]) + 1
        /\ \A j \in 1..Len(wclient[c]) : Append(wclient[c], Len(wsubs) + 1)[j] = wclient[c][j]
        /\ Append(wclient[c], Len(wsubs) + 1)[Len(wclient[c]) + 1] = Len(wsubs) + 1
    BY OwnSeqFacts DEF SubTypes
  <2>6. /\ wclient' = [d \in Clients |-> wclient'[d]]
        /\ wclient'[c] = Append(wclient[c], Len(wsubs) + 1)
        /\ \A d \in Clients \ {c} : wclient'[d] = wclient[d]
    BY <2>2 DEF SubTypes
  <2>7. client'[c].at \in {"in", "initial"} /\ (client'[c].at = "initial" => wmutex' = c)
    BY <2>2 DEF CallTypes
  <2>8. \A d \in Clients \ {c} : client'[d] = client[d]
    BY <2>2 DEF CallTypes
  <2>9. SubTypes'
    <3>1. \A i \in 1..Len(wsubs') : i \in 1..Len(wsubs) \/ i = Len(wsubs) + 1
      BY <2>4
    <3>2. /\ r = [client |-> r.client, module |-> r.module, tables |-> r.tables, filter |-> r.filter,
                  transform |-> r.transform, since |-> r.since, live |-> r.live]
          /\ r.client \in Clients
      BY <2>1
    <3>3. \A d \in Clients : OwnSeq(wclient'[d])
      BY <2>5, <2>6 DEF SubTypes
    <3> QED BY <1>1, <2>2, <2>4, <2>6, <3>1, <3>2, <3>3 DEF SubTypes
  <2>10. MutexHeld'
    <3>1. \A d \in Clients : client[d].at \notin {"leaving", "initial"}
      BY <2>2 DEF MutexHeld
    <3> QED BY <1>1, <2>2, <2>3, <2>7, <2>8, <3>1 DEF MutexHeld
  <2>11. ThreadSubs'
    BY <1>1, <2>3 DEF ThreadSubs, Busy
  <2>12. LiveListed'
    <3>1. ASSUME NEW i \in 1..Len(wsubs), wsubs'[i].live
          PROVE /\ client'[wsubs'[i].client].at \in {"in", "initial"}
                /\ \E j \in 1..Len(wclient'[wsubs'[i].client]) : wclient'[wsubs'[i].client][j] = i
      <4>1. PICK d \in Clients : d = wsubs[i].client /\ d = wsubs'[i].client
        BY <2>4 DEF SubTypes
      <4>2. client[d].at \in {"in", "initial"} /\ \E j \in 1..Len(wclient[d]) : wclient[d][j] = i
        BY <2>4, <3>1, <4>1 DEF LiveListed
      <4>3. client'[d].at \in {"in", "initial"}
        BY <2>7, <2>8, <4>2
      <4>4. \E j \in 1..Len(wclient'[d]) : wclient'[d][j] = i
        <5>1. CASE d = c
          BY <2>5, <2>6, <4>2, <5>1
        <5>2. CASE d # c
          BY <2>6, <4>2, <5>2
        <5> QED BY <5>1, <5>2
      <4> QED BY <4>1, <4>3, <4>4
    <3>2. /\ client'[wsubs'[Len(wsubs) + 1].client].at \in {"in", "initial"}
          /\ \E j \in 1..Len(wclient'[wsubs'[Len(wsubs) + 1].client]) :
               wclient'[wsubs'[Len(wsubs) + 1].client][j] = Len(wsubs) + 1
      <4>1. wsubs'[Len(wsubs) + 1].client = c
        BY <2>1, <2>4
      <4>2. Len(wclient[c]) + 1 \in 1..Len(wclient'[c]) /\ wclient'[c][Len(wclient[c]) + 1] = Len(wsubs) + 1
        BY <2>5, <2>6
      <4> QED BY <2>7, <4>1, <4>2
    <3>3. \A i \in 1..Len(wsubs') : i \in 1..Len(wsubs) \/ i = Len(wsubs) + 1
      BY <2>4
    <3> QED BY <3>1, <3>2, <3>3 DEF LiveListed
  <2> QED BY <2>9, <2>10, <2>11, <2>12
<1> QED BY <1>5, <1>6, <1>7, <1>8, <1>9, <1>10 DEF ClientNext

\* Shutdown clears the subscriptions.
LEMMA OwnerStopped == OwnerInv /\ SubsStopped => OwnerInv'
<1> SUFFICES ASSUME OwnerInv, SubsStopped PROVE OwnerInv'
  OBVIOUS
<1> USE DEF OwnerInv
<1>1. /\ wsubs' = [i \in 1..Len(wsubs) |-> [wsubs[i] EXCEPT !.live = FALSE]]
      /\ wclient' = [c \in Clients |-> <<>>] /\ wthread.at = "ended"
      /\ UNCHANGED <<wmutex, wthread, client, emitted>>
  BY DEF SubsStopped, SubsJoined
<1>2. Len(wsubs) \in Nat /\ OwnSeq(wsubs') /\ Len(wsubs') = Len(wsubs)
  <2>1. Len(wsubs) \in Nat
    BY OwnSeqFacts DEF SubTypes
  <2>2. wsubs' = [i \in 1..Len(wsubs) |-> wsubs'[i]]
    BY <1>1
  <2> QED BY <2>1, <2>2, OwnSeqMade
<1>3. \A i \in 1..Len(wsubs) :
        /\ wsubs'[i] = [client |-> wsubs'[i].client, module |-> wsubs'[i].module, tables |-> wsubs'[i].tables,
                        filter |-> wsubs'[i].filter, transform |-> wsubs'[i].transform,
                        since |-> wsubs'[i].since, live |-> wsubs'[i].live]
        /\ wsubs'[i].client = wsubs[i].client /\ ~wsubs'[i].live
  <2> TAKE i \in 1..Len(wsubs)
  <2>1. PICK r : r = wsubs[i]
    OBVIOUS
  <2>2. r = [client |-> r.client, module |-> r.module, tables |-> r.tables, filter |-> r.filter,
             transform |-> r.transform, since |-> r.since, live |-> r.live]
    BY <2>1 DEF SubTypes
  <2>3. wsubs'[i] = [client |-> r.client, module |-> r.module, tables |-> r.tables, filter |-> r.filter,
                     transform |-> r.transform, since |-> r.since, live |-> FALSE]
    BY <1>1, <2>1, <2>2, SubReplaced
  <2> QED BY <2>1, <2>3
<1>4. SubTypes'
  BY <1>1, <1>2, <1>3, OwnSeqEmpty DEF SubTypes
<1>5. MutexHeld'
  BY <1>1 DEF MutexHeld
<1>6. LiveListed' /\ ThreadSubs'
  BY <1>1, <1>2, <1>3 DEF LiveListed, ThreadSubs, Busy
<1> QED BY <1>4, <1>5, <1>6

LEMMA OwnerInductive == QuietInv /\ OwnerInv /\ [Next]_vars => OwnerInv'
<1> SUFFICES ASSUME QuietInv, OwnerInv, [Next]_vars PROVE OwnerInv'
  OBVIOUS
<1>1. CASE UNCHANGED <<wsubs, wclient, wmutex, wthread, client, emitted>>
  BY <1>1 DEF OwnerInv, SubTypes, MutexHeld, LiveListed, ThreadSubs, Stages
<1>2. CASE UNCHANGED vars
  BY <1>1, <1>2 DEF vars
<1>3. CASE Next
  <2>1. SubsStep
    BY <1>3, SubsSteps
  <2>2. CASE UNCHANGED subsVars \/ TicksStopped \/ Deliver
    BY <1>1, <2>2 DEF TicksStopped, Deliver
  <2> QED BY <2>1, <2>2, OwnerRestart, OwnerStopped, OwnerThread, OwnerClient DEF SubsStep
<1> QED BY <1>2, <1>3

LEMMA OwnerAlways == Spec => [](QuietInv /\ OwnerInv)
<1>1. Spec => []QuietInv
  BY QuietAlways
<1> QED BY <1>1, OwnerInit, OwnerInductive, PTL DEF Spec

\* Whoever is given an event is connected.
LEMMA EmissionsConnected ==
  QuietInv /\ OwnerInv /\ [Next]_vars =>
    (Len(emitted') > Len(emitted) => client[emitted'[Len(emitted')].client].at \notin {"leaving", "gone"})
<1> SUFFICES ASSUME QuietInv, OwnerInv, [Next]_vars, Len(emitted') > Len(emitted)
             PROVE client[emitted'[Len(emitted')].client].at \notin {"leaving", "gone"}
  OBVIOUS
<1>1. OwnSeq(emitted) /\ Len(emitted) \in Nat
  BY OwnSeqFacts DEF OwnerInv, SubTypes
<1>2. ~UNCHANGED emitted
  BY <1>1
<1>3. ASSUME NEW e, emitted' = Append(emitted, e), e.client \in Clients,
             client[e.client].at \in {"in", "initial"}
      PROVE client[emitted'[Len(emitted')].client].at \notin {"leaving", "gone"}
  <2>1. Len(emitted') = Len(emitted) + 1 /\ emitted'[Len(emitted) + 1] = e
    BY <1>1, <1>3, OwnSeqFacts
  <2> QED BY <1>3, <2>1
<1>4. CASE Emit
  <2>1. PICK e : e = [client |-> wsubs[wthread.sub].client, sub |-> wthread.sub, off |-> Head(wthread.batch)]
    OBVIOUS
  <2>2. emitted' = Append(emitted, e) /\ wthread.at = "emit"
    BY <1>4, <2>1 DEF Emit
  <2>3. wthread.sub \in 1..Len(wsubs) /\ wsubs[wthread.sub].live
    BY <2>2 DEF OwnerInv, ThreadSubs, Busy
  <2>4. e.client \in Clients /\ client[e.client].at \in {"in", "initial"}
    BY <2>1, <2>3 DEF OwnerInv, LiveListed, SubTypes
  <2> QED BY <1>3, <2>2, <2>4
<1>5. ASSUME NEW c \in Clients, InitialData(c)
      PROVE client[emitted'[Len(emitted')].client].at \notin {"leaving", "gone"}
  <2>1. PICK e : e = [client |-> c, sub |-> client[c].sub, off |-> 0]
    OBVIOUS
  <2>2. emitted' = Append(emitted, e) /\ client[c].at = "initial"
    BY <1>2, <1>5, <2>1 DEF InitialData
  <2>3. e.client = c
    BY <2>1
  <2> QED BY <1>3, <2>2, <2>3
<1>6. Next
  BY <1>2 DEF vars
<1>7. SubsStep
  BY <1>6, SubsSteps
<1>8. ~Restart
  <2>1. Restart => Len(emitted') = 0
    BY OwnSeqEmpty DEF Restart
  <2> QED BY <1>1, <2>1
<1>9. ThreadNext => Emit
  BY <1>2 DEF ThreadNext, TakeBatch, EventBegins, SubscriptionBegins, StageCall, StageReturns, EventEnds
<1>10. ASSUME NEW c \in Clients, ClientNext(c) \/ Connect(c) \/ \E q \in Requests : CreateSubscription(c, q)
       PROVE InitialData(c)
  BY <1>2, <1>10 DEF ClientNext, HookCall, HookReturns, HooksDone, Disconnect, Connect, CreateSubscription
<1>11. ~UNCHANGED subsVars /\ ~TicksStopped /\ ~SubsStopped /\ ~Deliver
  BY <1>2 DEF TicksStopped, SubsStopped, Deliver
<1> QED BY <1>4, <1>5, <1>7, <1>8, <1>9, <1>10, <1>11 DEF SubsStep

\* ProcessSingleEvent and OnClientDisconnected exclude each other (subscriptions_mutex_,
\* held while reducers run): no event is given to a connection that is leaving or gone.
THEOREM DisconnectedAreSilent == Spec => SilentAfterDisconnect
<1>1. QuietInv /\ OwnerInv /\ [Next]_vars =>
        (Len(emitted') > Len(emitted) =>
           client[emitted'[Len(emitted')].client].at \notin {"leaving", "gone"})
  BY EmissionsConnected
<1> QED BY <1>1, OwnerAlways, PTL DEF Spec, SilentAfterDisconnect

-----------------------------------------------------------------------------
(***************************************************************************)
(* Every event of a subscription's tables, once and in order.  The batch and *)
(* the queue after it hold the offsets from the first that is not done to    *)
(* the last delivered; the feed only grows, so an event that has matched     *)
(* goes on matching.                                                         *)
(***************************************************************************)
Done == fed - Len(wqueue) - Len(wthread.batch)

Offsets ==
  /\ fed \in Nat /\ OwnSeq(wqueue) /\ OwnSeq(wthread.batch)
  /\ OwnSeq(feed) /\ fed <= Len(feed)
  /\ Len(wqueue) + Len(wthread.batch) <= fed
  /\ \A k \in 1..Len(wqueue) : wqueue[k] = fed - Len(wqueue) + k
  /\ \A k \in 1..Len(wthread.batch) : wthread.batch[k] = Done + k
  /\ Len(wthread.batch) = 0 <=> wthread.at \in {"wait", "ended"}
  /\ \A i \in 1..Len(wsubs) : wsubs[i].since \in Nat \ {0}

Gives(j, i, o) == emitted[j].sub = i /\ emitted[j].off = o

\* What was given is of events that are done, or of the one in hand: then by a
\* subscription that the thread has been with.
EmittedTo ==
  \A j \in 1..Len(emitted) :
    /\ emitted[j].off \in Nat
    /\ emitted[j].off # 0 =>
         \/ emitted[j].off <= Done
         \/ /\ wthread.at \in Busy /\ emitted[j].off = Done + 1
            /\ emitted[j].sub \notin wthread.left
            /\ wthread.at # "sub" => emitted[j].sub # wthread.sub

EmittedInOrder ==
  \A j, k \in 1..Len(emitted) :
    emitted[j].sub = emitted[k].sub /\ emitted[j].off # 0 /\ emitted[k].off # 0 /\ j < k =>
      emitted[j].off < emitted[k].off

\* What was given, and what is on its way, is of the tables that were asked for.
EmittedMatch ==
  /\ \A j \in 1..Len(emitted) : emitted[j].off # 0 =>
       /\ emitted[j].sub \in 1..Len(wsubs) /\ emitted[j].off \in 1..Len(feed)
       /\ Matches(emitted[j].sub, emitted[j].off)
  /\ wthread.at \in Busy \ {"sub"} => Matches(wthread.sub, Done + 1)

Plain(i) == wsubs[i].live /\ Stages(i) = <<>>

\* A plain subscription that the thread has been with has been given the event in hand,
\* if it matches ...
Served ==
  wthread.at \in Busy =>
    \A i \in 1..Len(wsubs) :
      /\ Plain(i) /\ wsubs[i].since <= Done + 1 /\ i \notin wthread.left /\ Matches(i, Done + 1)
      /\ ~(wthread.at = "emit" /\ wthread.sub = i)
      => \E j \in 1..Len(emitted) : Gives(j, i, Done + 1)

\* ... and every matching event since it was made that is done.
Covered ==
  \A i \in 1..Len(wsubs) : Plain(i) =>
    \A o \in wsubs[i].since..Done : Matches(i, o) => \E j \in 1..Len(emitted) : Gives(j, i, o)

OffsetInv == Offsets /\ EmittedTo /\ EmittedInOrder /\ EmittedMatch /\ Served /\ Covered

\* The event in hand.
LEMMA BatchHead ==
  ASSUME Offsets, wthread.at \in Busy
  PROVE /\ Head(wthread.batch) = Done + 1 /\ Done \in Nat
        /\ Done + 1 <= fed /\ Done + 1 \in 1..Len(feed)
<1>1. Len(wqueue) \in Nat /\ Len(wthread.batch) \in Nat /\ fed \in Nat /\ Len(feed) \in Nat
  BY OwnSeqFacts DEF Offsets
<1>2. Len(wthread.batch) # 0
  BY DEF Offsets, Busy
<1>3. wthread.batch # <<>>
  BY <1>2, OwnSeqEmpty
<1>4. Head(wthread.batch) = wthread.batch[1] /\ 1 \in 1..Len(wthread.batch)
  BY <1>1, <1>2, <1>3, OwnSeqFacts DEF Offsets
<1>5. Len(wqueue) + Len(wthread.batch) <= fed /\ fed <= Len(feed)
  BY DEF Offsets
<1>6. Done \in Nat /\ Done + 1 <= fed
  BY <1>1, <1>2, <1>5 DEF Done
<1>7. Done + 1 \in 1..Len(feed)
  BY <1>1, <1>5, <1>6
<1> QED BY <1>4, <1>6, <1>7 DEF Offsets

LEMMA OffsetEmpty ==
  ASSUME wsubs = <<>>, wqueue = <<>>, fed = 0, wthread = Waiting, emitted = <<>>, feed = <<>>
  PROVE OffsetInv
<1>1. /\ OwnSeq(<<>>) /\ Len(<<>>) = 0 /\ wthread.batch = <<>> /\ wthread.at = "wait"
  BY OwnSeqEmpty DEF Waiting
<1>2. Done = 0
  <2>1. Len(wqueue) = 0 /\ Len(wthread.batch) = 0 /\ fed = 0
    BY <1>1
  <2>2. \A q, b, f : q = 0 /\ b = 0 /\ f = 0 => f - q - b = 0
    OBVIOUS
  <2> QED BY <2>1, <2>2 DEF Done
<1>3. Offsets
  BY <1>1, <1>2 DEF Offsets
<1> QED BY <1>1, <1>3 DEF OffsetInv, EmittedTo, EmittedInOrder, EmittedMatch, Served, Covered, Busy

\* Steps that change neither the events nor the thread, and make no subscription plain.
LEMMA OffsetKept ==
  ASSUME OwnerInv, OffsetInv, UNCHANGED <<fed, wqueue, wthread, feed>>, Len(wsubs') = Len(wsubs),
         \A i \in 1..Len(wsubs) : /\ wsubs'[i].since = wsubs[i].since
                                  /\ wsubs'[i].tables = wsubs[i].tables
                                  /\ Plain(i)' => Plain(i),
         \/ UNCHANGED emitted
         \/ \E e : e.off = 0 /\ emitted' = Append(emitted, e)
  PROVE OffsetInv'
<1> USE DEF OffsetInv
<1>1. Done' = Done
  BY DEF Done
<1>2. Offsets'
  BY <1>1 DEF Offsets
<1>3. /\ Len(emitted) \in Nat /\ Len(emitted') \in Nat /\ Len(emitted) <= Len(emitted')
      /\ \A j \in 1..Len(emitted) : emitted'[j] = emitted[j]
      /\ \A j \in 1..Len(emitted') : j \in 1..Len(emitted) \/ emitted'[j].off = 0
  <2>1. Len(emitted) \in Nat /\ OwnSeq(emitted)
    BY OwnSeqFacts DEF OwnerInv, SubTypes
  <2>2. ASSUME NEW e, e.off = 0, emitted' = Append(emitted, e)
        PROVE /\ Len(emitted') = Len(emitted) + 1
              /\ \A j \in 1..Len(emitted) : emitted'[j] = emitted[j]
              /\ emitted'[Len(emitted) + 1].off = 0
    BY <2>1, <2>2, OwnSeqFacts
  <2>3. CASE UNCHANGED emitted
    BY <2>1, <2>3
  <2>4. CASE \E e : e.off = 0 /\ emitted' = Append(emitted, e)
    <3>1. PICK e : e.off = 0 /\ emitted' = Append(emitted, e)
      BY <2>4
    <3>2. /\ Len(emitted') = Len(emitted) + 1
          /\ \A j \in 1..Len(emitted) : emitted'[j] = emitted[j]
          /\ emitted'[Len(emitted) + 1].off = 0
      BY <2>2, <3>1
    <3> QED BY <2>1, <3>2
  <2> QED BY <2>3, <2>4
<1>4. EmittedTo'
  BY <1>1, <1>3 DEF EmittedTo
<1>5. EmittedInOrder'
  BY <1>3 DEF EmittedInOrder
<1>6. \A i, o : (\E j \in 1..Len(emitted) : Gives(j, i, o)) => \E j \in 1..Len(emitted') : Gives(j, i, o)'
  BY <1>3 DEF Gives
<1>7. Served'
  <2> SUFFICES ASSUME wthread'.at \in Busy, NEW i \in 1..Len(wsubs), Plain(i)', wsubs'[i].since <= Done' + 1,
                      i \notin wthread'.left, ~(wthread'.at = "emit" /\ wthread'.sub = i),
                      Matches(i, Done + 1)'
               PROVE \E j \in 1..Len(emitted') : Gives(j, i, Done + 1)'
    BY DEF Served
  <2>0. Matches(i, Done + 1)
    BY <1>1 DEF Matches
  <2>1. \E j \in 1..Len(emitted) : Gives(j, i, Done + 1)
    BY <1>1, <2>0 DEF Served
  <2>2. PICK o : o = Done + 1 /\ o = Done' + 1
    BY <1>1
  <2>3. \E j \in 1..Len(emitted') : Gives(j, i, o)'
    BY <1>6, <2>1, <2>2
  <2> QED BY <2>2, <2>3 DEF Gives
<1>8. Covered'
  <2> SUFFICES ASSUME NEW i \in 1..Len(wsubs), Plain(i)', NEW o \in wsubs'[i].since..Done',
                      Matches(i, o)'
               PROVE \E j \in 1..Len(emitted') : Gives(j, i, o)'
    BY DEF Covered
  <2>0. Matches(i, o)
    BY DEF Matches
  <2>1. \E j \in 1..Len(emitted) : Gives(j, i, o)
    BY <1>1, <2>0 DEF Covered
  <2> QED BY <1>6, <2>1
<1>9. EmittedMatch'
  <2>1. \A i \in 1..Len(wsubs) : \A o : Matches(i, o) => Matches(i, o)'
    BY DEF Matches
  <2>2. ASSUME NEW j \in 1..Len(emitted'), emitted'[j].off # 0
        PROVE /\ emitted'[j].sub \in 1..Len(wsubs') /\ emitted'[j].off \in 1..Len(feed')
              /\ Matches(emitted[j].sub, emitted[j].off)'
    <3>1. j \in 1..Len(emitted) /\ emitted'[j] = emitted[j]
      BY <1>3, <2>2
    <3>2. PICK i, o : i = emitted[j].sub /\ o = emitted[j].off
      OBVIOUS
    <3>3. i \in 1..Len(wsubs) /\ o \in 1..Len(feed) /\ Matches(i, o)
      BY <2>2, <3>1, <3>2 DEF EmittedMatch
    <3>4. Matches(i, o)'
      BY <2>1, <3>3
    <3>5. emitted'[j].sub = i /\ emitted'[j].off = o
      BY <3>1, <3>2
    <3> QED BY <3>3, <3>4, <3>5 DEF Matches
  <2>3. ASSUME wthread'.at \in Busy \ {"sub"} PROVE Matches(wthread.sub, Done + 1)'
    <3>1. wthread.sub \in 1..Len(wsubs) /\ Matches(wthread.sub, Done + 1)
      BY <2>3 DEF EmittedMatch, OwnerInv, ThreadSubs
    <3> QED BY <1>1, <3>1 DEF Matches
  <2> QED BY <2>2, <2>3 DEF EmittedMatch
<1> QED BY <1>2, <1>4, <1>5, <1>7, <1>8, <1>9

\* ProcessChangefeedEvent: one more offset in the queue.
LEMMA OffsetDeliver == OwnerInv /\ OffsetInv /\ Deliver => OffsetInv'
<1> SUFFICES ASSUME OwnerInv, OffsetInv, Deliver PROVE OffsetInv'
  OBVIOUS
<1> USE DEF OffsetInv
<1>1. /\ fed' = fed + 1 /\ wqueue' = Append(wqueue, fed + 1) /\ fed < Len(feed)
      /\ UNCHANGED <<wsubs, wthread, emitted, feed>>
  BY DEF Deliver
<1>2. /\ OwnSeq(wqueue') /\ Len(wqueue') = Len(wqueue) + 1 /\ Len(wqueue) \in Nat
      /\ \A k \in 1..Len(wqueue) : wqueue'[k] = wqueue[k]
      /\ wqueue'[Len(wqueue) + 1] = fed + 1
  BY <1>1, OwnSeqFacts DEF Offsets
<1>3. Len(wthread.batch) \in Nat /\ fed \in Nat
  BY OwnSeqFacts DEF Offsets
<1>4. Done' = Done
  BY <1>1, <1>2, <1>3 DEF Done
<1>5. Offsets'
  <2>1. \A k \in 1..Len(wqueue') : wqueue'[k] = fed' - Len(wqueue') + k
    <3>1. \A k \in 1..Len(wqueue) : wqueue[k] = fed - Len(wqueue) + k
      BY DEF Offsets
    <3>2. fed' = fed + 1 /\ \A k \in 1..Len(wqueue') : k \in 1..Len(wqueue) \/ k = Len(wqueue) + 1
      BY <1>1, <1>2
    <3> QED BY <1>2, <1>3, <3>1, <3>2
  <2>2. \A k \in 1..Len(wthread'.batch) : wthread'.batch[k] = Done' + k
    BY <1>1, <1>4 DEF Offsets
  <2>3. Len(wqueue') + Len(wthread'.batch) <= fed' /\ fed' \in Nat
    <3>1. Len(wqueue) + Len(wthread.batch) <= fed
      BY DEF Offsets
    <3>2. fed' = fed + 1 /\ Len(wthread'.batch) = Len(wthread.batch) /\ Len(wqueue') = Len(wqueue) + 1
      BY <1>1, <1>2
    <3>3. \A a, b, c \in Nat : a + b <= c => (a + 1) + b <= c + 1 /\ c + 1 \in Nat
      OBVIOUS
    <3>4. Len(wqueue) \in Nat
      BY <1>2
    <3> QED BY <1>3, <3>1, <3>2, <3>3, <3>4, Zenon
  <2>4. OwnSeq(wqueue') /\ OwnSeq(wthread'.batch)
    BY <1>1, <1>2 DEF Offsets
  <2>5. /\ Len(wthread'.batch) = 0 <=> wthread'.at \in {"wait", "ended"}
        /\ \A i \in 1..Len(wsubs') : wsubs'[i].since \in Nat \ {0}
    BY <1>1 DEF Offsets
  <2>6. OwnSeq(feed') /\ fed' <= Len(feed')
    <3>1. OwnSeq(feed) /\ Len(feed) \in Nat
      BY OwnSeqFacts DEF Offsets
    <3> QED BY <1>1, <1>3, <3>1
  <2> QED BY <2>1, <2>2, <2>3, <2>4, <2>5, <2>6, Zenon DEF Offsets
<1>6. EmittedMatch'
  BY <1>1, <1>4 DEF EmittedMatch, Matches
<1>7. \A i, o : Matches(i, o)' <=> Matches(i, o)
  BY <1>1 DEF Matches
<1>8. Served' /\ Covered'
  BY <1>1, <1>4, <1>7, SMTT(30) DEF Served, Covered, Plain, Stages, Gives, Matches
<1> QED BY <1>1, <1>4, <1>5, <1>6, <1>8, SMTT(30) DEF EmittedTo, EmittedInOrder

\* The thread takes the queue as its batch, or ends.
LEMMA OffsetTakeBatch == QuietInv /\ OwnerInv /\ OffsetInv /\ TakeBatch => OffsetInv'
<1> SUFFICES ASSUME QuietInv, OwnerInv, OffsetInv, TakeBatch PROVE OffsetInv'
  OBVIOUS
<1> USE DEF OffsetInv
<1>1. wthread.at = "wait" /\ UNCHANGED <<wsubs, fed, emitted, feed>>
  BY DEF TakeBatch
<1>2. Len(wthread.batch) = 0 /\ Len(wqueue) \in Nat /\ fed \in Nat
  BY <1>1, OwnSeqFacts DEF Offsets
<1>3. CASE wqueue # <<>> /\ wqueue' = <<>> /\ wthread'.at = "events" /\ wthread'.batch = wqueue
  <2>1. OwnSeq(<<>>) /\ Len(wqueue') = 0 /\ Len(wthread'.batch) = Len(wqueue)
    BY <1>3, OwnSeqEmpty
  <2>2. Len(wqueue) >= 1
    BY <1>3, OwnSeqFacts DEF Offsets
  <2>3. Done' = Done
    BY <1>1, <1>2, <2>1 DEF Done
  <2>4. Offsets'
    <3>1. \A k \in 1..Len(wthread'.batch) : wthread'.batch[k] = Done + k
      BY <1>2, <1>3, <2>1 DEF Offsets, Done
    <3> QED BY <1>1, <1>2, <1>3, <2>1, <2>2, <2>3, <3>1 DEF Offsets
  <2>5. wthread.at \notin Busy /\ wthread'.at \notin Busy
    BY <1>1, <1>3 DEF Busy
  <2> QED BY <1>1, <2>3, <2>4, <2>5 DEF EmittedTo, EmittedInOrder, EmittedMatch, Served, Covered,
                                        Plain, Stages, Gives, Matches
<1>4. CASE UNCHANGED wqueue /\ wthread'.at = "ended" /\ wthread'.batch = wthread.batch
  <2>1. Done' = Done
    BY <1>1, <1>4 DEF Done
  <2>2. Offsets'
    BY <1>1, <1>2, <1>4, <2>1 DEF Offsets
  <2>3. wthread.at \notin Busy /\ wthread'.at \notin Busy
    BY <1>1, <1>4 DEF Busy
  <2> QED BY <1>1, <2>1, <2>2, <2>3 DEF EmittedTo, EmittedInOrder, EmittedMatch, Served, Covered,
                                        Plain, Stages, Gives, Matches
<1> QED BY <1>3, <1>4 DEF TakeBatch, QuietInv, SubThreadIdle

\* The thread's steps within one event, without an emission.
LEMMA OffsetWithin ==
  ASSUME QuietInv, OwnerInv, OffsetInv,
         EventBegins \/ StageCall \/ StageReturns \/ \E i \in wthread.left : SubscriptionBegins(i)
  PROVE OffsetInv'
<1> USE DEF OffsetInv
<1>1. UNCHANGED <<wsubs, fed, wqueue, emitted, feed>>
  BY DEF EventBegins, StageCall, StageReturns, SubscriptionBegins, OnlyExec
<1>2. wthread'.batch = wthread.batch /\ wthread'.at \in Busy /\ wthread.at \in Busy \union {"events"}
  <2>1. CASE EventBegins
    BY <2>1 DEF EventBegins, QuietInv, SubThreadIdle, Busy
  <2>2. CASE StageCall
    BY <2>2 DEF StageCall, Busy
  <2>3. CASE StageReturns
    BY <2>3 DEF StageReturns, QuietInv, SubThreadIdle, Busy
  <2>4. ASSUME NEW i \in wthread.left, SubscriptionBegins(i)
        PROVE wthread'.batch = wthread.batch /\ wthread'.at \in Busy /\ wthread.at \in Busy \union {"events"}
    <3>1. PICK at : at = (IF Stages(i) = <<>> THEN "emit" ELSE Head(Stages(i)))
      OBVIOUS
    <3>2. at \in Busy
      BY <3>1, StagesFacts DEF Busy
    <3> QED BY <2>4, <3>1, <3>2 DEF SubscriptionBegins, QuietInv, SubThreadIdle, Busy
  <2> QED BY <2>1, <2>2, <2>3, <2>4
<1>3. Done' = Done
  BY <1>1, <1>2 DEF Done
<1>4. Offsets'
  BY <1>1, <1>2, <1>3 DEF Offsets, Busy
<1>5. /\ EmittedInOrder' /\ Covered'
      /\ (wthread'.at \in Busy \ {"sub"} => Matches(wthread.sub, Done + 1)') => EmittedMatch'
  BY <1>1, <1>3 DEF EmittedInOrder, EmittedMatch, Covered, Plain, Stages, Gives, Matches
<1>6. CASE EventBegins
  <2>1. /\ wthread.at = "events"
        /\ wthread' = [at |-> "sub", batch |-> wthread.batch,
                       left |-> {i \in 1..Len(wsubs) : wsubs[i].live}, sub |-> wthread.sub]
    BY <1>6 DEF EventBegins, QuietInv, SubThreadIdle
  <2>2. EmittedTo'
    BY <1>1, <1>3, <2>1 DEF EmittedTo, Busy
  <2>3. Served'
    BY <1>1, <2>1 DEF Served, Plain
  <2> QED BY <1>4, <1>5, <2>1, <2>2, <2>3
<1>7. CASE StageCall
  <2>1. UNCHANGED wthread
    BY <1>7 DEF StageCall
  <2>2. EmittedMatch'
    BY <1>1, <1>3, <2>1 DEF EmittedMatch, Matches
  <2> QED BY <1>1, <1>3, <1>4, <1>5, <2>1, <2>2 DEF EmittedTo, Served, Plain, Stages, Gives, Matches
<1>8. CASE StageReturns
  <2>1. PICK at \in {"transform", "emit", "sub"} :
          /\ wthread' = [at |-> at, batch |-> wthread.batch, left |-> wthread.left, sub |-> wthread.sub]
          /\ wthread.at \in {"filter", "transform"}
    BY <1>8 DEF StageReturns, QuietInv, SubThreadIdle
  <2>2. EmittedTo'
    BY <1>1, <1>3, <2>1 DEF EmittedTo, Busy
  <2>3. Stages(wthread.sub) # <<>>
    BY <2>1 DEF OwnerInv, ThreadSubs
  <2>4. Served'
    BY <1>1, <1>3, <2>1, <2>3 DEF Served, Plain, Stages, Gives, Matches, Busy
  <2>5. EmittedMatch'
    <3>1. Matches(wthread.sub, Done + 1)
      BY <2>1 DEF EmittedMatch, Busy
    <3> QED BY <1>1, <1>3, <1>5, <2>1, <3>1 DEF Matches
  <2> QED BY <1>4, <1>5, <2>2, <2>4, <2>5
<1>9. ASSUME NEW i \in wthread.left, SubscriptionBegins(i) PROVE OffsetInv'
  <2>0. wthread.at = "sub" /\ Head(wthread.batch) = Done + 1
    BY <1>9, BatchHead DEF SubscriptionBegins, Busy
  <2>10. CASE ~Matches(i, Done + 1)
    <3>1. wthread' = [at |-> "sub", batch |-> wthread.batch, left |-> wthread.left \ {i},
                      sub |-> wthread.sub]
      BY <1>9, <2>0, <2>10 DEF SubscriptionBegins, QuietInv, SubThreadIdle
    <3>2. EmittedTo'
      BY <1>1, <1>3, <2>0, <3>1 DEF EmittedTo, Busy
    <3>3. Served'
      <4> SUFFICES ASSUME NEW k \in 1..Len(wsubs), Plain(k), wsubs[k].since <= Done + 1,
                          k \notin wthread'.left, Matches(k, Done + 1)
                   PROVE \E j \in 1..Len(emitted) : Gives(j, k, Done + 1)
        BY <1>1, <1>3 DEF Served, Plain, Stages, Gives, Matches
      <4>1. k # i
        BY <2>10
      <4> QED BY <2>0, <3>1, <4>1 DEF Served, Busy
    <3> QED BY <1>4, <1>5, <3>1, <3>2, <3>3
  <2> SUFFICES ASSUME Matches(i, Done + 1) PROVE OffsetInv'
    BY <2>10
  <2>1. PICK at : at = (IF Stages(i) = <<>> THEN "emit" ELSE Head(Stages(i)))
    OBVIOUS
  <2>2. at \in {"emit", "filter", "transform"} /\ (Stages(i) = <<>> => at = "emit")
    BY <2>1, StagesFacts
  <2>3. /\ wthread.at = "sub"
        /\ wthread' = [at |-> at, batch |-> wthread.batch, left |-> wthread.left \ {i}, sub |-> i]
    BY <1>9, <2>0, <2>1 DEF SubscriptionBegins, QuietInv, SubThreadIdle
  <2>4. EmittedTo'
    BY <1>1, <1>3, <2>2, <2>3 DEF EmittedTo, Busy
  <2>5. Served'
    <3> SUFFICES ASSUME NEW k \in 1..Len(wsubs), Plain(k), wsubs[k].since <= Done + 1,
                        k \notin wthread'.left, ~(wthread'.at = "emit" /\ wthread'.sub = k),
                        Matches(k, Done + 1)
                 PROVE \E j \in 1..Len(emitted) : Gives(j, k, Done + 1)
      BY <1>1, <1>3 DEF Served, Plain, Stages, Gives, Matches
    <3>1. k # i
      BY <2>2, <2>3 DEF Plain
    <3> QED BY <2>3, <3>1 DEF Served, Busy
  <2>6. Matches(wthread.sub, Done + 1)'
    BY <1>1, <1>3, <2>3 DEF Matches
  <2> QED BY <1>4, <1>5, <2>4, <2>5, <2>6
<1> QED BY <1>6, <1>7, <1>8, <1>9

\* The callback is given the event in hand, for the subscription in hand.
LEMMA OffsetEmit == QuietInv /\ OwnerInv /\ OffsetInv /\ Emit => OffsetInv'
<1> SUFFICES ASSUME QuietInv, OwnerInv, OffsetInv, Emit PROVE OffsetInv'
  OBVIOUS
<1> USE DEF OffsetInv
<1>1. PICK e : e = [client |-> wsubs[wthread.sub].client, sub |-> wthread.sub, off |-> Head(wthread.batch)]
  OBVIOUS
<1>2. /\ wthread.at = "emit" /\ UNCHANGED <<wsubs, fed, wqueue, feed>> /\ emitted' = Append(emitted, e)
      /\ wthread' = [at |-> "sub", batch |-> wthread.batch, left |-> wthread.left, sub |-> wthread.sub]
  BY <1>1 DEF Emit, QuietInv, SubThreadIdle
<1>3. Done' = Done /\ Done \in Nat /\ Done + 1 \in 1..Len(feed)
  <2>1. Done \in Nat /\ Done + 1 \in 1..Len(feed)
    BY <1>2, BatchHead DEF Busy
  <2> QED BY <1>2, <2>1 DEF Done
<1>4. e.sub = wthread.sub /\ e.off = Done + 1
  BY <1>1, <1>2, BatchHead DEF Busy
<1>5. /\ Len(emitted) \in Nat /\ Len(emitted') = Len(emitted) + 1
      /\ \A j \in 1..Len(emitted) : emitted'[j] = emitted[j]
      /\ emitted'[Len(emitted) + 1] = e
  BY <1>2, OwnSeqFacts DEF OwnerInv, SubTypes
<1>6. \A j \in 1..Len(emitted') : j \in 1..Len(emitted) \/ j = Len(emitted) + 1
  BY <1>5
<1>7. wthread.sub \notin wthread.left
  BY <1>2 DEF OwnerInv, ThreadSubs, Busy
<1>8. Offsets'
  BY <1>2, <1>3 DEF Offsets
<1>9. EmittedTo'
  BY <1>2, <1>3, <1>4, <1>5, <1>6, <1>7 DEF EmittedTo, Busy
<1>10. EmittedInOrder'
  <2>1. \A j \in 1..Len(emitted) : emitted[j].sub = e.sub /\ emitted[j].off # 0 => emitted[j].off < e.off
    BY <1>2, <1>3, <1>4 DEF EmittedTo, Busy
  <2> SUFFICES ASSUME NEW j \in 1..Len(emitted'), NEW k \in 1..Len(emitted'),
                      emitted'[j].sub = emitted'[k].sub, emitted'[j].off # 0, emitted'[k].off # 0, j < k
               PROVE emitted'[j].off < emitted'[k].off
    BY DEF EmittedInOrder
  <2>2. j \in 1..Len(emitted)
    BY <1>5
  <2>3. CASE k \in 1..Len(emitted)
    BY <1>5, <2>2, <2>3 DEF EmittedInOrder
  <2>4. CASE k = Len(emitted) + 1
    BY <1>5, <2>1, <2>2, <2>4
  <2> QED BY <1>6, <2>3, <2>4
<1>11. \A i, o : (\E j \in 1..Len(emitted) : Gives(j, i, o)) => \E j \in 1..Len(emitted') : Gives(j, i, o)'
  BY <1>5 DEF Gives
<1>12. \E j \in 1..Len(emitted') : Gives(j, wthread.sub, Done + 1)'
  <2>1. PICK s, o : s = wthread.sub /\ o = Done + 1
    OBVIOUS
  <2>2. \E j \in 1..Len(emitted') : Gives(j, s, o)'
    BY <1>4, <1>5, <2>1 DEF Gives
  <2> QED BY <1>2, <1>3, <2>1, <2>2 DEF Gives
<1>13. \A i : Plain(i)' <=> Plain(i)
  BY <1>2 DEF Plain, Stages
<1>14. Served'
  <2> SUFFICES ASSUME NEW i \in 1..Len(wsubs), Plain(i), wsubs[i].since <= Done + 1,
                      i \notin wthread.left, Matches(i, Done + 1)
               PROVE \E j \in 1..Len(emitted') : Gives(j, i, Done + 1)'
    BY <1>2, <1>3, <1>13 DEF Served, Matches
  <2>1. CASE i = wthread.sub
    BY <1>2, <1>12, <2>1 DEF Gives
  <2>2. CASE i # wthread.sub
    <3>1. \E j \in 1..Len(emitted) : Gives(j, i, Done + 1)
      BY <1>2, <2>2 DEF Served, Busy
    <3>2. PICK o : o = Done + 1
      OBVIOUS
    <3>3. \E j \in 1..Len(emitted') : Gives(j, i, o)'
      BY <1>11, <3>1, <3>2
    <3> QED BY <1>3, <3>2, <3>3 DEF Gives
  <2> QED BY <2>1, <2>2
<1>15. Covered'
  <2> SUFFICES ASSUME NEW i \in 1..Len(wsubs), Plain(i), NEW o \in wsubs[i].since..Done, Matches(i, o)
               PROVE \E j \in 1..Len(emitted') : Gives(j, i, o)'
    BY <1>2, <1>3, <1>13 DEF Covered, Matches
  <2>1. \E j \in 1..Len(emitted) : Gives(j, i, o)
    BY DEF Covered
  <2> QED BY <1>11, <2>1
<1>16. EmittedMatch'
  <2> SUFFICES ASSUME NEW j \in 1..Len(emitted'), emitted'[j].off # 0
               PROVE /\ emitted'[j].sub \in 1..Len(wsubs') /\ emitted'[j].off \in 1..Len(feed')
                     /\ Matches(emitted[j].sub, emitted[j].off)'
    BY <1>2 DEF EmittedMatch
  <2>1. CASE j \in 1..Len(emitted)
    BY <1>2, <1>5, <2>1 DEF EmittedMatch, Matches
  <2>2. CASE j = Len(emitted) + 1
    <3>1. wthread.sub \in 1..Len(wsubs) /\ Matches(wthread.sub, Done + 1)
      BY <1>2 DEF EmittedMatch, OwnerInv, ThreadSubs, Busy
    <3>2. emitted'[j].sub = wthread.sub /\ emitted'[j].off = Done + 1
      BY <1>4, <1>5, <2>2
    <3> QED BY <1>2, <1>3, <3>1, <3>2 DEF Matches
  <2> QED BY <1>6, <2>1, <2>2
<1> QED BY <1>8, <1>9, <1>10, <1>14, <1>15, <1>16

\* The event in hand is done: every plain subscription was with it.
LEMMA OffsetEventEnds == QuietInv /\ OwnerInv /\ OffsetInv /\ EventEnds => OffsetInv'
<1> SUFFICES ASSUME QuietInv, OwnerInv, OffsetInv, EventEnds PROVE OffsetInv'
  OBVIOUS
<1> USE DEF OffsetInv
<1>1. /\ wthread.at = "sub" /\ wthread.left = {} /\ UNCHANGED <<wsubs, fed, wqueue, emitted, feed>>
      /\ wthread'.batch = Tail(wthread.batch)
      /\ wthread'.at = IF Len(wthread.batch) = 1 THEN "wait" ELSE "events"
  BY DEF EventEnds, QuietInv, SubThreadIdle
<1>2. Len(wqueue) \in Nat /\ Len(wthread.batch) \in Nat /\ fed \in Nat /\ wthread.batch # <<>>
  <2>1. Len(wthread.batch) # 0
    BY <1>1 DEF Offsets
  <2> QED BY <2>1, OwnSeqFacts, OwnSeqEmpty DEF Offsets
<1>3. /\ OwnSeq(wthread'.batch) /\ Len(wthread'.batch) = Len(wthread.batch) - 1 /\ Len(wthread.batch) >= 1
      /\ \A k \in 1..Len(wthread'.batch) : wthread'.batch[k] = wthread.batch[k + 1]
  <2>1. PICK b : b = wthread.batch
    OBVIOUS
  <2>2. OwnSeq(b) /\ b # <<>>
    BY <1>2, <2>1 DEF Offsets
  <2>3. /\ OwnSeq(Tail(b)) /\ Len(Tail(b)) = Len(b) - 1 /\ Len(b) >= 1
        /\ \A k \in 1..Len(Tail(b)) : Tail(b)[k] = b[k + 1]
    BY <2>2, OwnSeqFacts
  <2> QED BY <1>1, <2>1, <2>3
<1>4. Done \in Nat /\ Done' = Done + 1
  <2>1. Len(wqueue) + Len(wthread.batch) <= fed
    BY DEF Offsets
  <2>2. Len(wqueue') = Len(wqueue) /\ fed' = fed
    BY <1>1
  <2> QED BY <1>2, <1>3, <2>1, <2>2 DEF Done
<1>5. Offsets'
  <2>1. \A k \in 1..Len(wthread'.batch) : wthread'.batch[k] = Done' + k
    <3>1. \A k \in 1..Len(wthread'.batch) : k \in Nat /\ k + 1 \in 1..Len(wthread.batch)
      BY <1>2, <1>3
    <3>2. \A k \in 1..Len(wthread'.batch) : wthread'.batch[k] = Done + (k + 1)
      BY <1>3, <3>1 DEF Offsets
    <3> QED BY <1>4, <3>1, <3>2
  <2>2. Len(wqueue') + Len(wthread'.batch) <= fed'
    BY <1>1, <1>2, <1>3 DEF Offsets
  <2>3. Len(wthread'.batch) = 0 <=> wthread'.at \in {"wait", "ended"}
    BY <1>1, <1>2, <1>3
  <2> QED BY <1>1, <1>3, <2>1, <2>2, <2>3 DEF Offsets
<1>6. wthread.at \in Busy /\ wthread'.at \notin Busy
  BY <1>1 DEF Busy
<1>7. EmittedTo'
  BY <1>1, <1>4, <1>6 DEF EmittedTo
<1>8. EmittedInOrder' /\ EmittedMatch' /\ Served'
  BY <1>1, <1>6 DEF EmittedInOrder, EmittedMatch, Served, Matches
<1>9. Covered'
  <2> SUFFICES ASSUME NEW i \in 1..Len(wsubs), Plain(i), NEW o \in wsubs[i].since..Done + 1,
                      Matches(i, o)
               PROVE \E j \in 1..Len(emitted) : Gives(j, i, o)
    BY <1>1, <1>4 DEF Covered, Plain, Stages, Gives, Matches
  <2>1. wsubs[i].since \in Nat
    BY DEF Offsets
  <2>2. CASE o \in wsubs[i].since..Done
    BY <2>2 DEF Covered
  <2>3. CASE o = Done + 1
    <3>1. wsubs[i].since <= Done + 1
      BY <1>4, <2>1, <2>3
    <3> QED BY <1>1, <1>6, <2>3, <3>1 DEF Served
  <2> QED BY <1>4, <2>1, <2>2, <2>3
<1> QED BY <1>5, <1>7, <1>8, <1>9

\* A new subscription begins after what was delivered.
LEMMA OffsetCreate ==
  ASSUME QuietInv, OwnerInv, OffsetInv, NEW c \in Clients, NEW q \in Requests, CreateSubscription(c, q)
  PROVE OffsetInv'
<1> USE ThreadsAssumption DEF OffsetInv
<1>1. PICK r : r = [client |-> c, module |-> q.module, tables |-> q.tables, filter |-> q.filter,
                    transform |-> q.transform, since |-> fed + 1, live |-> TRUE]
  OBVIOUS
<1>2. /\ wmutex = Free /\ UNCHANGED <<emitted, fed, wqueue, wthread, feed>>
      /\ wsubs' = Append(wsubs, r)
  BY <1>1 DEF CreateSubscription, OnlyExec
<1>3. wthread.at \notin Busy
  BY <1>2 DEF OwnerInv, MutexHeld
<1>4. /\ Len(wsubs) \in Nat /\ Len(wsubs') = Len(wsubs) + 1
      /\ \A i \in 1..Len(wsubs) : wsubs'[i] = wsubs[i]
      /\ wsubs'[Len(wsubs) + 1] = r
  BY <1>2, OwnSeqFacts DEF OwnerInv, SubTypes
<1>5. \A i \in 1..Len(wsubs') : i \in 1..Len(wsubs) \/ i = Len(wsubs) + 1
  BY <1>4
<1>6. r.since = fed + 1
  BY <1>1
<1>7. Done' = Done /\ Done \in Nat /\ Done <= fed /\ fed \in Nat
  <2>1. Len(wqueue) \in Nat /\ Len(wthread.batch) \in Nat /\ fed \in Nat
    BY OwnSeqFacts DEF Offsets
  <2>2. Len(wqueue) + Len(wthread.batch) <= fed
    BY DEF Offsets
  <2>3. Done \in Nat /\ Done <= fed
    BY <2>1, <2>2 DEF Done
  <2> QED BY <1>2, <2>1, <2>3 DEF Done
<1>8. Offsets'
  <2>1. \A i \in 1..Len(wsubs') : wsubs'[i].since \in Nat \ {0}
    BY <1>4, <1>5, <1>6, <1>7 DEF Offsets
  <2> QED BY <1>2, <1>7, <2>1 DEF Offsets
<1>9. EmittedTo' /\ EmittedInOrder' /\ Served'
  BY <1>2, <1>3, <1>7 DEF EmittedTo, EmittedInOrder, Served
<1>10. Covered'
  <2> SUFFICES ASSUME NEW i \in 1..Len(wsubs'), Plain(i)', NEW o \in wsubs'[i].since..Done, Matches(i, o)'
               PROVE \E j \in 1..Len(emitted) : Gives(j, i, o)
    BY <1>2, <1>7 DEF Covered, Gives
  <2>1. CASE i \in 1..Len(wsubs)
    <3>1. Plain(i) /\ wsubs'[i].since = wsubs[i].since /\ Matches(i, o)
      BY <1>2, <1>4, <2>1 DEF Plain, Stages, Matches
    <3> QED BY <2>1, <3>1 DEF Covered
  <2>2. CASE i = Len(wsubs) + 1
    BY <1>4, <1>6, <1>7, <2>2
  <2> QED BY <1>5, <2>1, <2>2
<1>11. EmittedMatch'
  <2>1. \A i \in 1..Len(wsubs) : i \in 1..Len(wsubs')
    BY <1>4
  <2> QED BY <1>2, <1>3, <1>4, <2>1 DEF EmittedMatch, Matches
<1> QED BY <1>8, <1>9, <1>10, <1>11

\* What a step does to the feed.
LEMMA FeedGrows ==
  QuietInv /\ Next => Restart \/ UNCHANGED feed \/ \E e : feed' = Append(feed, e)
<1> SUFFICES ASSUME QuietInv, Next PROVE Restart \/ UNCHANGED feed \/ \E e : feed' = Append(feed, e)
  OBVIOUS
<1>1. CallStep
  BY CallSteps DEF QuietInv
<1>2. ASSUME NEW a \in Actors, ExecNext(a) PROVE UNCHANGED feed \/ \E e : feed' = Append(feed, e)
  <2>1. CASE Publish(a)
    BY <2>1 DEF Publish
  <2> QED BY <1>2, <2>1 DEF ExecNext, Lock, HostCall, Trap, Return, CreateTables, StageWrite, Commit
<1> QED BY <1>1, <1>2 DEF CallStep

\* The feed grows, and nothing else changes.
LEMMA OffsetFeed ==
  ASSUME OwnerInv, OffsetInv, UNCHANGED <<wsubs, fed, wqueue, wthread, emitted>>,
         UNCHANGED feed \/ \E e : feed' = Append(feed, e)
  PROVE OffsetInv'
<1> USE DEF OffsetInv
<1>1. Done' = Done
  BY DEF Done
<1>2. \A i : Plain(i)' <=> Plain(i)
  BY DEF Plain, Stages
<1>3. /\ OwnSeq(feed') /\ Len(feed) \in Nat /\ Len(feed') \in Nat /\ Len(feed) <= Len(feed')
      /\ \A o \in 1..Len(feed) : feed'[o] = feed[o]
  <2>1. OwnSeq(feed) /\ Len(feed) \in Nat
    BY OwnSeqFacts DEF Offsets
  <2>2. ASSUME NEW e, feed' = Append(feed, e)
        PROVE /\ OwnSeq(feed') /\ Len(feed') = Len(feed) + 1
              /\ \A o \in 1..Len(feed) : feed'[o] = feed[o]
    BY <2>1, <2>2, OwnSeqFacts
  <2> QED BY <2>1, <2>2
<1>4. \A i : \A o \in 1..Len(feed) : Matches(i, o)' <=> Matches(i, o)
  BY <1>3 DEF Matches
<1>5. Offsets'
  <2>1. fed' <= Len(feed')
    BY <1>3 DEF Offsets
  <2> QED BY <1>1, <1>3, <2>1 DEF Offsets
<1>6. EmittedTo' /\ EmittedInOrder'
  BY <1>1 DEF EmittedTo, EmittedInOrder
<1>7. wthread.at \in Busy => Done + 1 \in 1..Len(feed)
  BY BatchHead
<1>8. EmittedMatch'
  <2>1. ASSUME NEW j \in 1..Len(emitted), emitted[j].off # 0
        PROVE /\ emitted[j].off \in 1..Len(feed')
              /\ Matches(emitted[j].sub, emitted[j].off)'
    <3>1. emitted[j].off \in 1..Len(feed) /\ Matches(emitted[j].sub, emitted[j].off)
      BY <2>1 DEF EmittedMatch
    <3> QED BY <1>3, <3>1 DEF Matches
  <2>2. ASSUME wthread.at \in Busy \ {"sub"} PROVE Matches(wthread.sub, Done + 1)'
    BY <1>1, <1>3, <1>7, <2>2 DEF EmittedMatch, Matches
  <2> QED BY <2>1, <2>2 DEF EmittedMatch
<1>9. Served'
  <2> SUFFICES ASSUME wthread.at \in Busy, NEW i \in 1..Len(wsubs), Plain(i), wsubs[i].since <= Done + 1,
                      i \notin wthread.left, ~(wthread.at = "emit" /\ wthread.sub = i),
                      Matches(i, Done + 1)'
               PROVE \E j \in 1..Len(emitted) : Gives(j, i, Done + 1)
    BY <1>1, <1>2 DEF Served, Gives
  <2>1. Matches(i, Done + 1)
    BY <1>1, <1>3, <1>7 DEF Matches
  <2> QED BY <2>1 DEF Served
<1>10. Covered'
  <2> SUFFICES ASSUME NEW i \in 1..Len(wsubs), Plain(i), NEW o \in wsubs[i].since..Done, Matches(i, o)'
               PROVE \E j \in 1..Len(emitted) : Gives(j, i, o)
    BY <1>1, <1>2 DEF Covered, Gives
  <2>1. o \in 1..Len(feed)
    <3>1. Len(wqueue) \in Nat /\ Len(wthread.batch) \in Nat /\ fed \in Nat /\ fed <= Len(feed)
      BY OwnSeqFacts DEF Offsets
    <3>2. wsubs[i].since \in Nat \ {0}
      BY DEF Offsets
    <3>3. Done \in Int /\ Done <= fed
      BY <3>1 DEF Done
    <3> QED BY <1>3, <3>1, <3>2, <3>3
  <2> QED BY <1>4, <2>1 DEF Covered
<1> QED BY <1>5, <1>6, <1>8, <1>9, <1>10

LEMMA OffsetInductive == QuietInv /\ OwnerInv /\ OffsetInv /\ [Next]_vars => OffsetInv'
<1> SUFFICES ASSUME QuietInv, OwnerInv, OffsetInv, [Next]_vars PROVE OffsetInv'
  OBVIOUS
<1>1. CASE /\ UNCHANGED <<wsubs, fed, wqueue, wthread, emitted>>
           /\ UNCHANGED feed \/ \E e : feed' = Append(feed, e)
  BY <1>1, OffsetFeed
<1>2. CASE UNCHANGED vars
  BY <1>1, <1>2 DEF vars
<1>3. CASE Restart
  <2>1. /\ wsubs' = <<>> /\ wqueue' = <<>> /\ fed' = 0 /\ wthread' = Waiting /\ emitted' = <<>>
        /\ feed' = <<>>
    BY <1>3 DEF Restart
  <2>2. (wsubs = <<>> /\ wqueue = <<>> /\ fed = 0 /\ wthread = Waiting /\ emitted = <<>> /\ feed = <<>>
         => OffsetInv)'
    BY OffsetEmpty, PTL
  <2> QED BY <2>1, <2>2
<1>4. ASSUME UNCHANGED <<fed, wqueue, wthread, feed>>, UNCHANGED emitted,
             wsubs' \in {[i \in 1..Len(wsubs) |-> IF i \in S THEN [wsubs[i] EXCEPT !.live = FALSE]
                                                  ELSE wsubs[i]] : S \in SUBSET (1..Len(wsubs))}
      PROVE OffsetInv'
  <2>1. PICK S \in SUBSET (1..Len(wsubs)) :
          wsubs' = [i \in 1..Len(wsubs) |-> IF i \in S THEN [wsubs[i] EXCEPT !.live = FALSE] ELSE wsubs[i]]
    BY <1>4
  <2>2. Len(wsubs') = Len(wsubs)
    <3>1. Len(wsubs) \in Nat
      BY OwnSeqFacts DEF OwnerInv, SubTypes
    <3>2. wsubs' = [i \in 1..Len(wsubs) |-> wsubs'[i]]
      BY <2>1
    <3> QED BY <3>1, <3>2, OwnSeqMade
  <2>3. ASSUME NEW i \in 1..Len(wsubs)
        PROVE /\ wsubs'[i].since = wsubs[i].since /\ wsubs'[i].tables = wsubs[i].tables
              /\ Plain(i)' => Plain(i)
    <3>1. PICK r : r = wsubs[i]
      OBVIOUS
    <3>2. r = [client |-> r.client, module |-> r.module, tables |-> r.tables, filter |-> r.filter,
               transform |-> r.transform, since |-> r.since, live |-> r.live]
      BY <3>1 DEF OwnerInv, SubTypes
    <3>3. CASE i \in S
      <4>1. wsubs'[i] = [client |-> r.client, module |-> r.module, tables |-> r.tables, filter |-> r.filter,
                         transform |-> r.transform, since |-> r.since, live |-> FALSE]
        BY <2>1, <3>1, <3>2, <3>3, SubReplaced
      <4> QED BY <3>1, <4>1 DEF Plain
    <3>4. CASE i \notin S
      <4>1. wsubs'[i] = wsubs[i]
        BY <2>1, <3>4
      <4> QED BY <4>1 DEF Plain, Stages
    <3> QED BY <3>3, <3>4
  <2> QED BY <1>4, <2>2, <2>3, OffsetKept
<1>5. CASE Next
  <2>1. SubsStep
    BY <1>5, SubsSteps
  <2>2. CASE UNCHANGED subsVars \/ TicksStopped
    <3>1. UNCHANGED <<wsubs, fed, wqueue, wthread, emitted>>
      BY <2>2 DEF TicksStopped
    <3> QED BY <1>1, <1>3, <1>5, <3>1, FeedGrows
  <2>3. CASE SubsStopped
    <3>1. /\ wsubs' = [i \in 1..Len(wsubs) |-> [wsubs[i] EXCEPT !.live = FALSE]]
          /\ UNCHANGED <<fed, wqueue, wthread, feed>> /\ UNCHANGED emitted
      BY <2>3 DEF SubsStopped
    <3>2. PICK S : S = 1..Len(wsubs)
      OBVIOUS
    <3>3. wsubs' = [i \in 1..Len(wsubs) |-> IF i \in S THEN [wsubs[i] EXCEPT !.live = FALSE] ELSE wsubs[i]]
      BY <3>1, <3>2
    <3> QED BY <1>4, <3>1, <3>2, <3>3, ZenonT(60)
  <2>4. ASSUME NEW c \in Clients, Disconnect(c) PROVE OffsetInv'
    <3>1. /\ wsubs' = [i \in 1..Len(wsubs) |-> IF i \in ToSet(wclient[c])
                                               THEN [wsubs[i] EXCEPT !.live = FALSE] ELSE wsubs[i]]
          /\ UNCHANGED <<fed, wqueue, wthread, feed>> /\ UNCHANGED emitted
      BY <2>4 DEF Disconnect
    <3>2. PICK S : S = {i \in 1..Len(wsubs) : i \in ToSet(wclient[c])}
      OBVIOUS
    <3>3. wsubs' = [i \in 1..Len(wsubs) |-> IF i \in S THEN [wsubs[i] EXCEPT !.live = FALSE] ELSE wsubs[i]]
      BY <3>1, <3>2
    <3>4. S \in SUBSET (1..Len(wsubs))
      BY <3>2
    <3> QED BY <1>4, <3>1, <3>3, <3>4
  <2>5. ASSUME NEW c \in Clients, InitialData(c) PROVE OffsetInv'
    <3>1. PICK e : e = [client |-> c, sub |-> client[c].sub, off |-> 0]
      OBVIOUS
    <3>2. /\ UNCHANGED <<fed, wqueue, wthread, wsubs, feed>>
          /\ UNCHANGED emitted \/ (e.off = 0 /\ emitted' = Append(emitted, e))
      BY <2>5, <3>1 DEF InitialData, OnlyExec
    <3>3. \A i \in 1..Len(wsubs) : /\ wsubs'[i].since = wsubs[i].since /\ wsubs'[i].tables = wsubs[i].tables
                                   /\ Plain(i)' => Plain(i)
      BY <3>2 DEF Plain, Stages
    <3> QED BY <3>2, <3>3, OffsetKept
  <2>6. ASSUME NEW c \in Clients, ClientNext(c) \/ Connect(c), ~Disconnect(c), ~InitialData(c)
        PROVE OffsetInv'
    BY <1>1, <2>6 DEF ClientNext, HookCall, HookReturns, HooksDone, Connect, OnlyExec
  <2>7. CASE ThreadNext
    BY <2>7, OffsetTakeBatch, OffsetWithin, OffsetEmit, OffsetEventEnds DEF ThreadNext
  <2> QED BY <1>3, <2>1, <2>2, <2>3, <2>4, <2>5, <2>6, <2>7, OffsetDeliver, OffsetCreate DEF SubsStep
<1> QED BY <1>2, <1>5

LEMMA OffsetAlways == Spec => [](OwnerInv /\ OffsetInv)
<1>1. Init => OffsetInv
  BY OffsetEmpty DEF Init, SubsInit, EngineInit
<1> QED BY <1>1, OwnerAlways, OffsetInductive, PTL DEF Spec

\* An offset is queued, in the batch, or done.
LEMMA SplitOffset ==
  ASSUME NEW f \in Nat, NEW q \in Nat, NEW b \in Nat, q + b <= f, NEW o \in Nat, o <= f
  PROVE \/ \E k \in 1..q : o = f - q + k
        \/ \E k \in 1..b : o = f - q - b + k
        \/ o <= f - q - b
<1>1. CASE o > f - q
  <2>1. o - (f - q) \in 1..q /\ o = f - q + (o - (f - q))
    BY <1>1
  <2> QED BY <2>1
<1>2. CASE o <= f - q /\ o > f - q - b
  <2>1. o - (f - q - b) \in 1..b /\ o = f - q - b + (o - (f - q - b))
    BY <1>2
  <2> QED BY <2>1
<1> QED BY <1>1, <1>2

\* ProcessingLoop and ProcessSingleEvent: a subscription is given events in offset order and
\* of no table but those it asked for, and one without functions every such event since it
\* was made, except those still queued or in the batch: none is lost between the queue, the
\* batch, the table check and the callback.
THEOREM EventsReachSubscribers == Spec => []EveryEventEmitted
<1>1. OwnerInv /\ OffsetInv => EveryEventEmitted
  <2> SUFFICES ASSUME OwnerInv, OffsetInv, NEW i \in 1..Len(wsubs)
               PROVE LET given == {j \in 1..Len(emitted) : emitted[j].sub = i /\ emitted[j].off # 0}
                         pending == ToSet(wqueue) \union ToSet(wthread.batch)
                     IN /\ \A j, k \in given : j < k => emitted[j].off < emitted[k].off
                        /\ \A j \in given : Matches(i, emitted[j].off)
                        /\ wsubs[i].live /\ is_running /\ Stages(i) = <<>> =>
                             \A o \in {p \in wsubs[i].since..fed : Matches(i, p)} :
                               o \in pending \/ \E j \in given : emitted[j].off = o
    BY DEF EveryEventEmitted
  <2> DEFINE given == {j \in 1..Len(emitted) : emitted[j].sub = i /\ emitted[j].off # 0}
  <2>1. \A j, k \in given : j < k => emitted[j].off < emitted[k].off
    BY DEF OffsetInv, EmittedInOrder
  <2>2. \A j \in given : Matches(i, emitted[j].off)
    BY DEF OffsetInv, EmittedMatch
  <2>3. ASSUME Plain(i), NEW o \in wsubs[i].since..fed, Matches(i, o)
        PROVE o \in ToSet(wqueue) \/ o \in ToSet(wthread.batch) \/ \E j \in given : emitted[j].off = o
    <3>1. /\ Len(wqueue) \in Nat /\ Len(wthread.batch) \in Nat /\ fed \in Nat /\ wsubs[i].since \in Nat \ {0}
          /\ DOMAIN wqueue = 1..Len(wqueue) /\ DOMAIN wthread.batch = 1..Len(wthread.batch)
          /\ Len(wqueue) + Len(wthread.batch) <= fed
      BY OwnSeqFacts DEF OffsetInv, Offsets
    <3>2. PICK p : p = o
      OBVIOUS
    <3>3. p \in Nat /\ p >= wsubs[i].since /\ p <= fed
      BY <3>1, <3>2
    <3>4. \/ \E k \in 1..Len(wqueue) : p = fed - Len(wqueue) + k
          \/ \E k \in 1..Len(wthread.batch) : p = fed - Len(wqueue) - Len(wthread.batch) + k
          \/ p <= fed - Len(wqueue) - Len(wthread.batch)
      BY <3>1, <3>3, SplitOffset
    <3>5. CASE \E k \in 1..Len(wqueue) : p = fed - Len(wqueue) + k
      BY <3>1, <3>2, <3>5 DEF OffsetInv, Offsets, ToSet
    <3>6. CASE \E k \in 1..Len(wthread.batch) : p = fed - Len(wqueue) - Len(wthread.batch) + k
      <4>1. PICK k \in 1..Len(wthread.batch) : p = Done + k
        BY <3>6 DEF Done
      <4>2. wthread.batch[k] = p
        BY <4>1 DEF OffsetInv, Offsets
      <4> QED BY <3>1, <3>2, <4>2 DEF ToSet
    <3>7. CASE p <= fed - Len(wqueue) - Len(wthread.batch)
      <4>1. Done \in Nat /\ p <= Done
        BY <3>1, <3>3, <3>7 DEF Done
      <4>2. p \in wsubs[i].since..Done
        BY <3>1, <3>3, <4>1
      <4>3. PICK j \in 1..Len(emitted) : emitted[j].sub = i /\ emitted[j].off = p
        BY <2>3, <3>2, <4>2 DEF OffsetInv, Covered, Gives
      <4>4. p # 0
        BY <3>1, <3>3
      <4> QED BY <3>2, <4>3, <4>4
    <3> QED BY <3>4, <3>5, <3>6, <3>7
  <2> QED BY <2>1, <2>2, <2>3 DEF Plain
<1> QED BY <1>1, OffsetAlways, PTL

=============================================================================
