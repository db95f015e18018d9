---------------------------- MODULE WasmRuntime ----------------------------
(***************************************************************************)
(* The parts of the server that run modules, composed: the gRPC handlers of  *)
(* wasm_service_impl.cpp, the tick scheduler, the WASM subscriptions, and    *)
(* the boot and shutdown of origindb_server.cpp, with a crash at any step.   *)
(***************************************************************************)
EXTENDS WasmSubscriptions

CONSTANTS
  Handlers,       \* threads of the gRPC server
  Workers,        \* threads of the tick scheduler
  Main,           \* the main thread
  Deployments,    \* what DeployModule may be asked to deploy
  Ticked,         \* the names that the configuration gives the scheduler
  Installed, NoFile, NoName,
  MaxWork         \* bound on requests, connections, ticks, failures of the log and
                  \* ends of the process; a deployment counts twice

VARIABLES files, index, store_mutex, saving
VARIABLES entries, running, in_flight, tick_queue, dispatcher, worker
VARIABLES
  main,         \* where the main thread is
  deploy,       \* each handler's DeployModule or UndeployModule
  work,
  asked         \* history: what was asked to be deployed, in earlier lives too

storeVars == <<files, index, store_mutex, saving>>
tickVars == <<entries, running, in_flight, tick_queue, dispatcher, worker>>
serverVars == <<main, deploy, work, asked>>
vars == <<engineVars, subsVars, storeVars, tickVars, serverVars>>

Store == INSTANCE ModuleStore WITH Savers <- Handlers
Tick == INSTANCE TickScheduler

ASSUME ActorsAssumption ==
  Actors = Handlers \union Workers \union Clients \union {SubThread, Main}

\* A thread has one part, and none is called by the name that stands for no thread.
ASSUME ThreadsAssumption ==
  /\ Handlers \intersect (Workers \union Clients \union {SubThread, Main, Store!Nobody}) = {}
  /\ Workers \intersect (Clients \union {SubThread, Main}) = {}
  /\ Clients \intersect {SubThread, Main, Free} = {}
  /\ SubThread \notin {Main, Free}

ASSUME NamesAssumption == NoName \notin Names

\* Every name has its two files, there or not.
ASSUME InstalledAssumption ==
  Installed = [n \in Names |-> [wasm |-> Installed[n].wasm, manifest |-> Installed[n].manifest]]

NoDeploy == [at |-> "none"]

Init ==
  /\ EngineInit /\ SubsInit /\ Store!StoreInit /\ Tick!TickInit
  /\ main = [at |-> "restore", left |-> {n \in Names : Store!Indexed(n)}]
  /\ deploy = [h \in Handlers |-> NoDeploy]
  /\ work = 0
  /\ asked = {[name |-> n, version |-> files[n].manifest.version, code |-> files[n].manifest.sha256]
                : n \in {m \in Names : files[m].manifest \notin {NoFile, Store!Torn}}}

Works(n) == work + n <= MaxWork /\ work' = work + n
Serving == main.at \in {"listen", "serve"}

-----------------------------------------------------------------------------
(* DeployModule: LoadModule, then Save; a failed Save unloads the name.      *)
Deploys(h, at) == deploy[h].at = at
DeployStep(h, at) == deploy' = [deploy EXCEPT ![h].at = at]

DeployModule(h, n, m) ==
  /\ Serving /\ Deploys(h, "none") /\ exec[h].at = "idle" /\ Works(2)
  /\ deploy' = [deploy EXCEPT ![h] = [at |-> "load", name |-> n, module |-> m]]
  /\ LoadBegin(h, n, m)
  /\ asked' = asked \union {[name |-> n, version |-> m.version, code |-> m.code]}
  /\ UNCHANGED <<subsVars, storeVars, tickVars, main>>

DeployLoaded(h) ==
  /\ Deploys(h, "load")
  /\ \/ Loads(h, "failed") /\ deploy' = [deploy EXCEPT ![h] = NoDeploy]
     \/ Loads(h, "loaded") /\ DeployStep(h, "save")
  /\ load' = [load EXCEPT ![h] = NoLoad]
  /\ UNCHANGED <<engine, objects, modules, exec, rows, logged, walUp, feed, writer, made,
                 subsVars, storeVars, tickVars, main, work, asked>>

DeploySaves(h) ==
  /\ Deploys(h, "save") /\ DeployStep(h, "saving")
  /\ Store!SaveBegin(h, deploy[h].name, deploy[h].module)
  /\ UNCHANGED <<engineVars, subsVars, tickVars, main, work, asked>>

DeployWrites(h) ==
  /\ Store!SaveNext(h)
  /\ UNCHANGED <<engineVars, subsVars, tickVars, serverVars>>

DeployDone(h) ==
  /\ Deploys(h, "saving")
  /\ \/ Store!SaveReturns(h, "saved") /\ UNCHANGED modules
     \/ Store!SaveReturns(h, "failed") /\ UnloadModule(deploy[h].name)
  /\ deploy' = [deploy EXCEPT ![h] = NoDeploy]
  /\ UNCHANGED <<engine, objects, exec, load, rows, logged, walUp, feed, writer, made,
                 subsVars, tickVars, main, work, asked>>

\* UndeployModule: out of the engine, then out of the store.
UndeployModule(h, n) ==
  /\ Serving /\ Deploys(h, "none") /\ exec[h].at = "idle" /\ Works(1)
  /\ UnloadModule(n)
  /\ deploy' = [deploy EXCEPT ![h] = [at |-> "remove", name |-> n]]
  /\ UNCHANGED <<engine, objects, exec, load, rows, logged, walUp, feed, writer, made,
                 subsVars, storeVars, tickVars, main, asked>>

UndeployRemoves(h) ==
  /\ Deploys(h, "remove") /\ Store!Remove(deploy[h].name)
  /\ deploy' = [deploy EXCEPT ![h] = NoDeploy]
  /\ UNCHANGED <<engineVars, subsVars, tickVars, main, work, asked>>

\* ExecuteReducer, of a handler that is not deploying.
CallReducer(h, n) ==
  /\ Serving /\ Deploys(h, "none") /\ exec[h].at = "idle" /\ Works(1)
  /\ ExecuteReducer(h, n, "reducer")
  /\ OnlyExec /\ UNCHANGED <<subsVars, storeVars, tickVars, main, deploy, asked>>

CallReturns(h) ==
  /\ Deploys(h, "none") /\ Ended(h) /\ Release(h)
  /\ OnlyExec /\ UNCHANGED <<made, subsVars, storeVars, tickVars, serverVars>>

Handler(h) ==
  \/ DeployLoaded(h) \/ DeploySaves(h) \/ DeployWrites(h) \/ DeployDone(h)
  \/ UndeployRemoves(h) \/ CallReturns(h)
  \/ Len(objects) < MaxObjects /\ \E n \in Names, m \in Deployments : DeployModule(h, n, m)
  \/ \E n \in Names : UndeployModule(h, n) \/ CallReducer(h, n)

-----------------------------------------------------------------------------
(* The scheduler's workers call the engine between taking a tick and         *)
(* clearing its flag.                                                        *)
TickDue(n) ==
  /\ Works(1) /\ Tick!Dispatch(n)
  /\ UNCHANGED <<engineVars, subsVars, storeVars, main, deploy, asked>>

TickMoves ==
  /\ \/ Tick!Push \/ Tick!DispatchEnds
     \/ \E w \in Workers : Tick!WorkerTest(w) \/ Tick!WorkerBlocks(w)
  /\ UNCHANGED <<engineVars, subsVars, storeVars, serverVars>>

TickCalls(w) ==
  /\ worker[w].at = "run" /\ exec[w].at = "idle"
  /\ ExecuteReducer(w, worker[w].entry, "tick")
  /\ OnlyExec /\ UNCHANGED <<subsVars, storeVars, tickVars, serverVars>>

TickReturns(w) ==
  /\ Ended(w) /\ Release(w)
  /\ Tick!WorkerDone(w)
  /\ OnlyExec /\ UNCHANGED <<made, subsVars, storeVars, serverVars>>

Ticks == \/ TickMoves \/ \E n \in Names : TickDue(n)
         \/ \E w \in Workers : TickCalls(w) \/ TickReturns(w)

-----------------------------------------------------------------------------
(* Connections and the subscription thread.                                  *)
Connected(c) ==
  /\ Serving /\ Works(1) /\ Connect(c)
  /\ UNCHANGED <<storeVars, tickVars, main, deploy, asked>>

Subscribes(c, q) ==
  /\ Serving /\ Works(1) /\ CreateSubscription(c, q)
  /\ UNCHANGED <<storeVars, tickVars, main, deploy, asked>>

Subscriptions ==
  /\ Deliver \/ ThreadNext \/ \E c \in Clients : ClientNext(c)
  /\ UNCHANGED <<storeVars, tickVars, serverVars>>

-----------------------------------------------------------------------------
(* OriginDBServer::Initialize: the store is indexed, and every module in it  *)
(* is loaded (without its capabilities, which are not stored) before anyone  *)
(* can call; the scheduler is started last.                                  *)
\* The process ends, or dies at any point, and is started again.
Restart ==
  /\ IF main.at = "end" THEN UNCHANGED work ELSE Works(1)
  /\ engine' = "up" /\ objects' = <<>> /\ modules' = [n \in Names |-> 0]
  /\ exec' = [a \in Actors |-> Idle] /\ load' = [a \in Actors |-> NoLoad]
  /\ rows' = logged /\ walUp' = TRUE /\ feed' = <<>>
  /\ writer' = [c \in Cells |-> 0] /\ made' = [n |-> 0, failed |-> {}]
  /\ wsubs' = <<>> /\ wclient' = [c \in Clients |-> <<>>] /\ wmutex' = Free
  /\ wqueue' = <<>> /\ fed' = 0 /\ is_running' = TRUE /\ wthread' = Waiting
  /\ client' = [c \in Clients |-> [at |-> "out"]] /\ emitted' = <<>>
  /\ entries' = {} /\ running' = FALSE /\ in_flight' = [n \in Names |-> FALSE]
  /\ tick_queue' = <<>> /\ dispatcher' = [at |-> "off", entry |-> NoName, left |-> {}]
  /\ worker' = [w \in Workers |-> [at |-> "off", entry |-> NoName]]
  /\ Store!StoreInitialize
  /\ main' = [at |-> "restore", left |-> {n \in Names : Store!Indexed(n)}]
  /\ deploy' = [h \in Handlers |-> NoDeploy]
  /\ UNCHANGED <<logged, asked>>

Restore(n) ==
  /\ main.at = "restore" /\ n \in main.left /\ Loads(Main, "none")
  /\ LoadBegin(Main, n, [code |-> index[n].code, version |-> index[n].version, tables |-> {},
                          read_only |-> FALSE])
  /\ main' = [main EXCEPT !.left = @ \ {n}]
  /\ UNCHANGED <<subsVars, storeVars, tickVars, deploy, work, asked>>

Restored ==
  /\ main.at = "restore" /\ load[Main].at \in {"loaded", "failed"}
  /\ load' = [load EXCEPT ![Main] = NoLoad]
  /\ UNCHANGED <<engine, objects, modules, exec, rows, logged, walUp, feed, writer, made,
                 subsVars, storeVars, tickVars, serverVars>>

\* Connections and gRPC calls come from here on.
Listen ==
  /\ main.at = "restore" /\ main.left = {} /\ Loads(Main, "none")
  /\ main' = [main EXCEPT !.at = "listen"]
  /\ UNCHANGED <<engineVars, subsVars, storeVars, tickVars, deploy, work, asked>>

StartTicks ==
  /\ main.at = "listen"
  /\ Tick!TickStart(Ticked \intersect Loaded)
  /\ main' = [main EXCEPT !.at = "serve"]
  /\ UNCHANGED <<engineVars, subsVars, storeVars, deploy, work, asked>>

(* Shutdown: gRPC is drained, the scheduler and the subscription thread are  *)
(* joined, and the engine goes last.  The threads of the connections are     *)
(* detached: nobody waits for them.                                          *)
MainStep(at, next) == main.at = at /\ main' = [main EXCEPT !.at = next]

ShutdownBegins ==
  /\ MainStep("serve", "grpc") /\ Works(1)
  /\ UNCHANGED <<engineVars, subsVars, storeVars, tickVars, deploy, asked>>

GrpcStopped ==
  /\ MainStep("grpc", "join_ticks")
  /\ \A h \in Handlers : deploy[h].at = "none" /\ exec[h].at = "idle"
  /\ Tick!TickStop
  /\ UNCHANGED <<engineVars, subsVars, storeVars, deploy, work, asked>>

\* Mutant: the scheduler's threads are not joined.
TicksUnjoined ==
  /\ MainStep("join_ticks", "join_subs") /\ SubsStop
  /\ UNCHANGED <<engineVars, wsubs, wclient, wmutex, wqueue, fed, wthread, client, emitted,
                 storeVars, tickVars, deploy, work, asked>>

TicksStopped ==
  /\ MainStep("join_ticks", "join_subs") /\ Tick!TickJoined /\ SubsStop
  /\ UNCHANGED <<engineVars, wsubs, wclient, wmutex, wqueue, fed, wthread, client, emitted,
                 storeVars, tickVars, deploy, work, asked>>

\* The subscriptions are cleared, RequestShutdown.
SubsStopped ==
  /\ MainStep("join_subs", "engine") /\ SubsJoined /\ wmutex = Free
  /\ wsubs' = [i \in 1..Len(wsubs) |-> [wsubs[i] EXCEPT !.live = FALSE]]
  /\ wclient' = [c \in Clients |-> <<>>]
  /\ engine' = "stopping"
  /\ UNCHANGED <<objects, modules, exec, load, rows, logged, walUp, feed, writer, made,
                 wmutex, wqueue, fed, is_running, wthread, client, emitted, storeVars, tickVars,
                 deploy, work, asked>>

EngineStopped ==
  /\ MainStep("engine", "end")
  /\ engine' = "gone" /\ modules' = [n \in Names |-> 0]
  /\ UNCHANGED <<objects, exec, load, rows, logged, walUp, feed, writer, made, subsVars,
                 storeVars, tickVars, deploy, work, asked>>

Server ==
  \/ Restart \/ Restored \/ Listen \/ StartTicks
  \/ main.at = "restore" /\ \E n \in main.left : Restore(n)
  \/ ShutdownBegins \/ GrpcStopped \/ TicksStopped \/ SubsStopped \/ EngineStopped

EngineNext ==
  /\ \E a \in Actors : ExecNext(a) \/ LoadNext(a)
  /\ UNCHANGED <<subsVars, storeVars, tickVars, serverVars>>

LogFails ==
  /\ Works(1) /\ WalFails
  /\ UNCHANGED <<subsVars, storeVars, tickVars, main, deploy, asked>>

\* StorageEngine's checkpoint and the snapshot of its Shutdown: what is in the
\* tables is what the next life begins with, logged or not.
Snapshot ==
  /\ logged # rows /\ logged' = rows
  /\ UNCHANGED <<engine, objects, modules, exec, load, rows, walUp, feed, writer, made,
                 subsVars, storeVars, tickVars, serverVars>>

Next ==
  \/ Server \/ EngineNext \/ LogFails \/ Snapshot \/ Ticks \/ Subscriptions
  \/ \E h \in Handlers : Handler(h)
  \/ \E c \in Clients : Connected(c) \/ \E q \in Requests : Subscribes(c, q)

Spec == Init /\ [][Next]_vars

-----------------------------------------------------------------------------
\* Calls of one module object do not lose each other's updates: what a running
\* call has read of the committed rows is still there when it commits, unless
\* another object, or nobody's call of this one, has changed it (call_mutex,
\* held through the commit).
Serialized ==
  \A a \in Actors : exec[a].at \in InCall \ {"publish"} =>
    \A c \in DOMAIN exec[a].seen :
      Committed(c) = exec[a].seen[c] \/ writer[c] # exec[a].obj

\* host_emit_event, "Published only after a successful commit", and the same of
\* the transaction's own events: nothing in the feed is from a call that failed.
FailedCallsSilent == \A o \in 1..Len(feed) : feed[o].call \notin made.failed

\* An entry is in flight exactly while one tick of it is about to be queued,
\* queued, or with a worker: ticks are coalesced and none is lost.
TickCoalesced ==
  \A n \in Names :
    LET pushing == IF dispatcher.at = "push" /\ dispatcher.entry = n THEN 1 ELSE 0
        queued == Cardinality({i \in 1..Len(tick_queue) : tick_queue[i] = n})
        ran == Cardinality({w \in Workers : worker[w].entry = n})
    IN pushing + queued + ran = IF in_flight[n] THEN 1 ELSE 0

\* The code a name is bound to was deployed under the version that goes with it,
\* after any crash in the middle of any Save ("sha256-verified and restored on boot").
DeployedPairs ==
  \A n \in Names : modules[n] # 0 /\ main.at \in {"restore", "listen", "serve"} =>
    LET o == objects[modules[n]]
    IN [name |-> n, version |-> o.version, code |-> o.code] \in asked

\* Once the engine is gone no thread that Shutdown waits for is in a call or could
\* make one: the gRPC handlers, the scheduler, the subscription thread.  (A tick
\* that the dispatcher pushed after the last worker left stays in the queue.)
QuietBeforeEngineGoes ==
  engine = "gone" /\ main.at = "end" =>
    /\ \A a \in Actors \ Clients : exec[a].at = "idle"
    /\ \A w \in Workers : worker[w].at \notin {"run", "test"}
    /\ wthread.at = "ended"

\* No event is given to a connection that has left, or is leaving: processing and
\* OnClientDisconnected exclude each other.
SilentAfterDisconnect ==
  [][Len(emitted') > Len(emitted) =>
       client[emitted'[Len(emitted')].client].at \notin {"leaving", "gone"}]_vars

\* What a subscription is given is in offset order and of the tables it asked for;
\* and one without functions is given every such event that came after it, or the
\* event is still queued or in the batch (the table check of ProcessSingleEvent).
EveryEventEmitted ==
  \A i \in 1..Len(wsubs) :
    LET given == {j \in 1..Len(emitted) : emitted[j].sub = i /\ emitted[j].off # 0}
        pending == ToSet(wqueue) \union ToSet(wthread.batch)
    IN /\ \A j, k \in given : j < k => emitted[j].off < emitted[k].off
       /\ \A j \in given : Matches(i, emitted[j].off)
       /\ wsubs[i].live /\ is_running /\ Stages(i) = <<>> =>
            \A o \in {p \in wsubs[i].since..fed : Matches(i, p)} :
              o \in pending \/ \E j \in given : emitted[j].off = o

=============================================================================
