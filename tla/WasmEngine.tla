---------------------------- MODULE WasmEngine -----------------------------
(***************************************************************************)
(* src/src/wasm/wasm_engine.cpp and host_functions.cpp: module objects, hot  *)
(* swap, and the execution of one guest call: host calls against an overlay, *)
(* then a storage transaction, then the events.                              *)
(*                                                                           *)
(* Guest code is not the server's: Guest(fn) gives the programs a function   *)
(* may run, a sequence of host calls and a status; any call may also trap.   *)
(* Storage is what the call sees of it: rows, and what the log has of them   *)
(* (module StorageEngine has the rest).                                      *)
(***************************************************************************)
EXTENDS Naturals, SequencesExt, TLC

CONSTANTS
  Actors,          \* the threads that call the engine
  Names, Tables, Keys, NoTable, NoRow,
  CellOrder,       \* all <<table, key>>, in the order of the overlay's maps
  Guest(_),        \* function name -> programs
  Reserved,        \* function names that begin with __
  MaxObjects

VARIABLES
  engine,     \* "up", "stopping" (shutdown_requested_) or "gone"
  objects,    \* every WasmModule made so far
  modules,    \* modules_: name -> an index of objects, 0 for none
  exec,       \* each thread's Execute
  load,       \* each thread's LoadModule
  rows, logged, walUp, feed,
  writer,     \* history: the object that last changed a cell
  made        \* history: calls so far, and those that failed

engineVars == <<engine, objects, modules, exec, load, rows, logged, walUp, feed, writer, made>>

Cells == Tables \X Keys

\* The functions that the server calls, and what every program of theirs is made of.
FunctionNames == {"reducer", "tick", "filter", "transform", "__init", "__migrate",
                  "__get_initial_data", "__client_connected", "__client_disconnected"}
HostCalls == {"read", "scan", "write", "delete", "emit"}

ASSUME GuestAssumption ==
  \A fn \in FunctionNames : \A prog \in Guest(fn) :
    /\ prog.ops \in Seq({prog.ops[i] : i \in DOMAIN prog.ops})
    /\ \A i \in DOMAIN prog.ops : prog.ops[i].op \in HostCalls /\ prog.ops[i].cell \in Cells

EmptyTable == [k \in Keys |-> NoRow]
Idle == [at |-> "idle"]
NoLoad == [at |-> "none"]

EngineInit ==
  /\ engine = "up" /\ objects = <<>>
  /\ modules = [n \in Names |-> 0]
  /\ exec = [a \in Actors |-> Idle]
  /\ load = [a \in Actors |-> NoLoad]
  /\ rows = [t \in Tables |-> NoTable] /\ logged = rows
  /\ walUp = TRUE /\ feed = <<>>
  /\ writer = [c \in Cells |-> 0]
  /\ made = [n |-> 0, failed |-> {}]

-----------------------------------------------------------------------------
(* Execute, of a module object.                                              *)
Frame(o, fn, prog, n) ==
  [at |-> "lock", obj |-> o, fn |-> fn, todo |-> prog.ops, status |-> prog.status,
   overlay |-> <<>>, events |-> <<>>, seen |-> <<>>, staged |-> <<>>, n |-> n]

\* The result is left for the caller in at: "done" or "failed".
Execute(a, o, fn) ==
  /\ exec[a].at = "idle"
  /\ \E prog \in Guest(fn) : exec' = [exec EXCEPT ![a] = Frame(o, fn, prog, made.n + 1)]
  /\ made' = [made EXCEPT !.n = @ + 1]

\* ExecuteReducer: the module is looked up now; what is swapped in later does
\* not concern this call.
ExecuteReducer(a, name, fn) ==
  IF modules[name] = 0
  THEN exec' = [exec EXCEPT ![a] = [at |-> "failed", n |-> 0]] /\ UNCHANGED made
  ELSE Execute(a, modules[name], fn)

Fails(a) ==
  /\ exec' = [exec EXCEPT ![a] = [at |-> "failed", n |-> exec[a].n]]
  /\ made' = [made EXCEPT !.failed = @ \union {exec[a].n}]

Succeeds(a) == exec' = [exec EXCEPT ![a] = [at |-> "done", n |-> exec[a].n]] /\ UNCHANGED made

ExecAt(a, at) == engine # "gone" /\ exec[a].at = at
Ended(a) == exec[a].at \in {"done", "failed"}

\* call_mutex is held from here to the return, commit and publication included.
InCall == {"guest", "create", "stage", "commit", "publish"}

\* Mutant: Execute does not take call_mutex.
LockNothing(a) ==
  /\ ExecAt(a, "lock")
  /\ exec' = [exec EXCEPT ![a].at = "guest"] /\ UNCHANGED made
  /\ UNCHANGED <<engine, objects, modules, load, rows, logged, walUp, feed, writer>>

Lock(a) ==
  /\ ExecAt(a, "lock")
  /\ \A b \in Actors : exec[b].at \in InCall => exec[b].obj # exec[a].obj
  /\ IF engine = "up"
     THEN \* a call that trapped left no instance: Instantiate may fail now
          \/ exec' = [exec EXCEPT ![a].at = "guest"] /\ UNCHANGED made
          \/ ~objects[exec[a].obj].instantiated /\ Fails(a)
     ELSE Fails(a)
  /\ objects' = IF exec'[a].at = "guest" THEN [objects EXCEPT ![exec[a].obj].instantiated = TRUE]
                ELSE objects
  /\ UNCHANGED <<engine, modules, load, rows, logged, walUp, feed, writer>>

-----------------------------------------------------------------------------
(* The host functions.                                                       *)
Allowed(o, t) == objects[o].tables = {} \/ t \in objects[o].tables
MayWrite(o, t) == ~objects[o].read_only /\ Allowed(o, t)

Cell(tabs, c) == IF tabs[c[1]] = NoTable THEN NoRow ELSE tabs[c[1]][c[2]]
Committed(c) == Cell(rows, c)

\* HostTableRead and HostTableScan: overlay over committed rows, tombstones
\* included; remembered is what came from the committed rows.
Look(f, cells) ==
  LET fresh == {c \in cells : Allowed(f.obj, c[1]) /\ c \notin DOMAIN f.overlay}
  IN [f EXCEPT !.seen = [c \in fresh \union DOMAIN @ |-> IF c \in fresh THEN Committed(c) ELSE @[c]]]

\* HostTableWrite, HostTableDelete (val is NoRow), HostEmitEvent, and the calls
\* that only read the call's own state.  What is not permitted is answered -2.
Staged(f, op) ==
  CASE op.op \in {"write", "delete"} ->
         IF MayWrite(f.obj, op.cell[1])
         THEN [f EXCEPT !.overlay = [c \in DOMAIN @ \union {op.cell} |->
                                       IF c = op.cell THEN op.val ELSE @[c]]] ELSE f
    [] op.op = "emit" -> [f EXCEPT !.events = Append(@, [topic |-> op.topic, payload |-> op.val])]
    [] op.op = "read" -> Look(f, {op.cell})
    [] op.op = "scan" -> Look(f, {c \in Cells : c[1] = op.cell[1]})

HostCall(a) ==
  /\ ExecAt(a, "guest") /\ exec[a].todo # <<>>
  /\ exec' = [exec EXCEPT ![a] = [Staged(exec[a], Head(exec[a].todo)) EXCEPT !.todo = Tail(@)]]
  /\ UNCHANGED <<engine, objects, modules, load, rows, logged, walUp, feed, writer, made>>

\* Out of bounds, host_abort, the deadline, the memory limit, RequestShutdown:
\* the instance is destroyed and everything staged forgotten.
Trap(a) ==
  /\ ExecAt(a, "guest") /\ Fails(a)
  /\ objects' = [objects EXCEPT ![exec[a].obj].instantiated = FALSE]
  /\ UNCHANGED <<engine, modules, load, rows, logged, walUp, feed, writer>>

\* CallInvoke returned a status.
Return(a) ==
  /\ ExecAt(a, "guest") /\ exec[a].todo = <<>>
  /\ CASE exec[a].status = "no_handler" -> IF exec[a].fn \in Reserved THEN Succeeds(a) ELSE Fails(a)
       [] exec[a].status = "negative"   -> Fails(a)
       [] OTHER -> /\ exec' = [exec EXCEPT ![a].at = IF exec[a].overlay = <<>> THEN "publish"
                                                     ELSE "create"]
                   /\ UNCHANGED made
  /\ UNCHANGED <<engine, objects, modules, load, rows, logged, walUp, feed, writer>>

-----------------------------------------------------------------------------
(* CommitHostCall: missing tables, the write set, the transaction, and the   *)
(* events it and the guest emit.                                             *)
Missing(ov) == {t \in Tables : /\ rows[t] = NoTable
                               /\ \E c \in DOMAIN ov : c[1] = t /\ ov[c] # NoRow}

\* CreateTable is a call of its own, logged and visible before the transaction.
CreateTables(a) ==
  /\ ExecAt(a, "create")
  /\ IF Missing(exec[a].overlay) = {}
     THEN /\ exec' = [exec EXCEPT ![a].at = "stage"] /\ UNCHANGED <<rows, logged>>
     ELSE \E t \in Missing(exec[a].overlay) :
            /\ rows' = [u \in Tables |-> IF u = t THEN EmptyTable ELSE rows[u]]
            /\ logged' = IF walUp THEN [logged EXCEPT ![t] = EmptyTable] ELSE logged
            /\ UNCHANGED exec
  /\ UNCHANGED <<engine, objects, modules, load, walUp, feed, writer, made>>

\* One write of the overlay after the other: a row that is there is updated.
WriteOrder(ov) == SelectSeq(CellOrder, LAMBDA c : c \in DOMAIN ov)

StageWrite(a) ==
  LET f == exec[a]
      todo == WriteOrder(f.overlay)
      c == todo[Len(f.staged) + 1]
      op == CASE f.overlay[c] = NoRow  -> "DELETE"
              [] Committed(c) # NoRow  -> "UPDATE"
              [] OTHER                 -> "INSERT"
  IN /\ ExecAt(a, "stage")
     /\ exec' = IF Len(f.staged) < Len(todo)
                THEN [exec EXCEPT ![a].staged = Append(@, [op |-> op, cell |-> c,
                                                           new |-> f.overlay[c], call |-> f.n])]
                ELSE [exec EXCEPT ![a].at = "commit"]
     /\ UNCHANGED <<engine, objects, modules, load, rows, logged, walUp, feed, writer, made>>

\* StorageEngine::Commit stops at the first write that fails; those before it stay.
Apply(w, acc) ==
  LET there == acc.rows[w.cell[1]] # NoTable
  IN IF /\ acc.good /\ there
        /\ w.op = "INSERT" \/ acc.rows[w.cell[1]][w.cell[2]] # NoRow
     THEN [good |-> TRUE, rows |-> [acc.rows EXCEPT ![w.cell[1]][w.cell[2]] = w.new]]
     ELSE [acc EXCEPT !.good = FALSE]

Applied(ws) == FoldLeft(LAMBDA acc, w : Apply(w, acc), [good |-> TRUE, rows |-> rows], ws)

\* What recovery makes of a logged write: an INSERT of a row that is there, and an
\* UPDATE or DELETE of one that is not, are refused.
Replay(tabs, w) ==
  LET t == w.cell[1]
      k == w.cell[2]
  IN IF tabs[t] # NoTable /\ ((w.op = "INSERT") = (tabs[t][k] = NoRow))
     THEN [tabs EXCEPT ![t][k] = w.new] ELSE tabs

Replayed(ws) == FoldLeft(Replay, logged, ws)

\* History: whose cells are changed by a commit of object o that leaves tabs.
Writers(o, tabs) == [c \in Cells |-> IF Cell(tabs, c) # Committed(c) THEN o ELSE writer[c]]

\* A custom event has its topic where the others have their table.
CustomEvents(f) ==
  [i \in 1..Len(f.events) |-> [op |-> "EVENT", topic |-> f.events[i].topic,
                               new |-> f.events[i].payload, call |-> f.n]]

\* Mutant: the guest's own events are published whether or not the commit works.
CommitPublishesFirst(a) ==
  LET f == exec[a]
      r == Applied(f.staged)
  IN /\ ExecAt(a, "commit")
     /\ rows' = r.rows
     /\ writer' = Writers(f.obj, r.rows)
     /\ feed' = feed \o CustomEvents(f)
     /\ IF r.good /\ walUp
        THEN /\ logged' = Replayed(f.staged)
             /\ exec' = [exec EXCEPT ![a].at = "publish", ![a].overlay = <<>>] /\ UNCHANGED made
        ELSE Fails(a) /\ UNCHANGED logged
     /\ UNCHANGED <<engine, objects, modules, load, walUp>>

Commit(a) ==
  LET f == exec[a]
      r == Applied(f.staged)
  IN /\ ExecAt(a, "commit")
     /\ rows' = r.rows
     /\ writer' = Writers(f.obj, r.rows)
     /\ IF r.good /\ walUp
        THEN /\ logged' = Replayed(f.staged)
             /\ exec' = [exec EXCEPT ![a].at = "publish", ![a].overlay = <<>>] /\ UNCHANGED made
        ELSE Fails(a) /\ UNCHANGED logged
     /\ UNCHANGED <<engine, objects, modules, load, walUp, feed>>

\* The transaction's events, then the guest's own; with none left Execute returns.
Publish(a) ==
  LET f == exec[a]
  IN /\ ExecAt(a, "publish")
     /\ CASE f.staged # <<>> -> /\ feed' = Append(feed, Head(f.staged))
                                /\ exec' = [exec EXCEPT ![a].staged = Tail(@)] /\ UNCHANGED made
          [] f.staged = <<>> /\ f.events # <<>> ->
                                /\ feed' = Append(feed, Head(CustomEvents(f)))
                                /\ exec' = [exec EXCEPT ![a].events = Tail(@)] /\ UNCHANGED made
          [] OTHER -> Succeeds(a) /\ UNCHANGED feed
     /\ UNCHANGED <<engine, objects, modules, load, rows, logged, walUp, writer>>

ExecNext(a) ==
  \/ Lock(a) \/ HostCall(a) \/ Trap(a) \/ Return(a)
  \/ CreateTables(a) \/ StageWrite(a) \/ Commit(a) \/ Publish(a)

-----------------------------------------------------------------------------
(* LoadModule, UnloadModule.                                                 *)
Loads(a, at) == load[a].at = at

\* Both versions known and the new one older (CompareVersions; 0 is the empty version).
Downgrade(new, prev) == /\ prev # 0 /\ new # 0 /\ objects[prev].version # 0
                        /\ new < objects[prev].version

\* Compile, Instantiate, ExtractMetadata, the look at the predecessor and the
\* version gate; then __init runs in the new object.
LoadBegin(a, n, m) ==
  LET prev == modules[n]
  IN /\ Loads(a, "none") /\ Len(objects) < MaxObjects
     /\ \/ /\ engine = "up" /\ m.code # "invalid" /\ ~Downgrade(m.version, prev)
           /\ objects' = Append(objects, [name |-> n, code |-> m.code, version |-> m.version,
                                          tables |-> m.tables, read_only |-> m.read_only,
                                          instantiated |-> TRUE])
           /\ load' = [load EXCEPT ![a] = [at |-> "init", name |-> n, obj |-> Len(objects) + 1,
                                           prev |-> prev]]
           /\ Execute(a, Len(objects) + 1, "__init")
        \/ /\ engine # "up" \/ m.code = "invalid" \/ Downgrade(m.version, prev)
           /\ load' = [load EXCEPT ![a] = [at |-> "failed"]]
           /\ UNCHANGED <<objects, exec, made>>
     /\ UNCHANGED <<engine, modules, rows, logged, walUp, feed, writer>>

\* __init returned; with a predecessor __migrate follows, in the new object too.
LoadInit(a) ==
  /\ Loads(a, "init") /\ Ended(a)
  /\ \/ /\ exec[a].at = "failed"
        /\ load' = [load EXCEPT ![a] = [at |-> "failed"]]
        /\ exec' = [exec EXCEPT ![a] = Idle] /\ UNCHANGED made
     \/ /\ exec[a].at = "done" /\ load[a].prev = 0
        /\ load' = [load EXCEPT ![a].at = "swap"]
        /\ exec' = [exec EXCEPT ![a] = Idle] /\ UNCHANGED made
     \/ /\ exec[a].at = "done" /\ load[a].prev # 0
        /\ load' = [load EXCEPT ![a].at = "migrate"]
        /\ \E prog \in Guest("__migrate") :
             exec' = [exec EXCEPT ![a] = Frame(load[a].obj, "__migrate", prog, made.n + 1)]
        /\ made' = [made EXCEPT !.n = @ + 1]
  /\ UNCHANGED <<engine, objects, modules, rows, logged, walUp, feed, writer>>

LoadMigrate(a) ==
  /\ Loads(a, "migrate") /\ Ended(a)
  /\ load' = IF exec[a].at = "done" THEN [load EXCEPT ![a].at = "swap"]
             ELSE [load EXCEPT ![a] = [at |-> "failed"]]
  /\ exec' = [exec EXCEPT ![a] = Idle]
  /\ UNCHANGED <<engine, objects, modules, rows, logged, walUp, feed, writer, made>>

LoadSwap(a) ==
  /\ Loads(a, "swap")
  /\ modules' = [modules EXCEPT ![load[a].name] = load[a].obj]
  /\ load' = [load EXCEPT ![a] = [at |-> "loaded"]]
  /\ UNCHANGED <<engine, objects, exec, rows, logged, walUp, feed, writer, made>>

LoadNext(a) == LoadInit(a) \/ LoadMigrate(a) \/ LoadSwap(a)

UnloadModule(n) == modules' = [modules EXCEPT ![n] = 0]

\* The log fails and stays failed; nobody sees it before there is something to log.
WalFails ==
  /\ walUp /\ walUp' = FALSE
  /\ \E a \in Actors : exec[a].at \in {"create", "commit"}
  /\ UNCHANGED <<engine, objects, modules, exec, load, rows, logged, feed, writer, made>>

=============================================================================
