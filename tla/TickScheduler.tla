--------------------------- MODULE TickScheduler ---------------------------
(***************************************************************************)
(* src/src/wasm/tick_scheduler.cpp: a dispatcher that queues the entries     *)
(* whose time has come, unless their last tick is still in flight, and the   *)
(* workers that run them.  Time is the dispatcher's choice of when an entry  *)
(* is due.                                                                   *)
(***************************************************************************)
EXTENDS Naturals, Sequences, FiniteSets

CONSTANTS Workers, Names, NoName

VARIABLES
  entries,       \* entries_, fixed before Start
  running,       \* running_
  in_flight,     \* entry -> its in_flight flag
  tick_queue,    \* queue_
  dispatcher,    \* DispatchLoop: where it is, the entry it is about to push, and those
                 \* its pass over the entries has still to look at
  worker         \* WorkerLoop: where each is, and the entry it runs

tickVars == <<entries, running, in_flight, tick_queue, dispatcher, worker>>

TickInit ==
  /\ entries = {} /\ running = FALSE
  /\ in_flight = [n \in Names |-> FALSE]
  /\ tick_queue = <<>>
  /\ dispatcher = [at |-> "off", entry |-> NoName, left |-> {}]
  /\ worker = [w \in Workers |-> [at |-> "off", entry |-> NoName]]

\* AddEntry for each of es, then Start.
TickStart(es) ==
  /\ entries' = es /\ running' = TRUE
  /\ dispatcher' = [at |-> "loop", entry |-> NoName, left |-> es]
  /\ worker' = [w \in Workers |-> [at |-> "test", entry |-> NoName]]
  /\ UNCHANGED <<in_flight, tick_queue>>

-----------------------------------------------------------------------------
(* DispatchLoop.  running_ is tested once per pass over the entries: a pass  *)
(* that has begun goes on after Stop.  While running_ is set the next pass   *)
(* may begin at once, with every entry due again.                            *)

\* Mutant: an entry is queued although its last tick is in flight.
DispatchAlways(n) ==
  /\ dispatcher.at = "loop" /\ n \in dispatcher.left
  /\ in_flight' = [in_flight EXCEPT ![n] = TRUE]
  /\ dispatcher' = [at |-> "push", entry |-> n, left |-> dispatcher.left \ {n}]
  /\ UNCHANGED <<entries, running, tick_queue, worker>>

\* The compare_exchange of a due entry; one in flight is only counted as skipped.
Dispatch(n) ==
  /\ dispatcher.at = "loop" /\ n \in dispatcher.left
  /\ ~in_flight[n]
  /\ in_flight' = [in_flight EXCEPT ![n] = TRUE]
  /\ dispatcher' = [at |-> "push", entry |-> n, left |-> dispatcher.left \ {n}]
  /\ UNCHANGED <<entries, running, tick_queue, worker>>

\* A worker that has tested the predicate keeps queue_mutex_ until it blocks.
QueueFree == \A w \in Workers : worker[w].at # "block"

\* push and notify_one: any one of the workers that wait then.
Push ==
  /\ dispatcher.at = "push" /\ QueueFree
  /\ tick_queue' = Append(tick_queue, dispatcher.entry)
  /\ dispatcher' = [at |-> "loop", entry |-> NoName,
                     left |-> IF running THEN entries ELSE dispatcher.left]
  /\ LET asleep == {w \in Workers : worker[w].at = "wait"}
     IN IF asleep = {} THEN UNCHANGED worker
        ELSE \E w \in asleep : worker' = [worker EXCEPT ![w].at = "test"]
  /\ UNCHANGED <<entries, running, in_flight>>

DispatchEnds ==
  /\ dispatcher.at = "loop" /\ ~running
  /\ dispatcher' = [dispatcher EXCEPT !.at = "ended", !.left = {}]
  /\ UNCHANGED <<entries, running, in_flight, tick_queue, worker>>

-----------------------------------------------------------------------------
(* WorkerLoop: the predicate and what follows it under queue_mutex_.         *)
WorkerTest(w) ==
  /\ worker[w].at = "test" /\ QueueFree
  /\ \/ /\ tick_queue # <<>>
        /\ worker' = [worker EXCEPT ![w] = [at |-> "run", entry |-> Head(tick_queue)]]
        /\ tick_queue' = Tail(tick_queue)
     \/ /\ tick_queue = <<>>
        /\ worker' = [worker EXCEPT ![w].at = IF running THEN "block" ELSE "ended"]
        /\ UNCHANGED tick_queue
  /\ UNCHANGED <<entries, running, in_flight, dispatcher>>

WorkerBlocks(w) ==
  /\ worker[w].at = "block"
  /\ worker' = [worker EXCEPT ![w].at = "wait"]
  /\ UNCHANGED <<entries, running, in_flight, tick_queue, dispatcher>>

\* The reducer returned, one way or the other.
WorkerDone(w) ==
  /\ worker[w].at = "run"
  /\ in_flight' = [in_flight EXCEPT ![worker[w].entry] = FALSE]
  /\ worker' = [worker EXCEPT ![w] = [at |-> "test", entry |-> NoName]]
  /\ UNCHANGED <<entries, running, tick_queue, dispatcher>>

-----------------------------------------------------------------------------
\* Stop: the flag and notify_all, without queue_mutex_, then the joins.
TickStop ==
  /\ running' = FALSE
  /\ worker' = [w \in Workers |-> IF worker[w].at = "wait" THEN [worker[w] EXCEPT !.at = "test"]
                                  ELSE worker[w]]
  /\ UNCHANGED <<entries, in_flight, tick_queue, dispatcher>>

TickJoined ==
  /\ dispatcher.at \in {"off", "ended"}
  /\ \A w \in Workers : worker[w].at \in {"off", "ended"}

=============================================================================
