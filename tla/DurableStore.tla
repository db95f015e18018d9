---------------------------- MODULE DurableStore ----------------------------
(***************************************************************************)
(* What the storage engine promises its callers and the changefeed: commits  *)
(* take effect one after the other; the feed has only commits that a caller  *)
(* may have been told of; and a restart goes back no further than the last   *)
(* commit a caller was told of, to the result of a whole number of commits.  *)
(***************************************************************************)
EXTENDS Naturals, Sequences

CONSTANTS
  States,  \* what a database can be
  NoView   \* nobody can read: the process is down, recovering or shut down

VARIABLES
  view,    \* what readers see
  history, \* the database after each commit since the start, and at the start
  told,    \* the latest of them that a caller was told is durable
  feed,    \* the commits with events in the change feed
  exact    \* nothing has happened that the promise leaves out

vars == <<view, history, told, feed, exact>>

Init ==
  /\ \E s \in States : view = s /\ history = <<s>>
  /\ told = 1 /\ feed = {} /\ exact = TRUE

\* A transaction, or a table created or dropped.
Commit ==
  /\ view # NoView
  /\ \E s \in States : view' = s /\ history' = Append(history, s)
  /\ exact' \in {exact, FALSE}
  /\ UNCHANGED <<told, feed>>

Acknowledge ==
  /\ told' \in (told + 1)..Len(history)
  /\ exact' \in {exact, FALSE}
  /\ UNCHANGED <<view, history, feed>>

Publish ==
  /\ \E n \in 2..told : feed' = feed \union {n}
  /\ UNCHANGED <<view, history, told, exact>>

\* A failing log, a commit that fails half way and the other departures.
Depart ==
  /\ ~exact' /\ view' \in {view} \union States
  /\ UNCHANGED <<history, told, feed>>

\* A crash, or the end of a shutdown.
Stop ==
  /\ view' = NoView /\ feed' \in {feed, {}} /\ exact' \in {exact, FALSE}
  /\ UNCHANGED <<history, told>>

\* The snapshot and the log are what is left, of what the promise leaves out too.
Recover ==
  /\ view = NoView /\ feed = {}
  /\ \E s \in States :
       /\ exact => \E i \in told..Len(history) : history[i] = s
       /\ history' = <<s>>
  /\ told' = 1 /\ exact' \in {exact, TRUE}
  /\ UNCHANGED <<view, feed>>

\* Recovery is over.
Open ==
  /\ view = NoView
  /\ view' \in IF exact THEN {history[Len(history)]} ELSE States
  /\ UNCHANGED <<history, told, feed, exact>>

Next == Commit \/ Acknowledge \/ Publish \/ Depart \/ Stop \/ Recover \/ Open

Spec == Init /\ [][Next]_vars

=============================================================================
