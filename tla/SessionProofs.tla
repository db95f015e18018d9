---------------------------- MODULE SessionProofs ----------------------------
(***************************************************************************)
(* Proofs about module Session.  Three inductive invariants, each resting on *)
(* the ones before it:                                                       *)
(*   LedgerInv   what became of every commit: published, held by the thread  *)
(*               that is to publish it, or never to be published;            *)
(*   SocketInv   the subscription manager's maps, and which descriptor,      *)
(*               which entry of client_ids_ and which subscriptions a        *)
(*               connection has in each state of its thread;                 *)
(*   StreamInv   what OnChangefeedEvent still owes to whom, and what each    *)
(*               client has received so far.                                 *)
(***************************************************************************)
EXTENDS Session, FiniteSetTheorems, TLAPS

-----------------------------------------------------------------------------
(***************************************************************************)
(* Sequences whose elements have no common type.                            *)
(***************************************************************************)
IsSeq(s) == Len(s) \in Nat /\ s = [i \in 1..Len(s) |-> s[i]]

LEMMA SeqIsSeq == ASSUME NEW S, NEW s \in Seq(S) PROVE IsSeq(s)
  BY DEF IsSeq

LEMMA IsSeqInSeq == ASSUME NEW s, IsSeq(s) PROVE s \in Seq({s[i] : i \in 1..Len(s)})
  BY DEF IsSeq

LEMMA EmptyIsSeq == IsSeq(<<>>) /\ Len(<<>>) = 0
  BY DEF IsSeq

LEMMA AppendIsSeq ==
  ASSUME NEW s, IsSeq(s), NEW x
  PROVE /\ IsSeq(Append(s, x)) /\ Len(Append(s, x)) = Len(s) + 1 /\ Len(s) \in Nat
        /\ \A i \in 1..Len(s) : Append(s, x)[i] = s[i]
        /\ Append(s, x)[Len(s) + 1] = x
<1> DEFINE S == {s[i] : i \in 1..Len(s)} \union {x}
<1>1. s \in Seq(S) /\ x \in S
  BY DEF IsSeq
<1> HIDE DEF S
<1>2. Append(s, x) \in Seq(S)
  BY <1>1
<1>3. IsSeq(Append(s, x))
  BY <1>2, SeqIsSeq
<1> QED BY <1>1, <1>3

LEMMA TailIsSeq ==
  ASSUME NEW s, IsSeq(s), Len(s) > 1
  PROVE /\ IsSeq(Tail(s)) /\ Len(Tail(s)) = Len(s) - 1
        /\ \A i \in 1..Len(Tail(s)) : Tail(s)[i] = s[i + 1] /\ i + 1 \in 1..Len(s)
<1> DEFINE S == {s[i] : i \in 1..Len(s)}
<1>1. s \in Seq(S) /\ Len(s) \in Nat /\ s # <<>>
  BY DEF IsSeq
<1> HIDE DEF S
<1>2. Tail(s) \in Seq(S) /\ Len(Tail(s)) = Len(s) - 1
  BY <1>1
<1>3. IsSeq(Tail(s))
  BY <1>2, SeqIsSeq
<1> QED BY <1>1, <1>2, <1>3

-----------------------------------------------------------------------------
(***************************************************************************)
(* The ledger of commits.                                                   *)
(***************************************************************************)
Threads == ({"call"} \X Callers) \union ({"conn"} \X Conns)

\* The commit that a thread has made durable and is about to publish; 0 for none.
CallHolds(c) == IF call[c].at = "publish" THEN call[c].n ELSE 0
ConnHolds(c) == IF conn[c].at = "commit" THEN conn[c].n ELSE 0
Holds == [h \in Threads |-> IF h[1] = "call" THEN CallHolds(h[2]) ELSE ConnHolds(h[2])]

\* Commits are numbered in order, and each one that is durable is in the feed
\* once, or held by one thread.
Ledger(log, pub, hold) ==
  /\ IsSeq(log) /\ IsSeq(pub) /\ hold \in [Threads -> Nat]
  /\ \A i \in 1..Len(log) : log[i].n = i /\ log[i].durable \in BOOLEAN /\ log[i].table \in Tables
  /\ \A o \in 1..Len(pub) : pub[o].n \in 1..Len(log) /\ pub[o] = log[pub[o].n]
  /\ \A h \in Threads : hold[h] \in 0..Len(log)
  /\ \A o, p \in 1..Len(pub) : pub[o].n = pub[p].n => o = p
  /\ \A h, g \in Threads : hold[h] = hold[g] /\ hold[h] # 0 => h = g
  /\ \A o \in 1..Len(pub), h \in Threads : pub[o].n # hold[h]
  /\ \A i \in 1..Len(log) :
       log[i].durable <=> \/ \E o \in 1..Len(pub) : pub[o].n = i
                          \/ \E h \in Threads : hold[h] = i

\* What a step may do to it.
LedgerSame == UNCHANGED <<commits, feed>> /\ Holds' = Holds
CommitEntry(e) == e.n = NextCommit /\ e.table \in Tables
LedgerCommits ==
  /\ UNCHANGED feed
  /\ \E e : \E h \in Threads :
       /\ CommitEntry(e) /\ e.durable = TRUE /\ commits' = Append(commits, e)
       /\ Holds[h] = 0 /\ Holds' = [Holds EXCEPT ![h] = NextCommit]
LedgerLoses ==
  /\ UNCHANGED feed /\ Holds' = Holds
  /\ \E e : CommitEntry(e) /\ e.durable = FALSE /\ commits' = Append(commits, e)
LedgerPublishes ==
  /\ UNCHANGED commits
  /\ \E h \in Threads : /\ Holds[h] # 0 /\ feed' = Append(feed, commits[Holds[h]])
                        /\ Holds' = [Holds EXCEPT ![h] = 0]

LEMMA LedgerEmpty ==
  ASSUME NEW hold, hold = [h \in Threads |-> 0] PROVE Ledger(<<>>, <<>>, hold)
  BY EmptyIsSeq DEF Ledger

LEMMA LedgerCommit ==
  ASSUME NEW log, NEW pub, NEW hold, Ledger(log, pub, hold), NEW h \in Threads, hold[h] = 0,
         NEW e, e.n = Len(log) + 1, e.durable = TRUE, e.table \in Tables
  PROVE Ledger(Append(log, e), pub, [hold EXCEPT ![h] = Len(log) + 1])
<1>1. /\ IsSeq(Append(log, e)) /\ Len(Append(log, e)) = Len(log) + 1 /\ Len(log) \in Nat
      /\ \A i \in 1..Len(log) : Append(log, e)[i] = log[i]
      /\ Append(log, e)[Len(log) + 1] = e
  BY AppendIsSeq DEF Ledger
<1> DEFINE L == Append(log, e)
           H == [hold EXCEPT ![h] = Len(log) + 1]
<1>2. /\ H \in [Threads -> Nat] /\ H[h] = Len(log) + 1
      /\ \A g \in Threads : g # h => H[g] = hold[g]
  BY <1>1 DEF Ledger
<1>3. \A i \in 1..Len(L) : i \in 1..Len(log) \/ i = Len(log) + 1
  BY <1>1
<1> HIDE DEF L, H
<1>4. Len(L) = Len(log) + 1 /\ (\A i \in 1..Len(log) : L[i] = log[i]) /\ L[Len(log) + 1] = e /\ IsSeq(L)
  BY <1>1 DEF L
<1>5. ASSUME NEW i \in 1..Len(L)
      PROVE L[i].n = i /\ L[i].durable \in BOOLEAN /\ L[i].table \in Tables
  <2>1. CASE i \in 1..Len(log)
    <3>1. L[i] = log[i]
      BY <2>1, <1>4
    <3> QED BY <2>1, <3>1, Zenon DEF Ledger
  <2>2. CASE i = Len(log) + 1
    <3>1. L[i] = e /\ TRUE \in BOOLEAN
      BY <2>2, <1>4
    <3> QED BY <2>2, <3>1, Zenon
  <2> QED BY <2>1, <2>2, <1>3
<1>6. \A o \in 1..Len(pub) : pub[o].n \in 1..Len(L) /\ pub[o] = L[pub[o].n]
  BY <1>1, <1>4 DEF Ledger
<1>7. \A g \in Threads : H[g] \in 0..Len(L)
  BY <1>1, <1>2, <1>4 DEF Ledger
<1>8. \A g, k \in Threads : H[g] = H[k] /\ H[g] # 0 => g = k
  BY <1>1, <1>2 DEF Ledger
<1>9. \A o \in 1..Len(pub), g \in Threads : pub[o].n # H[g]
  BY <1>1, <1>2 DEF Ledger
<1>10. ASSUME NEW i \in 1..Len(L)
       PROVE L[i].durable <=> \/ \E o \in 1..Len(pub) : pub[o].n = i
                              \/ \E g \in Threads : H[g] = i
  <2>1. CASE i = Len(log) + 1
    BY <2>1, <1>2, <1>4
  <2>2. CASE i \in 1..Len(log)
    <3>1. L[i].durable = log[i].durable /\ i # Len(log) + 1 /\ i # 0
      BY <2>2, <1>1, <1>4
    <3>2. \A g \in Threads : H[g] = i <=> hold[g] = i
      BY <3>1, <1>2
    <3> QED BY <2>2, <3>1, <3>2 DEF Ledger
  <2> QED BY <2>1, <2>2, <1>3
<1>11. Ledger(L, pub, H)
  BY <1>2, <1>4, <1>5, <1>6, <1>7, <1>8, <1>9, <1>10 DEF Ledger
<1> QED BY <1>11 DEF L, H

LEMMA LedgerLoss ==
  ASSUME NEW log, NEW pub, NEW hold, Ledger(log, pub, hold),
         NEW e, e.n = Len(log) + 1, e.durable = FALSE, e.table \in Tables
  PROVE Ledger(Append(log, e), pub, hold)
<1> DEFINE L == Append(log, e)
<1>1. /\ IsSeq(L) /\ Len(L) = Len(log) + 1 /\ Len(log) \in Nat
      /\ \A i \in 1..Len(log) : L[i] = log[i]
      /\ L[Len(log) + 1] = e
  BY AppendIsSeq DEF Ledger
<1>3. \A i \in 1..Len(L) : i \in 1..Len(log) \/ i = Len(log) + 1
  BY <1>1
<1> HIDE DEF L
<1>5. \A i \in 1..Len(L) : L[i].n = i /\ L[i].durable \in BOOLEAN /\ L[i].table \in Tables
  BY <1>3, <1>1 DEF Ledger
<1>6. \A o \in 1..Len(pub) : pub[o].n \in 1..Len(L) /\ pub[o] = L[pub[o].n]
  BY <1>1 DEF Ledger
<1>7. \A g \in Threads : hold[g] \in 0..Len(L)
  BY <1>1 DEF Ledger
<1>10. ASSUME NEW i \in 1..Len(L)
       PROVE L[i].durable <=> \/ \E o \in 1..Len(pub) : pub[o].n = i
                              \/ \E g \in Threads : hold[g] = i
  <2>1. CASE i = Len(log) + 1
    BY <2>1, <1>1 DEF Ledger
  <2>2. CASE i \in 1..Len(log)
    BY <2>2, <1>1 DEF Ledger
  <2> QED BY <2>1, <2>2, <1>3
<1>11. Ledger(L, pub, hold)
  BY <1>1, <1>5, <1>6, <1>7, <1>10 DEF Ledger
<1> QED BY <1>11 DEF L

LEMMA LedgerPublish ==
  ASSUME NEW log, NEW pub, NEW hold, Ledger(log, pub, hold), NEW h \in Threads, hold[h] # 0
  PROVE Ledger(log, Append(pub, log[hold[h]]), [hold EXCEPT ![h] = 0])
<1> DEFINE P == Append(pub, log[hold[h]])
           H == [hold EXCEPT ![h] = 0]
<1>1. /\ IsSeq(P) /\ Len(P) = Len(pub) + 1 /\ Len(pub) \in Nat
      /\ \A i \in 1..Len(pub) : P[i] = pub[i]
      /\ P[Len(pub) + 1] = log[hold[h]]
  BY AppendIsSeq DEF Ledger
<1>2. /\ H \in [Threads -> Nat] /\ H[h] = 0 /\ \A g \in Threads : g # h => H[g] = hold[g]
  BY DEF Ledger
<1>3. \A i \in 1..Len(P) : i \in 1..Len(pub) \/ i = Len(pub) + 1
  BY <1>1
<1>4. hold[h] \in 1..Len(log) /\ log[hold[h]].n = hold[h]
  BY DEF Ledger, IsSeq
<1> HIDE DEF P, H
<1>6. \A o \in 1..Len(P) : P[o].n \in 1..Len(log) /\ P[o] = log[P[o].n]
  BY <1>1, <1>3, <1>4 DEF Ledger
<1>7. \A g \in Threads : H[g] \in 0..Len(log)
  BY <1>2 DEF Ledger, IsSeq
<1>8. \A o, p \in 1..Len(P) : P[o].n = P[p].n => o = p
  BY <1>1, <1>3, <1>4 DEF Ledger
<1>9. \A g, k \in Threads : H[g] = H[k] /\ H[g] # 0 => g = k
  BY <1>2 DEF Ledger
<1>10. ASSUME NEW o \in 1..Len(P), NEW g \in Threads PROVE P[o].n # H[g]
  <2>1. CASE o \in 1..Len(pub)
    <3>1. P[o].n = pub[o].n /\ pub[o].n # 0 /\ pub[o].n # hold[g]
      BY <2>1, <1>1 DEF Ledger
    <3> QED BY <3>1, <1>2
  <2>2. CASE o = Len(pub) + 1
    BY <2>2, <1>1, <1>2, <1>4 DEF Ledger
  <2> QED BY <2>1, <2>2, <1>3
<1>11. ASSUME NEW i \in 1..Len(log)
       PROVE log[i].durable <=> \/ \E o \in 1..Len(P) : P[o].n = i
                                \/ \E g \in Threads : H[g] = i
  <2>1. CASE i = hold[h]
    <3>1. Len(pub) + 1 \in 1..Len(P) /\ P[Len(pub) + 1].n = i
      BY <2>1, <1>1, <1>4
    <3> QED BY <2>1, <3>1 DEF Ledger
  <2>2. CASE i # hold[h]
    <3>1. (\E g \in Threads : H[g] = i) <=> (\E g \in Threads : hold[g] = i)
      BY <2>2, <1>2
    <3>2. (\E o \in 1..Len(P) : P[o].n = i) <=> (\E o \in 1..Len(pub) : pub[o].n = i)
      BY <2>2, <1>1, <1>3, <1>4
    <3> QED BY <3>1, <3>2 DEF Ledger
  <2> QED BY <2>1, <2>2
<1>12. Ledger(log, P, H)
  BY <1>1, <1>2, <1>6, <1>7, <1>8, <1>9, <1>10, <1>11 DEF Ledger
<1> QED BY <1>12 DEF P, H

-----------------------------------------------------------------------------
(***************************************************************************)
(* LedgerInv.                                                               *)
(***************************************************************************)
Statements(todo) ==
  /\ IsSeq(todo) /\ Len(todo) >= 1
  /\ \A i \in 1..Len(todo) : "table" \in DOMAIN todo[i] /\ todo[i].table \in Tables

CallGood(c) ==
  /\ DOMAIN call[c] = {"at", "todo", "key", "row", "n"}
  /\ call[c].at # "idle" => Statements(call[c].todo)
  /\ call[c].at = "publish" => call[c].n # 0

ConnGood(c) ==
  /\ DOMAIN conn[c] = {"at", "fd", "peer", "sub", "query", "left", "snap", "n"}
  /\ conn[c].at = "commit" => conn[c].n # 0

Shapes ==
  /\ walUp \in BOOLEAN
  /\ DOMAIN call = Callers /\ \A c \in Callers : CallGood(c)
  /\ DOMAIN conn = Conns /\ \A c \in Conns : ConnGood(c)

LedgerInv == Shapes /\ Ledger(commits, feed, Holds)

LedgerStep == Shapes' /\ (LedgerSame \/ LedgerCommits \/ LedgerLoses \/ LedgerPublishes)

\* Only the call of c moves, or only the connection c.
CallMoved(c) == DOMAIN call' = Callers /\ \A d \in Callers : d # c => call'[d] = call[d]
ConnMoved(c) == DOMAIN conn' = Conns /\ \A d \in Conns : d # c => conn'[d] = conn[d]

LEMMA CallMoves ==
  ASSUME Shapes, NEW c \in Callers, CallMoved(c), CallGood(c)', conn' = conn, walUp' \in BOOLEAN
  PROVE /\ Shapes' /\ <<"call", c>> \in Threads /\ Holds[<<"call", c>>] = CallHolds(c)
        /\ Holds' = [Holds EXCEPT ![<<"call", c>>] = CallHolds(c)']
<1>1. \A d \in Callers : CallGood(d)'
  BY DEF Shapes, CallMoved, CallGood
<1>2. \A d \in Conns : ConnGood(d)'
  BY DEF Shapes, ConnGood
<1>3. Shapes'
  BY <1>1, <1>2 DEF Shapes, CallMoved
<1>4. /\ \A d \in Callers : d # c => CallHolds(d)' = CallHolds(d)
      /\ \A d \in Conns : ConnHolds(d)' = ConnHolds(d)
  BY DEF CallMoved, CallHolds, ConnHolds
<1>5. <<"call", c>> \in Threads /\ Holds[<<"call", c>>] = CallHolds(c)
  BY DEF Threads, Holds
<1>6. ASSUME NEW h \in Threads
      PROVE Holds'[h] = IF h = <<"call", c>> THEN CallHolds(c)' ELSE Holds[h]
  <2>1. CASE h \in {"call"} \X Callers
    <3>1. PICK d \in Callers : h = <<"call", d>>
      BY <2>1
    <3>2. Holds'[h] = CallHolds(d)' /\ Holds[h] = CallHolds(d)
      BY <3>1 DEF Holds
    <3> QED BY <3>1, <3>2, <1>4
  <2>2. CASE h \in {"conn"} \X Conns
    <3>1. PICK d \in Conns : h = <<"conn", d>>
      BY <2>2
    <3>2. Holds'[h] = ConnHolds(d)' /\ Holds[h] = ConnHolds(d)
      BY <3>1 DEF Holds
    <3> QED BY <3>1, <3>2, <1>4
  <2> QED BY <2>1, <2>2 DEF Threads
<1>7. Holds' = [Holds EXCEPT ![<<"call", c>>] = CallHolds(c)']
  BY <1>6 DEF Holds
<1> QED BY <1>3, <1>5, <1>7

LEMMA ConnMoves ==
  ASSUME Shapes, NEW c \in Conns, ConnMoved(c), ConnGood(c)', call' = call, walUp' \in BOOLEAN
  PROVE /\ Shapes' /\ <<"conn", c>> \in Threads /\ Holds[<<"conn", c>>] = ConnHolds(c)
        /\ Holds' = [Holds EXCEPT ![<<"conn", c>>] = ConnHolds(c)']
<1>1. \A d \in Conns : ConnGood(d)'
  BY DEF Shapes, ConnMoved, ConnGood
<1>2. \A d \in Callers : CallGood(d)'
  BY DEF Shapes, CallGood
<1>3. Shapes'
  BY <1>1, <1>2 DEF Shapes, ConnMoved
<1>4. /\ \A d \in Conns : d # c => ConnHolds(d)' = ConnHolds(d)
      /\ \A d \in Callers : CallHolds(d)' = CallHolds(d)
  BY DEF ConnMoved, CallHolds, ConnHolds
<1>5. <<"conn", c>> \in Threads /\ Holds[<<"conn", c>>] = ConnHolds(c)
  BY DEF Threads, Holds
<1>6. ASSUME NEW h \in Threads
      PROVE Holds'[h] = IF h = <<"conn", c>> THEN ConnHolds(c)' ELSE Holds[h]
  <2>1. CASE h \in {"call"} \X Callers
    <3>1. PICK d \in Callers : h = <<"call", d>>
      BY <2>1
    <3>2. Holds'[h] = CallHolds(d)' /\ Holds[h] = CallHolds(d)
      BY <3>1 DEF Holds
    <3> QED BY <3>1, <3>2, <1>4
  <2>2. CASE h \in {"conn"} \X Conns
    <3>1. PICK d \in Conns : h = <<"conn", d>>
      BY <2>2
    <3>2. Holds'[h] = ConnHolds(d)' /\ Holds[h] = ConnHolds(d)
      BY <3>1 DEF Holds
    <3> QED BY <3>1, <3>2, <1>4
  <2> QED BY <2>1, <2>2 DEF Threads
<1>7. Holds' = [Holds EXCEPT ![<<"conn", c>>] = ConnHolds(c)']
  BY <1>6 DEF Holds
<1> QED BY <1>3, <1>5, <1>7

LEMMA HoldsKept == ASSUME NEW h \in Threads, Holds' = [Holds EXCEPT ![h] = Holds[h]] PROVE Holds' = Holds
  BY DEF Holds

LEMMA CallKeeps ==
  ASSUME Shapes, NEW c \in Callers, CallMoved(c), CallGood(c)', walUp' \in BOOLEAN,
         CallHolds(c)' = CallHolds(c), UNCHANGED <<commits, feed, conn>>
  PROVE LedgerStep
<1>1. /\ Shapes' /\ <<"call", c>> \in Threads
      /\ Holds' = [Holds EXCEPT ![<<"call", c>>] = Holds[<<"call", c>>]]
  BY CallMoves
<1>2. Holds' = Holds
  BY <1>1, HoldsKept
<1> QED BY <1>1, <1>2 DEF LedgerStep, LedgerSame

LEMMA ConnKeeps ==
  ASSUME Shapes, NEW c \in Conns, ConnMoved(c), ConnGood(c)', 
         ConnHolds(c)' = ConnHolds(c), UNCHANGED <<walUp, commits, feed, call>>
  PROVE LedgerStep
<1>0. walUp' \in BOOLEAN
  BY DEF Shapes
<1>1. /\ Shapes' /\ <<"conn", c>> \in Threads
      /\ Holds' = [Holds EXCEPT ![<<"conn", c>>] = Holds[<<"conn", c>>]]
  BY <1>0, ConnMoves
<1>2. Holds' = Holds
  BY <1>1, HoldsKept
<1> QED BY <1>1, <1>2 DEF LedgerStep, LedgerSame

\* The end of a statement holds nothing.
LEMMA DoneMoves ==
  ASSUME Shapes, NEW c \in Callers, NEW good, call[c].at # "idle", Done(c, good)
  PROVE CallMoved(c) /\ CallGood(c)' /\ CallHolds(c)' = 0
<1>1. DOMAIN call = Callers /\ Statements(call[c].todo)
  BY DEF Shapes, CallGood
<1>2. CallMoved(c)
  BY <1>1 DEF Done, CallMoved
<1>3. CASE good /\ Len(call[c].todo) > 1
  <2>1. call'[c] = [Idle EXCEPT !.at = "next", !.todo = Tail(call[c].todo)]
    BY <1>1, <1>3 DEF Done
  <2>2. Statements(Tail(call[c].todo))
    BY <1>1, <1>3, TailIsSeq DEF Statements
  <2>3. call'[c].at = "next" /\ call'[c].todo = Tail(call[c].todo)
        /\ DOMAIN call'[c] = {"at", "todo", "key", "row", "n"}
    BY <2>1 DEF Idle
  <2> QED BY <1>2, <2>2, <2>3 DEF CallGood, CallHolds
<1>4. CASE ~(good /\ Len(call[c].todo) > 1)
  <2>1. call'[c] = Idle
    BY <1>1, <1>4 DEF Done
  <2>3. call'[c].at = "idle" /\ DOMAIN call'[c] = {"at", "todo", "key", "row", "n"}
    BY <2>1 DEF Idle
  <2> QED BY <1>2, <2>3 DEF CallGood, CallHolds
<1> QED BY <1>3, <1>4

LEMMA ParseTable == ASSUME NEW s, "table" \in DOMAIN s PROVE Parse(s).table = s.table
  BY DEF Parse

LEMMA CurrentTable ==
  ASSUME Shapes, NEW c \in Callers, call[c].at # "idle"
  PROVE Current(c).table \in Tables
<1>1. PICK todo : todo = call[c].todo
  OBVIOUS
<1>2. IsSeq(todo) /\ Len(todo) >= 1 /\ "table" \in DOMAIN todo[1] /\ todo[1].table \in Tables
  BY <1>1 DEF Shapes, CallGood, Statements, IsSeq
<1>3. Head(todo) = todo[1]
  BY <1>2, IsSeqInSeq
<1> QED BY <1>1, <1>2, <1>3, ParseTable DEF Current

\* The entry of a commit, durable or not as the log is up.
LEMMA AppliedEntry ==
  ASSUME NEW op, NEW t \in Tables, NEW k, NEW new, Applied(op, t, k, new)
  PROVE \E e : CommitEntry(e) /\ e.durable = walUp /\ commits' = Append(commits, e)
<1> DEFINE e == [op |-> op, table |-> t, key |-> k, new |-> new, old |-> rows[t][k],
                 durable |-> walUp, n |-> NextCommit]
<1>1. CommitEntry(e) /\ e.durable = walUp
  BY DEF CommitEntry
<1>2. commits' = Append(commits, e)
  BY DEF Applied
<1> QED BY <1>1, <1>2

LEMMA DurableStep ==
  ASSUME Shapes', NEW h \in Threads, Holds[h] = 0, Holds' = [Holds EXCEPT ![h] = NextCommit],
         NEW op, NEW t \in Tables, NEW k, NEW new, Applied(op, t, k, new),
         walUp = TRUE, UNCHANGED feed
  PROVE LedgerStep
<1>1. PICK e : CommitEntry(e) /\ e.durable = TRUE /\ commits' = Append(commits, e)
  BY AppliedEntry
<1> QED BY <1>1 DEF LedgerStep, LedgerCommits

LEMMA LossStep ==
  ASSUME Shapes', Holds' = Holds, UNCHANGED feed, walUp = FALSE,
         NEW op, NEW t \in Tables, NEW k, NEW new, Applied(op, t, k, new)
  PROVE LedgerStep
<1>1. PICK e : CommitEntry(e) /\ e.durable = FALSE /\ commits' = Append(commits, e)
  BY AppliedEntry
<1> QED BY <1>1 DEF LedgerStep, LedgerLoses

\* A caller that now waits for the log, or gives up.
LEMMA CallCommits ==
  ASSUME LedgerInv, NEW c \in Callers, CallMoved(c), CallGood(c)', UNCHANGED <<walUp, feed, conn>>,
         NEW op, NEW t \in Tables, NEW k, NEW new, Applied(op, t, k, new),
         CallHolds(c) = 0, CallHolds(c)' = IF walUp THEN NextCommit ELSE 0
  PROVE LedgerStep
<1>0. walUp' \in BOOLEAN /\ walUp \in BOOLEAN /\ Shapes
  BY DEF Shapes, LedgerInv
<1>1. /\ Shapes' /\ <<"call", c>> \in Threads /\ Holds[<<"call", c>>] = CallHolds(c)
      /\ Holds' = [Holds EXCEPT ![<<"call", c>>] = CallHolds(c)']
  BY <1>0, CallMoves
<1>2. CASE walUp = TRUE
  <2>1. Holds' = [Holds EXCEPT ![<<"call", c>>] = NextCommit]
    BY <1>1, <1>2
  <2> QED BY <1>1, <1>2, <2>1, DurableStep
<1>3. CASE walUp = FALSE
  <2>1. Holds' = [Holds EXCEPT ![<<"call", c>>] = Holds[<<"call", c>>]]
    BY <1>1, <1>3
  <2>2. Holds' = Holds
    BY <1>1, <2>1, HoldsKept
  <2> QED BY <1>1, <1>3, <2>2, LossStep
<1> QED BY <1>0, <1>2, <1>3

LEMMA NextCommitNat == ASSUME LedgerInv PROVE NextCommit \in Nat /\ NextCommit # 0
  BY DEF LedgerInv, Ledger, IsSeq, NextCommit

LEMMA SqlLedger ==
  ASSUME LedgerInv, SqlNext, UNCHANGED conn
  PROVE LedgerStep
<1> USE DEF LedgerInv
<1>0. Shapes /\ DOMAIN call = Callers
  BY DEF Shapes
<1>1. CASE WalFails
  <2>1. Holds' = Holds /\ UNCHANGED <<commits, feed>> /\ walUp' \in BOOLEAN /\ UNCHANGED <<call, conn>>
    BY <1>1 DEF WalFails, Holds, CallHolds, ConnHolds
  <2>2. Shapes'
    BY <2>1, <1>0 DEF Shapes, CallGood, ConnGood
  <2> QED BY <2>1, <2>2 DEF LedgerStep, LedgerSame
<1>2. ASSUME NEW c \in Callers, NEW b \in Batches, Execute(c, b) PROVE LedgerStep
  <2>1. CallMoved(c) /\ call'[c] = [Idle EXCEPT !.at = "next", !.todo = b]
    BY <1>0, <1>2 DEF Execute, CallMoved
  <2>2. call'[c].at = "next" /\ call'[c].todo = b
        /\ DOMAIN call'[c] = {"at", "todo", "key", "row", "n"}
    BY <2>1 DEF Idle
  <2>3. Statements(b)
    BY SqlConstants DEF Statements, IsSeq
  <2>4. CallGood(c)' /\ CallHolds(c)' = 0 /\ CallHolds(c) = 0
    BY <1>2, <2>2, <2>3 DEF CallGood, CallHolds, Execute
  <2>5. UNCHANGED <<commits, feed, conn, walUp>> /\ walUp' \in BOOLEAN
    BY <1>2, <1>0 DEF Execute, Shapes
  <2> QED BY <1>0, <2>1, <2>4, <2>5, CallKeeps
<1>3. ASSUME NEW c \in Callers, NEW good, Done(c, good), UNCHANGED <<commits, feed, walUp>>,
             call[c].at \in {"next", "update"}
      PROVE LedgerStep
  <2>1. CallMoved(c) /\ CallGood(c)' /\ CallHolds(c)' = 0
    BY <1>0, <1>3, DoneMoves
  <2>2. CallHolds(c) = 0 /\ walUp' \in BOOLEAN
    BY <1>0, <1>3 DEF CallHolds, Shapes
  <2> QED BY <1>0, <1>3, <2>1, <2>2, CallKeeps
<1>4. ASSUME NEW c \in Callers, ExecuteRefused(c) \/ ExecuteSelect(c) \/ ExecuteCreateTable(c)
      PROVE LedgerStep
  <2>1. /\ call[c].at = "next" /\ UNCHANGED <<commits, feed, walUp>> /\ \E good : Done(c, good)
    BY <1>4 DEF ExecuteRefused, ExecuteSelect, ExecuteCreateTable, Waiting
  <2> QED BY <2>1, <1>3
<1>5. ASSUME NEW c \in Callers, ExecuteInsert(c) PROVE LedgerStep
  <2> DEFINE s == Current(c)
  <2>0. call[c].at = "next" /\ UNCHANGED <<feed, walUp>> /\ s.table \in Tables
    BY <1>0, <1>5, CurrentTable DEF ExecuteInsert, Waiting
  <2>1. CASE rows[s.table] = NoTable
    <3>1. Done(c, FALSE) /\ UNCHANGED commits
      BY <1>5, <2>1 DEF ExecuteInsert
    <3> QED BY <2>0, <3>1, <1>3
  <2>2. CASE rows[s.table] # NoTable
    <3>1. /\ Applied("INSERT", s.table, s.key, s.set)
          /\ call' = [call EXCEPT ![c].at = IF walUp THEN "publish" ELSE "convert",
                                  ![c].key = s.key, ![c].row = s.set, ![c].n = NextCommit]
      BY <1>5, <2>2 DEF ExecuteInsert
    <3> HIDE DEF s
    <3>2. /\ CallMoved(c) /\ call'[c].n = NextCommit /\ call'[c].todo = call[c].todo
          /\ call'[c].at = IF walUp THEN "publish" ELSE "convert"
          /\ DOMAIN call'[c] = {"at", "todo", "key", "row", "n"}
      BY <1>0, <3>1 DEF CallMoved, Shapes, CallGood
    <3>3. CallGood(c)' /\ CallHolds(c) = 0 /\ CallHolds(c)' = IF walUp THEN NextCommit ELSE 0
      BY <1>0, <2>0, <3>2, NextCommitNat DEF CallGood, CallHolds, Shapes
    <3> QED BY <2>0, <3>1, <3>2, <3>3, CallCommits
  <2> QED BY <2>1, <2>2
<1>6. ASSUME NEW c \in Callers, ExecuteUpdate(c) PROVE LedgerStep
  <2> DEFINE s == Current(c)
             found == rows[s.table] # NoTable /\ s.where /\ rows[s.table][s.key] # NoRow
  <2>0. call[c].at = "next" /\ UNCHANGED <<feed, walUp, commits>>
    BY <1>6 DEF ExecuteUpdate, Waiting
  <2>1. CASE ~found
    <3>1. Done(c, FALSE)
      BY <1>6, <2>1 DEF ExecuteUpdate
    <3> QED BY <2>0, <3>1, <1>3
  <2>2. CASE found
    <3>1. call' = [call EXCEPT ![c].at = "update", ![c].key = s.key,
                               ![c].row = Merged(rows[s.table][s.key], s.set)]
      BY <1>6, <2>2 DEF ExecuteUpdate
    <3> HIDE DEF s, found
    <3>2. /\ CallMoved(c) /\ call'[c].at = "update" /\ call'[c].todo = call[c].todo
          /\ DOMAIN call'[c] = {"at", "todo", "key", "row", "n"}
      BY <1>0, <3>1 DEF CallMoved, Shapes, CallGood
    <3>3. CallGood(c)' /\ CallHolds(c)' = CallHolds(c) /\ walUp' \in BOOLEAN
      BY <1>0, <2>0, <3>2 DEF CallGood, CallHolds, Shapes
    <3> QED BY <1>0, <2>0, <3>2, <3>3, CallKeeps
  <2> QED BY <2>1, <2>2
<1>7. ASSUME NEW c \in Callers, ConvertToUpdate(c) PROVE LedgerStep
  <2>1. PICK r : call' = [call EXCEPT ![c].at = "update", ![c].row = r]
    BY <1>7 DEF ConvertToUpdate
  <2>2. /\ CallMoved(c) /\ call'[c].at = "update" /\ call'[c].todo = call[c].todo
        /\ DOMAIN call'[c] = {"at", "todo", "key", "row", "n"}
    BY <1>0, <2>1 DEF CallMoved, Shapes, CallGood
  <2>3. call[c].at = "convert" /\ UNCHANGED <<feed, walUp, commits>>
    BY <1>7 DEF ConvertToUpdate
  <2>4. CallGood(c)' /\ CallHolds(c)' = CallHolds(c) /\ walUp' \in BOOLEAN
    BY <1>0, <2>2, <2>3 DEF CallGood, CallHolds, Shapes
  <2> QED BY <1>0, <2>2, <2>3, <2>4, CallKeeps
<1>8. ASSUME NEW c \in Callers, StorageUpdate(c) PROVE LedgerStep
  <2> DEFINE t == Current(c).table
             k == call[c].key
  <2>0. call[c].at = "update" /\ UNCHANGED <<feed, walUp>> /\ t \in Tables
    BY <1>0, <1>8, CurrentTable DEF StorageUpdate
  <2>1. CASE rows[t][k] = NoRow
    <3>1. Done(c, FALSE) /\ UNCHANGED commits
      BY <1>8, <2>1 DEF StorageUpdate
    <3> QED BY <2>0, <3>1, <1>3
  <2>2. CASE rows[t][k] # NoRow
    <3>1. /\ Applied("UPDATE", t, k, call[c].row)
          /\ IF walUp THEN call' = [call EXCEPT ![c].at = "publish", ![c].n = NextCommit]
                      ELSE Done(c, FALSE)
      BY <1>8, <2>2 DEF StorageUpdate
    <3> HIDE DEF t, k
    <3>2. CASE walUp
      <4>1. /\ CallMoved(c) /\ call'[c].n = NextCommit /\ call'[c].todo = call[c].todo
            /\ call'[c].at = "publish"
            /\ DOMAIN call'[c] = {"at", "todo", "key", "row", "n"}
        BY <1>0, <3>1, <3>2 DEF CallMoved, Shapes, CallGood
      <4>2. CallGood(c)' /\ CallHolds(c) = 0 /\ CallHolds(c)' = NextCommit
        BY <1>0, <2>0, <4>1, NextCommitNat DEF CallGood, CallHolds, Shapes
      <4> QED BY <2>0, <3>1, <3>2, <4>1, <4>2, CallCommits
    <3>3. CASE ~walUp
      <4>1. CallMoved(c) /\ CallGood(c)' /\ CallHolds(c)' = 0 /\ CallHolds(c) = 0
        BY <1>0, <2>0, <3>1, <3>3, DoneMoves DEF CallHolds
      <4> QED BY <2>0, <3>1, <3>3, <4>1, CallCommits
    <3> QED BY <3>2, <3>3
  <2> QED BY <2>1, <2>2
<1>9. ASSUME NEW c \in Callers, Publish(c) PROVE LedgerStep
  <2>0. /\ call[c].at = "publish" /\ Done(c, TRUE) /\ UNCHANGED <<walUp, commits>>
        /\ feed' = Append(feed, commits[call[c].n])
    BY <1>9 DEF Publish
  <2>1. CallMoved(c) /\ CallGood(c)' /\ CallHolds(c)' = 0
    BY <1>0, <2>0, DoneMoves
  <2>2. CallHolds(c) = call[c].n /\ CallHolds(c) # 0 /\ walUp' \in BOOLEAN
    BY <1>0, <2>0 DEF CallHolds, Shapes, CallGood
  <2>3. /\ Shapes' /\ <<"call", c>> \in Threads /\ Holds[<<"call", c>>] = CallHolds(c)
        /\ Holds' = [Holds EXCEPT ![<<"call", c>>] = 0]
    BY <1>0, <2>1, <2>2, CallMoves
  <2> QED BY <2>0, <2>2, <2>3 DEF LedgerStep, LedgerPublishes
<1> QED BY <1>1, <1>2, <1>4, <1>5, <1>6, <1>7, <1>8, <1>9 DEF SqlNext

-----------------------------------------------------------------------------
(***************************************************************************)
(* What each action of a connection's thread makes of its record.           *)
(***************************************************************************)
ConnTo(c, at, fd, peer, sub, query, n) ==
  /\ ConnMoved(c)
  /\ DOMAIN conn'[c] = {"at", "fd", "peer", "sub", "query", "left", "snap", "n"}
  /\ conn'[c].at = at /\ conn'[c].fd = fd /\ conn'[c].peer = peer
  /\ conn'[c].sub = sub /\ conn'[c].query = query /\ conn'[c].n = n

GoesTo(c, at) == ConnTo(c, at, conn[c].fd, conn[c].peer, conn[c].sub, conn[c].query, conn[c].n)

LEMMA StepTo == ASSUME Shapes, NEW c \in Conns, NEW at, Step(c, at) PROVE GoesTo(c, at)
  BY DEF Shapes, ConnGood, Step, GoesTo, ConnTo, ConnMoved

LEMMA AcceptTo ==
  ASSUME Shapes, NEW c \in Conns, NEW f, Accept(c, f)
  PROVE ConnTo(c, "accepted", f, conn[c].peer, conn[c].sub, conn[c].query, conn[c].n)
  BY DEF Shapes, ConnGood, Accept, ConnTo, ConnMoved

LEMMA PeerGoneTo ==
  ASSUME Shapes, NEW c \in Conns, PeerGone(c)
  PROVE ConnTo(c, conn[c].at, conn[c].fd, "gone", conn[c].sub, conn[c].query, conn[c].n)
  BY DEF Shapes, ConnGood, PeerGone, ConnTo, ConnMoved

LEMMA SubscriptionTo ==
  ASSUME Shapes, NEW c \in Conns, NEW q, SubscriptionRequest(c, q), Subs!Parses(q)
  PROVE ConnTo(c, "created", conn[c].fd, conn[c].peer, next_subscription_id, q, conn[c].n)
<1>1. conn' = [conn EXCEPT ![c].at = "created", ![c].sub = next_subscription_id, ![c].query = q]
  BY DEF SubscriptionRequest
<1> QED BY <1>1 DEF Shapes, ConnGood, ConnTo, ConnMoved

LEMMA CreatedTo == ASSUME Shapes, NEW c \in Conns, SendCreated(c) PROVE GoesTo(c, "snapshot")
<1>1. PICK l : conn' = [conn EXCEPT ![c].at = "snapshot", ![c].left = l]
  BY DEF SendCreated
<1> QED BY <1>1 DEF Shapes, ConnGood, GoesTo, ConnTo, ConnMoved

LEMMA ReadTo == ASSUME Shapes, NEW c \in Conns, NEW t, ReadTable(c, t) PROVE GoesTo(c, "snapshot")
<1>1. conn[c].at = "snapshot" /\ \E l, s : conn' = [conn EXCEPT ![c].left = l, ![c].snap = s]
  BY DEF ReadTable, At
<1>2. PICK l, s : conn' = [conn EXCEPT ![c].left = l, ![c].snap = s]
  BY <1>1
<1> QED BY <1>1, <1>2 DEF Shapes, ConnGood, GoesTo, ConnTo, ConnMoved

LEMMA InitialTo ==
  ASSUME Shapes, NEW c \in Conns, SendInitialState(c)
  PROVE ConnTo(c, "loop", conn[c].fd, conn[c].peer, 0, Nobody, conn[c].n)
<1>1. PICK r : r = conn[c]
  OBVIOUS
<1>2. conn' = [conn EXCEPT ![c] = [r EXCEPT !.at = "loop", !.snap = <<>>, !.sub = 0,
                                            !.query = Nobody]]
  BY <1>1 DEF SendInitialState
<1>3. DOMAIN r = {"at", "fd", "peer", "sub", "query", "left", "snap", "n"} /\ DOMAIN conn = Conns
  BY <1>1 DEF Shapes, ConnGood
<1> QED BY <1>1, <1>2, <1>3 DEF ConnTo, ConnMoved

LEMMA ReducerTo ==
  ASSUME Shapes, NEW c \in Conns, NEW w, CallReducer(c, w), walUp
  PROVE ConnTo(c, "commit", conn[c].fd, conn[c].peer, conn[c].sub, conn[c].query, NextCommit)
<1>1. conn' = [conn EXCEPT ![c].at = "commit", ![c].n = NextCommit]
  BY DEF CallReducer
<1> QED BY <1>1 DEF Shapes, ConnGood, ConnTo, ConnMoved

LEMMA ReductionTo ==
  ASSUME Shapes, NEW c \in Conns, PublishReduction(c)
  PROVE ConnTo(c, "loop", conn[c].fd, conn[c].peer, conn[c].sub, conn[c].query, 0)
  BY DEF PublishReduction, Shapes, ConnGood, ConnTo, ConnMoved

-----------------------------------------------------------------------------
LEMMA KeepsLedger ==
  ASSUME Shapes, NEW c \in Conns, NEW at, NEW fd, NEW peer, NEW sub, NEW query, NEW n,
         ConnTo(c, at, fd, peer, sub, query, n), UNCHANGED <<walUp, commits, feed, call>>,
         IF conn[c].at = "commit" THEN at = "commit" /\ n = conn[c].n ELSE at # "commit"
  PROVE LedgerStep
<1>1. ConnMoved(c) /\ ConnGood(c)' /\ ConnHolds(c)' = ConnHolds(c)
  BY DEF ConnTo, ConnGood, ConnHolds, Shapes
<1> QED BY <1>1, ConnKeeps

LEMMA NothingMoves ==
  ASSUME Shapes, UNCHANGED <<walUp, commits, feed, call, conn>>
  PROVE LedgerStep
<1>1. Holds' = Holds
  BY DEF Holds, CallHolds, ConnHolds
<1>2. Shapes'
  BY DEF Shapes, CallGood, ConnGood
<1> QED BY <1>1, <1>2 DEF LedgerStep, LedgerSame

LEMMA ReducerLedger ==
  ASSUME LedgerInv, NEW c \in Conns, NEW w \in Reductions, CallReducer(c, w)
  PROVE LedgerStep
<1>0. /\ Shapes /\ conn[c].at = "loop" /\ UNCHANGED <<feed, walUp, call>>
      /\ w.table \in Tables /\ walUp' \in BOOLEAN /\ walUp \in BOOLEAN
  BY SessionConstants DEF LedgerInv, Shapes, CallReducer, Asks, At
<1>1. PICK op : Applied(op, w.table, w.key, w.row)
  BY DEF CallReducer
<1>2. CASE walUp = TRUE
  <2>1. ConnTo(c, "commit", conn[c].fd, conn[c].peer, conn[c].sub, conn[c].query, NextCommit)
    BY <1>0, <1>2, ReducerTo
  <2>2. ConnMoved(c) /\ ConnGood(c)' /\ ConnHolds(c) = 0 /\ ConnHolds(c)' = NextCommit
    BY <1>0, <2>1, NextCommitNat DEF ConnTo, ConnGood, ConnHolds
  <2>3. /\ Shapes' /\ <<"conn", c>> \in Threads /\ Holds[<<"conn", c>>] = 0
        /\ Holds' = [Holds EXCEPT ![<<"conn", c>>] = NextCommit]
    BY <1>0, <2>2, ConnMoves
  <2> QED BY <1>0, <1>1, <1>2, <2>3, DurableStep
<1>3. CASE walUp = FALSE
  <2>1. conn' = conn
    BY <1>3 DEF CallReducer
  <2>2. Holds' = Holds
    BY <1>0, <2>1 DEF Holds, CallHolds, ConnHolds
  <2>3. Shapes'
    BY <1>0, <2>1 DEF Shapes, CallGood, ConnGood
  <2> QED BY <1>0, <1>1, <1>3, <2>2, <2>3, LossStep
<1> QED BY <1>0, <1>2, <1>3

LEMMA ConnLedger ==
  ASSUME LedgerInv, NEW c \in Conns,
         \/ \E f \in Fds : Accept(c, f)
         \/ Refuse(c) \/ PeerGone(c) \/ Handler(c) \/ Request(c)
  PROVE LedgerStep
<1>0. Shapes
  BY DEF LedgerInv
<1>1. ASSUME NEW f \in Fds, Accept(c, f) PROVE LedgerStep
  <2>1. conn[c].at = "none" /\ UNCHANGED <<walUp, commits, feed, call>>
    BY <1>1 DEF Accept, At, sqlVars
  <2> QED BY <1>0, <1>1, <2>1, AcceptTo, KeepsLedger
<1>2. ASSUME NEW at, Step(c, at), at # "commit", conn[c].at # "commit",
             UNCHANGED <<walUp, commits, feed, call>>
      PROVE LedgerStep
  BY <1>0, <1>2, StepTo, KeepsLedger DEF GoesTo
<1>3. CASE Refuse(c) \/ Register(c) \/ Leave(c) \/ DropSubscriptions(c) \/ CloseSocket(c)
  <2>1. \E at : /\ Step(c, at) /\ at # "commit" /\ conn[c].at # "commit"
                /\ UNCHANGED <<walUp, commits, feed, call>>
    BY <1>3 DEF Refuse, Register, Leave, DropSubscriptions, CloseSocket, At, sqlVars
  <2> QED BY <2>1, <1>2
<1>4. CASE PeerGone(c)
  <2>1. UNCHANGED <<walUp, commits, feed, call>>
    BY <1>4 DEF PeerGone, sqlVars
  <2> QED BY <1>0, <1>4, <2>1, PeerGoneTo, KeepsLedger
<1>5. CASE SendCreated(c)
  <2>1. conn[c].at = "created" /\ UNCHANGED <<walUp, commits, feed, call>>
    BY <1>5 DEF SendCreated, At, sqlVars
  <2> QED BY <1>0, <1>5, <2>1, CreatedTo, KeepsLedger DEF GoesTo
<1>6. ASSUME NEW t \in Tables, ReadTable(c, t) PROVE LedgerStep
  <2>1. conn[c].at = "snapshot" /\ UNCHANGED <<walUp, commits, feed, call>>
    BY <1>6 DEF ReadTable, At, sqlVars
  <2> QED BY <1>0, <1>6, <2>1, ReadTo, KeepsLedger DEF GoesTo
<1>7. CASE SendInitialState(c)
  <2>1. conn[c].at = "snapshot" /\ UNCHANGED <<walUp, commits, feed, call>>
    BY <1>7 DEF SendInitialState, At, sqlVars
  <2> QED BY <1>0, <1>7, <2>1, InitialTo, KeepsLedger
<1>8. CASE PublishReduction(c)
  <2>0. /\ conn[c].at = "commit" /\ UNCHANGED <<walUp, commits, call>>
        /\ feed' = Append(feed, commits[conn[c].n])
    BY <1>8 DEF PublishReduction, At
  <2>1. ConnMoved(c) /\ ConnGood(c)' /\ ConnHolds(c)' = 0
    BY <1>0, <1>8, ReductionTo DEF ConnTo, ConnGood, ConnHolds
  <2>2. ConnHolds(c) = conn[c].n /\ ConnHolds(c) # 0 /\ walUp' \in BOOLEAN
    BY <1>0, <2>0 DEF ConnHolds, Shapes, ConnGood
  <2>3. /\ Shapes' /\ <<"conn", c>> \in Threads /\ Holds[<<"conn", c>>] = ConnHolds(c)
        /\ Holds' = [Holds EXCEPT ![<<"conn", c>>] = 0]
    BY <1>0, <2>0, <2>1, <2>2, ConnMoves
  <2> QED BY <2>0, <2>2, <2>3 DEF LedgerStep, LedgerPublishes
<1>9. CASE OtherMessage(c) \/ \E i \in 1..MaxSubs : UnsubscribeRequest(c, i)
  <2>1. UNCHANGED <<walUp, commits, feed, call, conn>>
    BY <1>9 DEF OtherMessage, UnsubscribeRequest, sqlVars
  <2> QED BY <1>0, <2>1, NothingMoves
<1>10. ASSUME NEW q \in Queries, SubscriptionRequest(c, q) PROVE LedgerStep
  <2>1. conn[c].at = "loop" /\ UNCHANGED <<walUp, commits, feed, call>>
    BY <1>10 DEF SubscriptionRequest, Asks, At, sqlVars
  <2>2. CASE Subs!Parses(q)
    BY <1>0, <1>10, <2>1, <2>2, SubscriptionTo, KeepsLedger
  <2>3. CASE ~Subs!Parses(q)
    <3>1. conn' = conn
      BY <1>10, <2>3 DEF SubscriptionRequest
    <3> QED BY <1>0, <2>1, <3>1, NothingMoves
  <2> QED BY <2>2, <2>3
<1> QED BY <1>1, <1>3, <1>4, <1>5, <1>6, <1>7, <1>8, <1>9, <1>10, ReducerLedger DEF Handler, Request

LEMMA LedgerStart == ASSUME Init PROVE LedgerInv
<1>1. call = [c \in Callers |-> Idle] /\ conn = [c \in Conns |-> NoConn] /\ walUp \in BOOLEAN
  BY DEF Init, SqlInit
<1>2. Shapes
  BY <1>1 DEF Shapes, CallGood, ConnGood, Idle, NoConn
<1>3. Holds = [h \in Threads |-> 0]
  BY <1>1 DEF Holds, CallHolds, ConnHolds, Idle, NoConn, Threads
<1>4. Ledger(commits, feed, Holds)
  BY <1>3, LedgerEmpty DEF Init, SqlInit
<1> QED BY <1>2, <1>4 DEF LedgerInv

LEMMA NextLedger == ASSUME LedgerInv, [Next]_vars PROVE LedgerStep
<1>0. Shapes
  BY DEF LedgerInv
<1>1. CASE UNCHANGED vars
  <2>1. UNCHANGED <<walUp, commits, feed, call, conn>>
    BY <1>1 DEF vars, sqlVars, connVars
  <2> QED BY <1>0, <2>1, NothingMoves
<1>2. CASE SqlNext /\ UNCHANGED <<subVars, connVars>>
  BY <1>2, SqlLedger DEF connVars
<1>3. CASE Notify
  <2>1. UNCHANGED <<walUp, commits, feed, call, conn>>
    BY <1>3 DEF Notify, TakeEvent, SendEvent, FindSocket, sqlVars
  <2> QED BY <1>0, <2>1, NothingMoves
<1> QED BY <1>1, <1>2, <1>3, ConnLedger DEF Next

LEMMA LedgerInvStep == ASSUME LedgerInv, LedgerStep PROVE LedgerInv'
<1>0. Shapes' /\ Ledger(commits, feed, Holds)
  BY DEF LedgerInv, LedgerStep
<1>1. CASE LedgerSame
  BY <1>0, <1>1 DEF LedgerSame, LedgerInv
<1>2. CASE LedgerCommits
  <2>1. PICK e : \E h \in Threads :
           /\ CommitEntry(e) /\ e.durable = TRUE /\ commits' = Append(commits, e)
           /\ Holds[h] = 0 /\ Holds' = [Holds EXCEPT ![h] = NextCommit]
    BY <1>2 DEF LedgerCommits
  <2>2. PICK h \in Threads :
           /\ CommitEntry(e) /\ e.durable = TRUE /\ commits' = Append(commits, e)
           /\ Holds[h] = 0 /\ Holds' = [Holds EXCEPT ![h] = NextCommit]
    BY <2>1
  <2>3. Ledger(Append(commits, e), feed, [Holds EXCEPT ![h] = Len(commits) + 1])
    BY <1>0, <2>2, LedgerCommit DEF CommitEntry, NextCommit
  <2> QED BY <1>0, <1>2, <2>2, <2>3 DEF LedgerInv, LedgerCommits, NextCommit
<1>3. CASE LedgerLoses
  <2>1. PICK e : CommitEntry(e) /\ e.durable = FALSE /\ commits' = Append(commits, e)
    BY <1>3 DEF LedgerLoses
  <2>2. Ledger(Append(commits, e), feed, Holds)
    BY <1>0, <2>1, LedgerLoss DEF CommitEntry, NextCommit
  <2> QED BY <1>0, <1>3, <2>1, <2>2 DEF LedgerInv, LedgerLoses
<1>4. CASE LedgerPublishes
  <2>1. PICK h \in Threads : /\ Holds[h] # 0 /\ feed' = Append(feed, commits[Holds[h]])
                             /\ Holds' = [Holds EXCEPT ![h] = 0]
    BY <1>4 DEF LedgerPublishes
  <2>2. Ledger(commits, Append(feed, commits[Holds[h]]), [Holds EXCEPT ![h] = 0])
    BY <1>0, <2>1, LedgerPublish
  <2> QED BY <1>0, <1>4, <2>1, <2>2 DEF LedgerInv, LedgerPublishes
<1> QED BY <1>1, <1>2, <1>3, <1>4 DEF LedgerStep

\* Once in the feed, held once, or neither.
LEMMA LedgerCounts == ASSUME LedgerInv PROVE OneEventPerCommit
<1> SUFFICES ASSUME NEW n \in 1..Len(commits)
             PROVE Cardinality({o \in 1..Len(feed) : feed[o].n = n}) + Cardinality(Holders(n))
                     = IF commits[n].durable THEN 1 ELSE 0
  BY DEF OneEventPerCommit
<1> DEFINE P == {o \in 1..Len(feed) : feed[o].n = n}
<1>0. Ledger(commits, feed, Holds) /\ n # 0
  BY DEF LedgerInv, Ledger, IsSeq
<1>1. /\ \A o, p \in P : o = p
      /\ \A o \in P, h \in Threads : Holds[h] # n
      /\ \A h, g \in Threads : Holds[h] = n /\ Holds[g] = n => h = g
      /\ commits[n].durable <=> P # {} \/ \E h \in Threads : Holds[h] = n
  <2>1. \A o, p \in P : o = p
    BY <1>0 DEF Ledger
  <2>2. \A o \in P, h \in Threads : Holds[h] # n
    BY <1>0 DEF Ledger
  <2>3. ASSUME NEW h \in Threads, NEW g \in Threads, Holds[h] = n, Holds[g] = n PROVE h = g
    <3>1. Holds[h] = Holds[g] /\ Holds[h] # 0
      BY <1>0, <2>3
    <3> QED BY <1>0, <3>1 DEF Ledger
  <2>4. commits[n].durable <=> (\E o \in 1..Len(feed) : feed[o].n = n)
                               \/ \E h \in Threads : Holds[h] = n
    BY <1>0, Zenon DEF Ledger
  <2> QED BY <2>1, <2>2, <2>3, <2>4
<1>2. ASSUME NEW h \in Threads, Holds[h] = n PROVE h[2] \in Holders(n)
  BY <1>0, <1>2 DEF Threads, Holds, CallHolds, ConnHolds, Holders
<1>3. ASSUME NEW x \in Holders(n) PROVE \E h \in Threads : Holds[h] = n /\ x = h[2]
  <2>1. CASE x \in {c \in Callers : call[c].at = "publish" /\ call[c].n = n}
    <3>1. <<"call", x>> \in Threads /\ Holds[<<"call", x>>] = n
      BY <2>1 DEF Threads, Holds, CallHolds
    <3> QED BY <3>1
  <2>2. CASE x \in {c \in Conns : conn[c].at = "commit" /\ conn[c].n = n}
    <3>1. <<"conn", x>> \in Threads /\ Holds[<<"conn", x>>] = n
      BY <2>2 DEF Threads, Holds, ConnHolds
    <3> QED BY <3>1
  <2> QED BY <1>3, <2>1, <2>2 DEF Holders
<1> HIDE DEF P
<1>4. CASE P # {}
  <2>0. PICK o \in P : TRUE
    BY <1>4
  <2>1. P = {o}
    BY <1>1, <2>0
  <2>2. Holders(n) = {}
    BY <1>1, <1>3, <1>4
  <2>3. Cardinality(P) = 1 /\ Cardinality(Holders(n)) = 0
    BY <2>1, <2>2, FS_EmptySet, FS_Singleton
  <2> QED BY <2>3, <1>1, <1>4 DEF P
<1>5. CASE P = {} /\ \E h \in Threads : Holds[h] = n
  <2>1. PICK h \in Threads : Holds[h] = n
    BY <1>5
  <2>2. Holders(n) = {h[2]}
    BY <2>1, <1>1, <1>2, <1>3
  <2>3. Cardinality(P) = 0 /\ Cardinality(Holders(n)) = 1
    BY <1>5, <2>2, FS_EmptySet, FS_Singleton
  <2> QED BY <2>3, <1>1, <1>5 DEF P
<1>6. CASE P = {} /\ ~\E h \in Threads : Holds[h] = n
  <2>1. Holders(n) = {}
    BY <1>3, <1>6
  <2>2. Cardinality(P) = 0 /\ Cardinality(Holders(n)) = 0
    BY <1>6, <2>1, FS_EmptySet
  <2> QED BY <2>2, <1>1, <1>6 DEF P
<1> QED BY <1>4, <1>5, <1>6

\* Every durable commit, of a gRPC caller or of a reducer, is published exactly
\* once, or is held by the one thread that is about to publish it; a commit the
\* log failed is never published.
THEOREM CommitsPublishedOnce == Spec => []OneEventPerCommit
<1>1. Init => LedgerInv
  BY LedgerStart
<1>2. LedgerInv /\ [Next]_vars => LedgerInv'
  BY NextLedger, LedgerInvStep
<1>3. LedgerInv => OneEventPerCommit
  BY LedgerCounts
<1> QED BY <1>1, <1>2, <1>3, PTL DEF Spec

-----------------------------------------------------------------------------
(***************************************************************************)
(* The subscription manager: its indexes are functions of subscriptions_.   *)
(***************************************************************************)
SubsGood ==
  \A i \in DOMAIN subscriptions :
    /\ i \in 1..MaxSubs /\ i < next_subscription_id
    /\ subscriptions[i].client \in Conns
    /\ Subs!IsCatchAll(subscriptions[i]) \/ subscriptions[i].query.table \in Tables

CatchAlls == {i \in DOMAIN subscriptions : Subs!IsCatchAll(subscriptions[i])}
OfTable(t) == {i \in DOMAIN subscriptions :
                 ~Subs!IsCatchAll(subscriptions[i]) /\ subscriptions[i].query.table = t}
OfClient(c) == {i \in DOMAIN subscriptions : subscriptions[i].client = c}

Maps ==
  /\ next_subscription_id \in Nat \ {0}
  /\ SubsGood
  /\ all_tables_index = CatchAlls
  /\ DOMAIN table_index = Tables /\ \A t \in Tables : table_index[t] = OfTable(t)
  /\ DOMAIN client_subscriptions = Conns
  /\ \A c \in Conns : client_subscriptions[c] = OfClient(c)

\* subscriptions_ loses the ids, or gains one.
Erased(ids) ==
  /\ DOMAIN subscriptions' = DOMAIN subscriptions \ ids
  /\ \A i \in DOMAIN subscriptions' : subscriptions'[i] = subscriptions[i]
Entered(id, client, query) ==
  /\ DOMAIN subscriptions' = DOMAIN subscriptions \union {id}
  /\ subscriptions'[id] = [client |-> client, query |-> query]
  /\ \A i \in DOMAIN subscriptions : i # id => subscriptions'[i] = subscriptions[i]

LEMMA MapsErase ==
  ASSUME Maps, NEW ids, ids \subseteq DOMAIN subscriptions,
         Subs!UnindexSubscriptions(ids), Subs!Erase(ids), UNCHANGED next_subscription_id,
         DOMAIN client_subscriptions' = Conns,
         \A c \in Conns : client_subscriptions'[c] = client_subscriptions[c] \ ids
  PROVE Maps' /\ Erased(ids)
<1>1. Erased(ids)
  BY DEF Subs!Erase, Erased
<1>2. SubsGood'
  BY <1>1 DEF Maps, SubsGood, Erased, Subs!IsCatchAll
<1>3. all_tables_index' = CatchAlls'
  BY <1>1 DEF Maps, CatchAlls, Erased, Subs!UnindexSubscriptions, Subs!IsCatchAll
<1>4. DOMAIN table_index' = Tables /\ \A t \in Tables : table_index'[t] = OfTable(t)'
  BY <1>1 DEF Maps, OfTable, Erased, Subs!UnindexSubscriptions, Subs!IsCatchAll
<1>5. \A c \in Conns : client_subscriptions'[c] = OfClient(c)'
  BY <1>1 DEF Maps, OfClient, Erased
<1> QED BY <1>1, <1>2, <1>3, <1>4, <1>5 DEF Maps

LEMMA MapsUnsubscribe ==
  ASSUME Maps, NEW id, Subs!Unsubscribe(id)
  PROVE Maps' /\ (Erased({id}) \/ Erased({}))
<1>1. CASE id \in DOMAIN subscriptions
  <2>1. /\ Subs!UnindexSubscriptions({id}) /\ Subs!Erase({id}) /\ UNCHANGED next_subscription_id
        /\ client_subscriptions' = [client_subscriptions EXCEPT ![subscriptions[id].client] = @ \ {id}]
    BY <1>1 DEF Subs!Unsubscribe
  <2>2. DOMAIN client_subscriptions' = Conns
    BY <2>1 DEF Maps
  <2>3. ASSUME NEW c \in Conns PROVE client_subscriptions'[c] = client_subscriptions[c] \ {id}
    <3>1. CASE c = subscriptions[id].client
      BY <2>1, <3>1 DEF Maps
    <3>2. CASE c # subscriptions[id].client
      <4>1. client_subscriptions'[c] = client_subscriptions[c]
        BY <2>1, <3>2 DEF Maps
      <4>2. id \notin client_subscriptions[c]
        BY <3>2 DEF Maps, OfClient
      <4> QED BY <4>1, <4>2
    <3> QED BY <3>1, <3>2
  <2> QED BY <1>1, <2>1, <2>2, <2>3, MapsErase
<1>2. CASE id \notin DOMAIN subscriptions
  <2>1. UNCHANGED <<subscriptions, client_subscriptions, table_index, all_tables_index,
                    next_subscription_id>>
    BY <1>2 DEF Subs!Unsubscribe
  <2> QED BY <2>1 DEF Maps, SubsGood, CatchAlls, OfTable, OfClient, Erased, Subs!IsCatchAll
<1> QED BY <1>1, <1>2

LEMMA MapsUnsubscribeAll ==
  ASSUME Maps, NEW c \in Conns, Subs!UnsubscribeAll(c)
  PROVE Maps' /\ Erased(OfClient(c))
<1> DEFINE ids == client_subscriptions[c] \intersect DOMAIN subscriptions
<1>1. ids = OfClient(c) /\ ids = client_subscriptions[c]
  BY DEF Maps, OfClient
<1>2. /\ Subs!UnindexSubscriptions(ids) /\ Subs!Erase(ids) /\ UNCHANGED next_subscription_id
      /\ client_subscriptions' = [client_subscriptions EXCEPT ![c] = {}]
  BY DEF Subs!UnsubscribeAll
<1>3. DOMAIN client_subscriptions' = Conns
  BY <1>2 DEF Maps
<1>4. ASSUME NEW d \in Conns PROVE client_subscriptions'[d] = client_subscriptions[d] \ ids
  <2>1. CASE d = c
    BY <1>1, <1>2, <2>1 DEF Maps
  <2>2. CASE d # c
    <3>1. client_subscriptions'[d] = client_subscriptions[d]
      BY <1>2, <2>2 DEF Maps
    <3>2. \A i \in ids : i \notin client_subscriptions[d]
      BY <1>1, <2>2 DEF Maps, OfClient
    <3> QED BY <3>1, <3>2
  <2> QED BY <2>1, <2>2
<1>5. ids \subseteq DOMAIN subscriptions
  OBVIOUS
<1> HIDE DEF ids
<1>6. Maps' /\ Erased(ids)
  BY <1>2, <1>3, <1>4, <1>5, MapsErase
<1> QED BY <1>1, <1>6

LEMMA MapsSubscribe ==
  ASSUME Maps, NEW c \in Conns, NEW q \in Queries, Subs!Subscribe(c, q)
  PROVE /\ Maps' /\ next_subscription_id \in 1..MaxSubs
        /\ next_subscription_id' = next_subscription_id + 1
        /\ IF Subs!Parses(q) THEN Entered(next_subscription_id, c, q) ELSE UNCHANGED subscriptions
<1> DEFINE id == next_subscription_id
           sub == [client |-> c, query |-> q]
<1>0. /\ id \in 1..MaxSubs /\ id \in Nat \ {0} /\ id' = id + 1 /\ id \notin DOMAIN subscriptions
      /\ sub.client = c /\ sub.query = q
  BY DEF Maps, SubsGood, Subs!Subscribe, Subs!SubIds
<1>1. CASE ~Subs!Parses(q)
  <2>1. UNCHANGED <<subscriptions, client_subscriptions, table_index, all_tables_index>>
    BY <1>1 DEF Subs!Subscribe
  <2>2. SubsGood'
    BY <1>0, <2>1 DEF Maps, SubsGood, Subs!IsCatchAll
  <2> QED BY <1>0, <1>1, <2>1, <2>2 DEF Maps, CatchAlls, OfTable, OfClient, Subs!IsCatchAll
<1>2. CASE Subs!Parses(q)
  <2>1. /\ Subs!IndexSubscription(id, sub)
        /\ subscriptions' = [i \in DOMAIN subscriptions \union {id} |->
                               IF i = id THEN sub ELSE subscriptions[i]]
        /\ client_subscriptions' = [client_subscriptions EXCEPT ![c] = @ \union {id}]
    BY <1>2 DEF Subs!Subscribe
  <2>2. Entered(id, c, q)
    BY <1>0, <2>1 DEF Entered
  <2>3. Subs!IsCatchAll(sub) \/ sub.query.table \in Tables
    BY <1>0, <1>2, SessionConstants DEF Subs!IsCatchAll, Subs!Parses
  <2> HIDE DEF id, sub
  <2>4. /\ DOMAIN subscriptions' = DOMAIN subscriptions \union {id} /\ subscriptions'[id] = sub
        /\ \A i \in DOMAIN subscriptions : subscriptions'[i] = subscriptions[i]
    BY <1>0, <2>1
  <2>5. SubsGood'
    <3> SUFFICES ASSUME NEW i \in DOMAIN subscriptions'
                 PROVE /\ i \in 1..MaxSubs /\ i < id'
                       /\ subscriptions'[i].client \in Conns
                       /\ \/ Subs!IsCatchAll(subscriptions'[i])
                          \/ subscriptions'[i].query.table \in Tables
      BY DEF SubsGood, id, Subs!IsCatchAll
    <3>1. CASE i = id
      BY <3>1, <1>0, <2>3, <2>4
    <3>2. CASE i \in DOMAIN subscriptions
      <4>1. i \in 1..MaxSubs /\ i < id /\ subscriptions'[i] = subscriptions[i]
        BY <3>2, <2>4 DEF Maps, SubsGood, id
      <4> QED BY <3>2, <4>1, <1>0 DEF Maps, SubsGood
    <3> QED BY <3>1, <3>2, <2>4
  <2>6. all_tables_index' = CatchAlls'
    <3>1. CatchAlls' = {i \in DOMAIN subscriptions' : Subs!IsCatchAll(subscriptions'[i])}
      BY DEF CatchAlls, Subs!IsCatchAll
    <3>2. CASE Subs!IsCatchAll(sub)
      BY <3>1, <3>2, <2>1, <2>4, <1>0 DEF Maps, CatchAlls, Subs!IndexSubscription
    <3>3. CASE ~Subs!IsCatchAll(sub)
      BY <3>1, <3>3, <2>1, <2>4, <1>0 DEF Maps, CatchAlls, Subs!IndexSubscription
    <3> QED BY <3>2, <3>3
  <2>7. DOMAIN table_index' = Tables
    BY <2>1 DEF Maps, Subs!IndexSubscription
  <2>8. ASSUME NEW t \in Tables PROVE table_index'[t] = OfTable(t)'
    <3>1. OfTable(t)' = {i \in DOMAIN subscriptions' : ~Subs!IsCatchAll(subscriptions'[i])
                                                     /\ subscriptions'[i].query.table = t}
      BY DEF OfTable, Subs!IsCatchAll
    <3>2. OfTable(t)' = IF ~Subs!IsCatchAll(sub) /\ sub.query.table = t THEN OfTable(t) \union {id}
                        ELSE OfTable(t)
      BY <3>1, <2>4, <1>0 DEF OfTable
    <3>3. table_index'[t] = IF ~Subs!IsCatchAll(sub) /\ sub.query.table = t
                            THEN table_index[t] \union {id} ELSE table_index[t]
      BY <2>1, <2>3 DEF Maps, Subs!IndexSubscription
    <3> QED BY <3>2, <3>3 DEF Maps
  <2>9. DOMAIN client_subscriptions' = Conns
    BY <2>1 DEF Maps
  <2>10. ASSUME NEW d \in Conns PROVE client_subscriptions'[d] = OfClient(d)'
    <3>1. OfClient(d)' = IF d = c THEN OfClient(d) \union {id} ELSE OfClient(d)
      BY <2>4, <1>0 DEF OfClient
    <3>2. client_subscriptions'[d] = IF d = c THEN client_subscriptions[d] \union {id}
                                     ELSE client_subscriptions[d]
      BY <2>1 DEF Maps
    <3> QED BY <3>1, <3>2 DEF Maps
  <2>11. next_subscription_id' \in Nat \ {0}
    BY <1>0 DEF id
  <2>12. Maps'
    BY <2>5, <2>6, <2>7, <2>8, <2>9, <2>10, <2>11 DEF Maps
  <2> QED BY <1>0, <1>2, <2>2, <2>12 DEF id
<1> QED BY <1>1, <1>2

-----------------------------------------------------------------------------
(***************************************************************************)
(* SocketInv: what a connection has in each state of its thread.            *)
(***************************************************************************)
Serving == {"loop", "created", "snapshot", "commit"}
Open == Serving \union {"accepted", "left", "closing"}

FdMaps == DOMAIN owner = Fds /\ DOMAIN client_ids = Fds
KnownState == \A c \in Conns : conn[c].at \in Open \union {"none", "closed"}
\* A descriptor is the connection's from accept to close.
Owned == \A c \in Conns : conn[c].at \in Open => conn[c].fd \in Fds /\ owner[conn[c].fd] = c
Owners == \A f \in Fds, c \in Conns : owner[f] = c => conn[c].fd = f /\ conn[c].at \in Open
\* Its client is registered while HandleClient's loop runs.
Registered == \A c \in Conns : conn[c].at \in Serving => client_ids[conn[c].fd] = c
Registers == \A f \in Fds, c \in Conns : client_ids[f] = c => conn[c].fd = f /\ conn[c].at \in Serving
\* Its subscriptions are gone before its descriptor is closed.
Subscribed ==
  \A i \in DOMAIN subscriptions : conn[subscriptions[i].client].at \in Serving \union {"left"}

Sockets == FdMaps /\ KnownState /\ Owned /\ Owners /\ Registered /\ Registers /\ Subscribed

SocketInv == Maps /\ Sockets

\* Steps that leave descriptors alone and stay on their side of the loop; a new
\* subscription is one of a connection in the loop.
LEMMA SocketsStay ==
  ASSUME SocketInv, NEW c \in Conns, NEW at, NEW peer, NEW sub, NEW query, NEW n,
         ConnTo(c, at, conn[c].fd, peer, sub, query, n),
         at = conn[c].at \/ (at \in Serving /\ conn[c].at \in Serving),
         peer = conn[c].peer \/ peer = "gone",
         UNCHANGED <<owner, client_ids>>,
         \A i \in DOMAIN subscriptions' :
           \/ subscriptions'[i].client = c /\ at \in Serving
           \/ i \in DOMAIN subscriptions /\ subscriptions'[i].client = subscriptions[i].client
  PROVE Sockets'
<1>1. /\ conn'[c].at = at /\ conn'[c].fd = conn[c].fd /\ conn'[c].peer = peer
      /\ \A d \in Conns : d # c => conn'[d] = conn[d]
  BY DEF ConnTo, ConnMoved
<1>2. \A d \in Conns : /\ conn'[d].fd = conn[d].fd
                       /\ conn'[d].at = conn[d].at \/ (conn'[d].at \in Serving /\ conn[d].at \in Serving)
                       /\ conn'[d].peer = conn[d].peer \/ conn'[d].peer = "gone"
  BY <1>1
<1>3. FdMaps'
  BY DEF SocketInv, Sockets, FdMaps
<1>4. KnownState'
  BY <1>2 DEF SocketInv, Sockets, KnownState, Open, Serving
<1>5. Owned' /\ Owners'
  BY <1>2 DEF SocketInv, Sockets, Owned, Owners, Open, Serving
<1>6. Registered' /\ Registers'
  BY <1>2 DEF SocketInv, Sockets, Registered, Registers, Serving
<1>7. Subscribed'
  <2> SUFFICES ASSUME NEW i \in DOMAIN subscriptions'
               PROVE conn'[subscriptions'[i].client].at \in Serving \union {"left"}
    BY DEF Subscribed
  <2>1. CASE subscriptions'[i].client = c /\ at \in Serving
    BY <2>1, <1>1
  <2>2. CASE i \in DOMAIN subscriptions /\ subscriptions'[i].client = subscriptions[i].client
    <3>1. /\ conn[subscriptions[i].client].at \in Serving \union {"left"}
          /\ subscriptions[i].client \in Conns
      BY <2>2 DEF SocketInv, Sockets, Subscribed, Maps, SubsGood
    <3> QED BY <2>2, <3>1, <1>2
  <2> QED BY <2>1, <2>2
<1> QED BY <1>3, <1>4, <1>5, <1>6, <1>7 DEF Sockets

LEMMA SocketsSame ==
  ASSUME SocketInv, UNCHANGED <<owner, client_ids, conn>>,
         \A i \in DOMAIN subscriptions' :
           i \in DOMAIN subscriptions /\ subscriptions'[i].client = subscriptions[i].client
  PROVE Sockets'
<1>1. FdMaps' /\ KnownState' /\ Owned' /\ Owners' /\ Registered' /\ Registers'
  BY DEF SocketInv, Sockets, FdMaps, KnownState, Owned, Owners, Registered, Registers
<1>2. Subscribed'
  BY DEF SocketInv, Sockets, Subscribed
<1> QED BY <1>1, <1>2 DEF Sockets

LEMMA MapsSame == ASSUME Maps, UNCHANGED subVars PROVE Maps'
  BY DEF Maps, SubsGood, CatchAlls, OfTable, OfClient, Subs!IsCatchAll, subVars

LEMMA SubsSame ==
  ASSUME UNCHANGED subVars
  PROVE \A i \in DOMAIN subscriptions' :
          i \in DOMAIN subscriptions /\ subscriptions'[i].client = subscriptions[i].client
  BY DEF subVars

LEMMA AcceptSockets ==
  ASSUME SocketInv, Shapes, NEW c \in Conns, NEW f \in Fds, Accept(c, f)
  PROVE Sockets'
<1>0. /\ conn[c].at = "none" /\ owner[f] = Nobody /\ owner' = [owner EXCEPT ![f] = c]
      /\ UNCHANGED <<client_ids, subscriptions>>
  BY DEF Accept, At, subVars
<1>1. /\ conn'[c].at = "accepted" /\ conn'[c].fd = f
      /\ \A d \in Conns : d # c => conn'[d] = conn[d]
  BY AcceptTo DEF ConnTo, ConnMoved
<1>2. owner'[f] = c /\ (\A g \in Fds : g # f => owner'[g] = owner[g]) /\ DOMAIN owner' = Fds
  BY <1>0 DEF SocketInv, Sockets, FdMaps
<1>3. FdMaps'
  BY <1>0, <1>2 DEF SocketInv, Sockets, FdMaps
<1>4. KnownState'
  BY <1>1 DEF SocketInv, Sockets, KnownState, Open
<1>5. Owned'
  <2> SUFFICES ASSUME NEW d \in Conns, conn'[d].at \in Open
               PROVE conn'[d].fd \in Fds /\ owner'[conn'[d].fd] = d
    BY DEF Owned
  <2>1. CASE d = c
    BY <2>1, <1>1, <1>2
  <2>2. CASE d # c
    <3>1. conn[d].fd \in Fds /\ owner[conn[d].fd] = d /\ conn'[d] = conn[d]
      BY <2>2, <1>1 DEF SocketInv, Sockets, Owned
    <3>2. conn[d].fd # f
      BY <3>1, <1>0, SessionConstants
    <3> QED BY <3>1, <3>2, <1>2
  <2> QED BY <2>1, <2>2
<1>6. Owners'
  BY <1>0, <1>1, <1>2 DEF SocketInv, Sockets, Owners, Open, Serving
<1>7. Registered' /\ Registers'
  BY <1>0, <1>1 DEF SocketInv, Sockets, Registered, Registers, Serving
<1>8. Subscribed'
  BY <1>0, <1>1 DEF SocketInv, Sockets, Subscribed, Serving, Maps, SubsGood
<1> QED BY <1>3, <1>4, <1>5, <1>6, <1>7, <1>8 DEF Sockets

\* Refuse, and CloseSocket: the descriptor goes, and nothing else is left.
LEMMA CloseSockets ==
  ASSUME SocketInv, Shapes, NEW c \in Conns, Refuse(c) \/ CloseSocket(c)
  PROVE Sockets'
<1>0. /\ conn[c].at \in {"accepted", "closing"} /\ Step(c, "closed")
      /\ owner' = [owner EXCEPT ![conn[c].fd] = Nobody] /\ UNCHANGED <<client_ids, subscriptions>>
  BY DEF Refuse, CloseSocket, At, subVars
<1>1. /\ conn'[c].at = "closed" /\ conn'[c].fd = conn[c].fd
      /\ \A d \in Conns : d # c => conn'[d] = conn[d]
  BY <1>0, StepTo DEF GoesTo, ConnTo, ConnMoved
<1>2. conn[c].fd \in Fds /\ owner[conn[c].fd] = c
  BY <1>0 DEF SocketInv, Sockets, Owned, Open
<1>3. /\ owner'[conn[c].fd] = Nobody /\ DOMAIN owner' = Fds
      /\ \A g \in Fds : g # conn[c].fd => owner'[g] = owner[g]
  BY <1>0, <1>2 DEF SocketInv, Sockets, FdMaps
<1>4. FdMaps'
  BY <1>0, <1>3 DEF SocketInv, Sockets, FdMaps
<1>5. KnownState'
  BY <1>1 DEF SocketInv, Sockets, KnownState, Open
<1>6. Owned'
  <2> SUFFICES ASSUME NEW d \in Conns, conn'[d].at \in Open
               PROVE conn'[d].fd \in Fds /\ owner'[conn'[d].fd] = d
    BY DEF Owned
  <2>1. d # c
    BY <1>1 DEF Open, Serving
  <2>2. conn[d].fd \in Fds /\ owner[conn[d].fd] = d /\ conn'[d] = conn[d]
    BY <2>1, <1>1 DEF SocketInv, Sockets, Owned
  <2>3. conn[d].fd # conn[c].fd
    BY <2>1, <2>2, <1>2
  <2> QED BY <2>2, <2>3, <1>3
<1>7. Owners'
  <2> SUFFICES ASSUME NEW f \in Fds, NEW d \in Conns, owner'[f] = d
               PROVE conn'[d].fd = f /\ conn'[d].at \in Open
    BY DEF Owners
  <2>1. f # conn[c].fd /\ owner[f] = d
    BY <1>3, SessionConstants
  <2>2. conn[d].fd = f /\ conn[d].at \in Open
    BY <2>1 DEF SocketInv, Sockets, Owners
  <2>3. d # c
    BY <2>1, <2>2
  <2> QED BY <2>2, <2>3, <1>1
<1>8. Registered' /\ Registers'
  BY <1>0, <1>1 DEF SocketInv, Sockets, Registered, Registers, Serving
<1>9. Subscribed'
  BY <1>0, <1>1 DEF SocketInv, Sockets, Subscribed, Serving, Maps, SubsGood
<1> QED BY <1>4, <1>5, <1>6, <1>7, <1>8, <1>9 DEF Sockets

LEMMA RegisterSockets ==
  ASSUME SocketInv, Shapes, NEW c \in Conns, Register(c)
  PROVE Sockets'
<1>0. /\ conn[c].at = "accepted" /\ Step(c, "loop")
      /\ client_ids' = [client_ids EXCEPT ![conn[c].fd] = c] /\ UNCHANGED <<owner, subscriptions>>
  BY DEF Register, At, subVars
<1>1. /\ conn'[c].at = "loop" /\ conn'[c].fd = conn[c].fd
      /\ \A d \in Conns : d # c => conn'[d] = conn[d]
  BY <1>0, StepTo DEF GoesTo, ConnTo, ConnMoved
<1>2. conn[c].fd \in Fds /\ owner[conn[c].fd] = c
  BY <1>0 DEF SocketInv, Sockets, Owned, Open
<1>3. /\ client_ids'[conn[c].fd] = c /\ DOMAIN client_ids' = Fds
      /\ \A g \in Fds : g # conn[c].fd => client_ids'[g] = client_ids[g]
  BY <1>0, <1>2 DEF SocketInv, Sockets, FdMaps
<1>4. FdMaps'
  BY <1>0, <1>3 DEF SocketInv, Sockets, FdMaps
<1>5. KnownState'
  BY <1>1 DEF SocketInv, Sockets, KnownState, Open, Serving
<1>6. Owned' /\ Owners'
  BY <1>0, <1>1 DEF SocketInv, Sockets, Owned, Owners, Open, Serving
<1>7. Registered'
  <2> SUFFICES ASSUME NEW d \in Conns, conn'[d].at \in Serving PROVE client_ids'[conn'[d].fd] = d
    BY DEF Registered
  <2>1. CASE d = c
    BY <2>1, <1>1, <1>3
  <2>2. CASE d # c
    <3>1. /\ conn'[d] = conn[d] /\ conn[d].fd \in Fds /\ owner[conn[d].fd] = d
          /\ client_ids[conn[d].fd] = d
      BY <2>2, <1>1 DEF SocketInv, Sockets, Owned, Open, Registered
    <3>2. conn[d].fd # conn[c].fd
      BY <2>2, <3>1, <1>2
    <3> QED BY <3>1, <3>2, <1>3
  <2> QED BY <2>1, <2>2
<1>8. Registers'
  <2> SUFFICES ASSUME NEW f \in Fds, NEW d \in Conns, client_ids'[f] = d
               PROVE conn'[d].fd = f /\ conn'[d].at \in Serving
    BY DEF Registers
  <2>1. CASE f = conn[c].fd
    BY <2>1, <1>1, <1>3 DEF Serving
  <2>2. CASE f # conn[c].fd
    <3>1. conn[d].fd = f /\ conn[d].at \in Serving
      BY <2>2, <1>3 DEF SocketInv, Sockets, Registers
    <3> QED BY <2>2, <3>1, <1>1
  <2> QED BY <2>1, <2>2
<1>9. Subscribed'
  BY <1>0, <1>1 DEF SocketInv, Sockets, Subscribed, Serving, Maps, SubsGood
<1> QED BY <1>4, <1>5, <1>6, <1>7, <1>8, <1>9 DEF Sockets

LEMMA LeaveSockets ==
  ASSUME SocketInv, Shapes, NEW c \in Conns, Leave(c)
  PROVE Sockets'
<1>0. /\ conn[c].at = "loop" /\ Step(c, "left")
      /\ client_ids' = [client_ids EXCEPT ![conn[c].fd] = IF @ = c THEN Nobody ELSE @]
      /\ UNCHANGED <<owner, subscriptions>>
  BY DEF Leave, At, subVars
<1>1. /\ conn'[c].at = "left" /\ conn'[c].fd = conn[c].fd
      /\ \A d \in Conns : d # c => conn'[d] = conn[d]
  BY <1>0, StepTo DEF GoesTo, ConnTo, ConnMoved
<1>2. conn[c].fd \in Fds /\ owner[conn[c].fd] = c /\ client_ids[conn[c].fd] = c
  BY <1>0 DEF SocketInv, Sockets, Owned, Open, Serving, Registered
<1>3. /\ client_ids'[conn[c].fd] = Nobody /\ DOMAIN client_ids' = Fds
      /\ \A g \in Fds : g # conn[c].fd => client_ids'[g] = client_ids[g]
  BY <1>0, <1>2 DEF SocketInv, Sockets, FdMaps
<1>4. FdMaps'
  BY <1>0, <1>3 DEF SocketInv, Sockets, FdMaps
<1>5. KnownState'
  BY <1>1 DEF SocketInv, Sockets, KnownState, Open, Serving
<1>6. Owned' /\ Owners'
  BY <1>0, <1>1 DEF SocketInv, Sockets, Owned, Owners, Open, Serving
<1>7. Registered'
  <2> SUFFICES ASSUME NEW d \in Conns, conn'[d].at \in Serving PROVE client_ids'[conn'[d].fd] = d
    BY DEF Registered
  <2>1. d # c
    BY <1>1 DEF Serving
  <2>2. /\ conn'[d] = conn[d] /\ conn[d].fd \in Fds /\ owner[conn[d].fd] = d
        /\ client_ids[conn[d].fd] = d
    BY <2>1, <1>1 DEF SocketInv, Sockets, Owned, Open, Registered
  <2>3. conn[d].fd # conn[c].fd
    BY <2>1, <2>2, <1>2
  <2> QED BY <2>2, <2>3, <1>3
<1>8. Registers'
  <2> SUFFICES ASSUME NEW f \in Fds, NEW d \in Conns, client_ids'[f] = d
               PROVE conn'[d].fd = f /\ conn'[d].at \in Serving
    BY DEF Registers
  <2>1. f # conn[c].fd
    BY <1>3, SessionConstants
  <2>2. conn[d].fd = f /\ conn[d].at \in Serving
    BY <2>1, <1>3 DEF SocketInv, Sockets, Registers
  <2> QED BY <2>1, <2>2, <1>1
<1>9. Subscribed'
  BY <1>0, <1>1 DEF SocketInv, Sockets, Subscribed, Serving, Maps, SubsGood
<1> QED BY <1>4, <1>5, <1>6, <1>7, <1>8, <1>9 DEF Sockets

LEMMA DropSockets ==
  ASSUME SocketInv, Shapes, NEW c \in Conns, DropSubscriptions(c)
  PROVE SocketInv' /\ Erased(OfClient(c))
<1>0. /\ conn[c].at = "left" /\ Step(c, "closing") /\ Subs!UnsubscribeAll(c)
      /\ UNCHANGED <<owner, client_ids>>
  BY DEF DropSubscriptions, At
<1>1. /\ conn'[c].at = "closing" /\ conn'[c].fd = conn[c].fd /\ conn'[c].peer = conn[c].peer
      /\ \A d \in Conns : d # c => conn'[d] = conn[d]
  BY <1>0, StepTo DEF GoesTo, ConnTo, ConnMoved
<1>2. Maps' /\ Erased(OfClient(c))
  BY <1>0, MapsUnsubscribeAll DEF SocketInv
<1>3. \A i \in DOMAIN subscriptions' : /\ i \in DOMAIN subscriptions /\ subscriptions[i].client # c
                                       /\ subscriptions'[i].client = subscriptions[i].client
  BY <1>2 DEF Erased, OfClient
<1>4. FdMaps'
  BY <1>0 DEF SocketInv, Sockets, FdMaps
<1>5. KnownState'
  BY <1>1 DEF SocketInv, Sockets, KnownState, Open, Serving
<1>6. Owned' /\ Owners'
  BY <1>0, <1>1 DEF SocketInv, Sockets, Owned, Owners, Open, Serving
<1>7. Registered' /\ Registers'
  BY <1>0, <1>1 DEF SocketInv, Sockets, Registered, Registers, Serving
<1>8. Subscribed'
  BY <1>0, <1>1, <1>3 DEF SocketInv, Sockets, Subscribed, Serving, Maps, SubsGood
<1> QED BY <1>2, <1>4, <1>5, <1>6, <1>7, <1>8 DEF Sockets, SocketInv

\* What a step does to subscriptions_: nothing, one more, or some fewer.
SubsStep ==
  \/ UNCHANGED subscriptions
  \/ \E ids : Erased(ids)
  \/ \E c \in Conns, q \in Queries : /\ Entered(next_subscription_id, c, q)
                                     /\ SubscriptionRequest(c, q) /\ Subs!Parses(q)

\* The actions of a connection that leave every map of the server alone.
LEMMA ServesOn ==
  ASSUME SocketInv, Shapes, NEW c \in Conns,
         \/ PeerGone(c) \/ SendCreated(c) \/ SendInitialState(c) \/ PublishReduction(c)
         \/ (\E t \in Tables : ReadTable(c, t)) \/ OtherMessage(c)
         \/ \E w \in Reductions : CallReducer(c, w)
  PROVE SocketInv' /\ UNCHANGED subscriptions
<1>0. UNCHANGED <<subVars, owner, client_ids>>
  BY DEF PeerGone, SendCreated, SendInitialState, PublishReduction, ReadTable, OtherMessage, CallReducer
<1>1. Maps' /\ UNCHANGED subscriptions
  BY <1>0, MapsSame DEF SocketInv, subVars
<1>2. \A i \in DOMAIN subscriptions' :
        i \in DOMAIN subscriptions /\ subscriptions'[i].client = subscriptions[i].client
  BY <1>1
<1>3. CASE PeerGone(c)
  BY <1>0, <1>1, <1>2, <1>3, PeerGoneTo, SocketsStay DEF SocketInv
<1>4. CASE SendCreated(c)
  <2>1. conn[c].at = "created"
    BY <1>4 DEF SendCreated, At
  <2> QED BY <1>0, <1>1, <1>2, <1>4, <2>1, CreatedTo, SocketsStay DEF SocketInv, GoesTo, Serving
<1>5. CASE SendInitialState(c)
  <2>1. conn[c].at = "snapshot"
    BY <1>5 DEF SendInitialState, At
  <2> QED BY <1>0, <1>1, <1>2, <1>5, <2>1, InitialTo, SocketsStay DEF SocketInv, Serving
<1>6. CASE PublishReduction(c)
  <2>1. conn[c].at = "commit"
    BY <1>6 DEF PublishReduction, At
  <2> QED BY <1>0, <1>1, <1>2, <1>6, <2>1, ReductionTo, SocketsStay DEF SocketInv, Serving
<1>7. ASSUME NEW t \in Tables, ReadTable(c, t) PROVE SocketInv'
  <2>1. conn[c].at = "snapshot"
    BY <1>7 DEF ReadTable, At
  <2> QED BY <1>0, <1>1, <1>2, <1>7, <2>1, ReadTo, SocketsStay DEF SocketInv, GoesTo, Serving
<1>8. CASE OtherMessage(c)
  <2>1. conn' = conn
    BY <1>8 DEF OtherMessage
  <2> QED BY <1>0, <1>1, <1>2, <2>1, SocketsSame DEF SocketInv
<1>9. ASSUME NEW w \in Reductions, CallReducer(c, w) PROVE SocketInv'
  <2>1. CASE walUp
    <3>1. conn[c].at = "loop"
      BY <1>9 DEF CallReducer, Asks, At
    <3> QED BY <1>0, <1>1, <1>2, <1>9, <2>1, <3>1, ReducerTo, SocketsStay DEF SocketInv, Serving
  <2>2. CASE ~walUp
    <3>1. conn' = conn
      BY <1>9, <2>2 DEF CallReducer
    <3> QED BY <1>0, <1>1, <1>2, <3>1, SocketsSame DEF SocketInv
  <2> QED BY <2>1, <2>2
<1> QED BY <1>1, <1>3, <1>4, <1>5, <1>6, <1>7, <1>8, <1>9

LEMMA SubscriptionSockets ==
  ASSUME SocketInv, Shapes, NEW c \in Conns, NEW q \in Queries, SubscriptionRequest(c, q)
  PROVE SocketInv' /\ SubsStep
<1>0. /\ conn[c].at = "loop" /\ Subs!Subscribe(c, q) /\ UNCHANGED <<owner, client_ids>>
  BY DEF SubscriptionRequest, Asks, At
<1>1. /\ Maps'
      /\ IF Subs!Parses(q) THEN Entered(next_subscription_id, c, q) ELSE UNCHANGED subscriptions
  BY <1>0, MapsSubscribe DEF SocketInv
<1>2. CASE Subs!Parses(q)
  <2>1. \A i \in DOMAIN subscriptions' :
          \/ subscriptions'[i].client = c /\ "created" \in Serving
          \/ i \in DOMAIN subscriptions /\ subscriptions'[i].client = subscriptions[i].client
    BY <1>1, <1>2 DEF Entered, Serving
  <2>2. Sockets'
    BY <1>0, <1>2, <2>1, SubscriptionTo, SocketsStay DEF Serving
  <2> QED BY <1>1, <1>2, <2>2 DEF SocketInv, SubsStep
<1>3. CASE ~Subs!Parses(q)
  <2>1. conn' = conn /\ UNCHANGED subscriptions
    BY <1>1, <1>3 DEF SubscriptionRequest
  <2>2. Sockets'
    BY <1>0, <2>1, SocketsSame
  <2> QED BY <1>1, <2>1, <2>2 DEF SocketInv, SubsStep
<1> QED BY <1>2, <1>3

LEMMA UnsubscribeSockets ==
  ASSUME SocketInv, NEW c \in Conns, NEW i, UnsubscribeRequest(c, i)
  PROVE SocketInv' /\ SubsStep
<1>0. Subs!Unsubscribe(i) /\ UNCHANGED <<owner, client_ids, conn>>
  BY DEF UnsubscribeRequest
<1>1. Maps' /\ \E ids : Erased(ids)
  BY <1>0, MapsUnsubscribe DEF SocketInv
<1>2. Sockets'
  BY <1>0, <1>1, SocketsSame DEF Erased
<1> QED BY <1>1, <1>2 DEF SocketInv, SubsStep

LEMMA NextSockets == ASSUME SocketInv, Shapes, [Next]_vars PROVE SocketInv' /\ SubsStep
<1>1. ASSUME UNCHANGED <<subVars, owner, client_ids, conn>> PROVE SocketInv' /\ SubsStep
  BY <1>1, MapsSame, SubsSame, SocketsSame DEF SocketInv, SubsStep, subVars
<1>2. CASE UNCHANGED vars
  BY <1>2, <1>1 DEF vars, connVars
<1>3. CASE SqlNext /\ UNCHANGED <<subVars, connVars>>
  BY <1>3, <1>1 DEF connVars
<1>4. CASE Notify
  <2>1. UNCHANGED <<subVars, owner, client_ids, conn>>
    BY <1>4 DEF Notify, TakeEvent, SendEvent, FindSocket
  <2> QED BY <1>1, <2>1
<1>5. ASSUME NEW c \in Conns,
             \/ \E f \in Fds : Accept(c, f)
             \/ Refuse(c) \/ CloseSocket(c) \/ Register(c) \/ Leave(c)
      PROVE SocketInv' /\ SubsStep
  <2>1. UNCHANGED subVars
    BY <1>5 DEF Accept, Refuse, CloseSocket, Register, Leave
  <2>2. Maps' /\ SubsStep
    BY <2>1, MapsSame DEF SocketInv, SubsStep, subVars
  <2>3. Sockets'
    BY <1>5, AcceptSockets, CloseSockets, RegisterSockets, LeaveSockets
  <2> QED BY <2>2, <2>3 DEF SocketInv
<1>6. ASSUME NEW c \in Conns, DropSubscriptions(c) PROVE SocketInv' /\ SubsStep
  BY <1>6, DropSockets DEF SubsStep
<1>7. ASSUME NEW c \in Conns,
             \/ PeerGone(c) \/ SendCreated(c) \/ SendInitialState(c) \/ PublishReduction(c)
             \/ (\E t \in Tables : ReadTable(c, t)) \/ OtherMessage(c)
             \/ \E w \in Reductions : CallReducer(c, w)
      PROVE SocketInv' /\ SubsStep
  BY <1>7, ServesOn DEF SubsStep
<1> QED BY <1>2, <1>3, <1>4, <1>5, <1>6, <1>7, SubscriptionSockets, UnsubscribeSockets
        DEF Next, Handler, Request

LEMMA SocketStart == ASSUME Init PROVE SocketInv
<1>1. Maps
  BY DEF Init, Subs!SubInit, Maps, SubsGood, CatchAlls, OfTable, OfClient
<1>2. Sockets
  BY SessionConstants DEF Init, Subs!SubInit, Sockets, FdMaps, KnownState, Owned, Owners, Registered,
     Registers, Subscribed, Open, Serving, NoConn
<1> QED BY <1>1, <1>2 DEF SocketInv

LEMMA SocketInvariant == Spec => [](LedgerInv /\ SocketInv)
<1>1. Init => LedgerInv /\ SocketInv
  BY LedgerStart, SocketStart
<1>2. LedgerInv /\ SocketInv /\ [Next]_vars => (LedgerInv /\ SocketInv)'
  BY NextLedger, LedgerInvStep, NextSockets DEF LedgerInv
<1> QED BY <1>1, <1>2, PTL DEF Spec

\* The four maps of the subscription manager agree, for any number of clients and
\* subscriptions and whatever order they subscribe, drop each other's
\* subscriptions and leave in.
THEOREM SubscriptionMapsAgree == Spec => []IndexesAgree
<1>1. ASSUME SocketInv PROVE IndexesAgree
  <2>0. ASSUME NEW i PROVE
          /\ i \in all_tables_index <=> i \in CatchAlls
          /\ \A t \in Tables : i \in table_index[t] <=> i \in OfTable(t)
          /\ \A c \in Conns : i \in client_subscriptions[c] <=> i \in OfClient(c)
    BY <1>1 DEF SocketInv, Maps
  <2>1. ASSUME NEW i \in DOMAIN subscriptions
        PROVE /\ i \in client_subscriptions[subscriptions[i].client]
              /\ (i \in all_tables_index) = Subs!IsCatchAll(subscriptions[i])
              /\ \A t \in Tables : (i \in table_index[t]) = (/\ ~Subs!IsCatchAll(subscriptions[i])
                                                            /\ subscriptions[i].query.table = t)
    <3>1. i \in client_subscriptions[subscriptions[i].client]
      BY <1>1, <2>0 DEF SocketInv, Maps, SubsGood, OfClient
    <3>2. (i \in all_tables_index) = Subs!IsCatchAll(subscriptions[i])
      BY <2>0 DEF CatchAlls, Subs!IsCatchAll
    <3>3. \A t \in Tables : (i \in table_index[t]) = (/\ ~Subs!IsCatchAll(subscriptions[i])
                                                    /\ subscriptions[i].query.table = t)
      BY <2>0 DEF OfTable, Subs!IsCatchAll
    <3> QED BY <3>1, <3>2, <3>3
  <2>2. ASSUME NEW i, i \notin DOMAIN subscriptions
        PROVE /\ i \notin all_tables_index
              /\ \A t \in Tables : i \notin table_index[t]
              /\ \A c \in Conns : i \notin client_subscriptions[c]
    BY <2>0, <2>2 DEF CatchAlls, OfTable, OfClient
  <2> QED BY <2>1, <2>2 DEF IndexesAgree
<1> QED BY <1>1, SocketInvariant, PTL

\* A connection whose thread has ended has no subscription, no entry in
\* client_ids_ and no descriptor left, however its end interleaves with the
\* threads of other connections and with OnChangefeedEvent.
THEOREM ClosedLeaveNothing == Spec => []NothingLeftBehind
<1>1. SocketInv => NothingLeftBehind
  BY DEF SocketInv, Sockets, Owners, Registers, Subscribed, Open, Serving, NothingLeftBehind
<1> QED BY <1>1, SocketInvariant, PTL

-----------------------------------------------------------------------------
(***************************************************************************)
(* StreamInv: what OnChangefeedEvent has sent, and what it still owes.      *)
(***************************************************************************)
IsEvent(frame) == frame.type = "event"

\* A client's inbox while the event at offset off goes to the subscriptions todo.
BoxGood(box, off, todo) ==
  /\ IsSeq(box)
  /\ \A a \in 1..Len(box) : IsEvent(box[a]) =>
       /\ box[a].off \in Nat /\ box[a].off <= off
       /\ box[a].off = off => \A m \in todo : m.sub # box[a].via
  /\ \A a, b \in 1..Len(box) :
       a < b /\ IsEvent(box[a]) /\ IsEvent(box[b]) =>
         box[a].off <= box[b].off /\ (box[a].via = box[b].via => box[a].off < box[b].off)

Got(box, i, o) == \E a \in 1..Len(box) : IsEvent(box[a]) /\ box[a].via = i /\ box[a].off = o

LEMMA BoxQuiet ==
  ASSUME NEW box, NEW off \in Nat, NEW todo, BoxGood(box, off, todo), NEW frame, ~IsEvent(frame)
  PROVE BoxGood(Append(box, frame), off, todo)
<1> DEFINE B == Append(box, frame)
<1>1. /\ IsSeq(B) /\ Len(B) = Len(box) + 1 /\ Len(box) \in Nat
      /\ \A i \in 1..Len(box) : B[i] = box[i]
      /\ B[Len(box) + 1] = frame
  BY AppendIsSeq DEF BoxGood
<1> HIDE DEF B
<1>2. \A a \in 1..Len(B) : IsEvent(B[a]) => a \in 1..Len(box) /\ B[a] = box[a]
  BY <1>1
<1>3. BoxGood(B, off, todo)
  BY <1>1, <1>2 DEF BoxGood
<1> QED BY <1>3 DEF B

LEMMA BoxLess ==
  ASSUME NEW box, NEW off \in Nat, NEW todo, BoxGood(box, off, todo), NEW m
  PROVE BoxGood(box, off, todo \ {m})
  BY DEF BoxGood

LEMMA BoxNext ==
  ASSUME NEW box, NEW off \in Nat, NEW todo, BoxGood(box, off, todo), NEW other
  PROVE BoxGood(box, off + 1, other)
<1>1. \A a \in 1..Len(box) : IsEvent(box[a]) =>
        box[a].off \in Nat /\ box[a].off <= off + 1 /\ box[a].off # off + 1
  BY DEF BoxGood
<1> QED BY <1>1 DEF BoxGood

LEMMA BoxEvent ==
  ASSUME NEW box, NEW off \in Nat, NEW todo, BoxGood(box, off, todo),
         NEW m \in todo, \A k \in todo : k.sub = m.sub => k = m,
         NEW frame, IsEvent(frame), frame.off = off, frame.via = m.sub
  PROVE BoxGood(Append(box, frame), off, todo \ {m})
<1> DEFINE B == Append(box, frame)
<1>1. /\ IsSeq(B) /\ Len(B) = Len(box) + 1 /\ Len(box) \in Nat
      /\ \A i \in 1..Len(box) : B[i] = box[i]
      /\ B[Len(box) + 1] = frame
  BY AppendIsSeq DEF BoxGood
<1> HIDE DEF B
<1>2. \A a \in 1..Len(B) : (a \in 1..Len(box) /\ B[a] = box[a]) \/ (a = Len(box) + 1 /\ B[a] = frame)
  BY <1>1
<1>3. ASSUME NEW a \in 1..Len(B), IsEvent(B[a])
      PROVE /\ B[a].off \in Nat /\ B[a].off <= off
            /\ B[a].off = off => \A k \in todo \ {m} : k.sub # B[a].via
  <2>1. CASE a \in 1..Len(box) /\ B[a] = box[a]
    BY <1>3, <2>1 DEF BoxGood
  <2>2. CASE a = Len(box) + 1 /\ B[a] = frame
    BY <2>2
  <2> QED BY <2>1, <2>2, <1>2
<1>4. ASSUME NEW a \in 1..Len(B), NEW b \in 1..Len(B), a < b, IsEvent(B[a]), IsEvent(B[b])
      PROVE B[a].off <= B[b].off /\ (B[a].via = B[b].via => B[a].off < B[b].off)
  <2>1. a \in 1..Len(box) /\ B[a] = box[a]
    BY <1>1, <1>4
  <2>2. CASE b \in 1..Len(box) /\ B[b] = box[b]
    BY <1>4, <2>1, <2>2 DEF BoxGood
  <2>3. CASE b = Len(box) + 1 /\ B[b] = frame
    <3>1. box[a].off \in Nat /\ box[a].off <= off /\ (box[a].via = frame.via => box[a].off # off)
      BY <1>4, <2>1, <2>3 DEF BoxGood
    <3> QED BY <2>1, <2>3, <3>1
  <2> QED BY <2>2, <2>3, <1>2
<1>5. BoxGood(B, off, todo \ {m})
  BY <1>1, <1>3, <1>4 DEF BoxGood
<1> QED BY <1>5 DEF B

LEMMA GotAppend ==
  ASSUME NEW box, IsSeq(box), NEW frame
  PROVE /\ \A i, o : Got(box, i, o) => Got(Append(box, frame), i, o)
        /\ IsEvent(frame) => Got(Append(box, frame), frame.via, frame.off)
<1> DEFINE B == Append(box, frame)
<1>1. /\ Len(B) = Len(box) + 1 /\ Len(box) \in Nat
      /\ \A i \in 1..Len(box) : B[i] = box[i]
      /\ B[Len(box) + 1] = frame
  BY AppendIsSeq
<1> HIDE DEF B
<1>2. \A i, o : Got(box, i, o) => Got(B, i, o)
  BY <1>1 DEF Got
<1>3. IsEvent(frame) => Got(B, frame.via, frame.off)
  <2>1. Len(box) + 1 \in 1..Len(B)
    BY <1>1
  <2> QED BY <1>1, <2>1 DEF Got
<1> QED BY <1>2, <1>3 DEF B

-----------------------------------------------------------------------------
CfGood ==
  /\ DOMAIN cf = {"at", "off", "todo", "msg", "fd"}
  /\ cf.at \in {"wait", "find", "send"} /\ cf.off \in Nat /\ cf.off <= Len(feed)
  /\ cf.at = "wait" => cf.todo = {}
  /\ \A m \in cf.todo : m.client \in Conns
  /\ \A m, k \in cf.todo : k.sub = m.sub => k = m

\* The descriptor was the client's own, and connections are not used twice.
Aimed ==
  cf.at = "send" => /\ cf.msg \in cf.todo /\ cf.fd = conn[cf.msg.client].fd
                    /\ conn[cf.msg.client].at # "none"

Boxes == DOMAIN inbox = Conns /\ \A c \in Conns : BoxGood(inbox[c], cf.off, cf.todo)

\* The subscription whose initial state a thread is sending.
Reading ==
  \A c \in Conns : conn[c].at \in {"created", "snapshot"} =>
    conn[c].sub \in 1..MaxSubs /\ conn[c].sub < next_subscription_id

\* Nothing was read for a subscription that is not there yet.
Reads ==
  /\ DOMAIN readAt = 1..MaxSubs
  /\ \A i \in 1..MaxSubs :
       /\ DOMAIN readAt[i] = Tables
       /\ \A t \in Tables : /\ readAt[i][t] \in Int
                            /\ i >= next_subscription_id => readAt[i][t] = -1

\* The event at o has to reach subscription i, and does, or is about to.
Due(i, o) ==
  /\ Listens(subscriptions[i].client) /\ o <= cf.off
  /\ readAt[i][feed[o].table] >= 0 /\ feed[o].n > readAt[i][feed[o].table]
  /\ Subs!MatchesEvent(subscriptions[i], feed[o])
Owed(i, o) ==
  \/ Got(inbox[subscriptions[i].client], i, o)
  \/ o = cf.off /\ \E m \in cf.todo : m.sub = i /\ m.client = subscriptions[i].client
Promised == \A i \in DOMAIN subscriptions, o \in 1..Len(feed) : Due(i, o) => Owed(i, o)

StreamInv == CfGood /\ Aimed /\ Boxes /\ Reading /\ Reads /\ Promised
Inv == LedgerInv /\ SocketInv /\ StreamInv

-----------------------------------------------------------------------------
(***************************************************************************)
(* The steps of everybody but OnChangefeedEvent.                            *)
(***************************************************************************)
InboxGets(to, frame) ==
  /\ DOMAIN inbox' = Conns
  /\ \A d \in Conns : inbox'[d] = IF d = to THEN Append(inbox[d], frame) ELSE inbox[d]

QuietInbox == inbox' = inbox \/ \E to, frame : ~IsEvent(frame) /\ InboxGets(to, frame)

Away == {"left", "closing", "closed"}

\* A connection's descriptor is for good; a peer that has gone stays away, and a
\* connection that has left the loop does not come back.
ConnGoesOn ==
  \A c \in Conns : /\ conn[c].at # "none" => conn'[c].at # "none" /\ conn'[c].fd = conn[c].fd
                   /\ conn'[c].peer = "up" => conn[c].peer = "up"
                   /\ conn[c].at \in Away => conn'[c].at \in Away

ReadStep ==
  \/ UNCHANGED readAt
  \/ /\ UNCHANGED <<commits, feed, subVars>>
     /\ \E c \in Conns, t \in Tables :
          /\ conn[c].at = "snapshot"
          /\ readAt' = [readAt EXCEPT ![conn[c].sub][t] = Len(commits)]

QuietStep ==
  /\ UNCHANGED cf /\ QuietInbox /\ ConnGoesOn /\ ReadStep
  /\ next_subscription_id' \in Nat /\ next_subscription_id' >= next_subscription_id

LEMMA SendGets ==
  ASSUME DOMAIN inbox = Conns, NEW c, NEW frame, HandlerSend(c, frame)
  PROVE InboxGets(c, frame) \/ inbox' = inbox
  BY DEF HandlerSend, Arrives, InboxGets

LEMMA GoesOn ==
  ASSUME SocketInv, NEW c \in Conns, NEW at, NEW fd, NEW peer, NEW sub, NEW query, NEW n,
         ConnTo(c, at, fd, peer, sub, query, n), at # "none",
         conn[c].at = "none" \/ fd = conn[c].fd, peer = conn[c].peer \/ peer = "gone",
         conn[c].at \in Away => at \in Away
  PROVE ConnGoesOn
  BY DEF ConnTo, ConnMoved, ConnGoesOn

LEMMA ReadsOn ==
  ASSUME SocketInv, Reading, NEW c \in Conns, NEW at, NEW fd, NEW peer, NEW sub, NEW query, NEW n,
         ConnTo(c, at, fd, peer, sub, query, n),
         at \in {"created", "snapshot"} =>
           conn[c].at \in {"created", "snapshot"} /\ sub = conn[c].sub,
         next_subscription_id' \in Nat, next_subscription_id' >= next_subscription_id
  PROVE Reading'
<1>1. ASSUME NEW d \in Conns, conn'[d].at \in {"created", "snapshot"}
      PROVE conn[d].at \in {"created", "snapshot"} /\ conn'[d].sub = conn[d].sub
  BY <1>1 DEF ConnTo, ConnMoved
<1>2. next_subscription_id \in Nat
  BY DEF SocketInv, Maps
<1> QED BY <1>1, <1>2 DEF Reading

LEMMA NextIdStep ==
  ASSUME SocketInv, UNCHANGED next_subscription_id
  PROVE next_subscription_id' \in Nat /\ next_subscription_id' >= next_subscription_id
  BY DEF SocketInv, Maps

\* Nothing but a connection's record moves.
LEMMA QuietMove ==
  ASSUME Inv, NEW c \in Conns, NEW at, NEW fd, NEW peer, NEW sub, NEW query, NEW n,
         ConnTo(c, at, fd, peer, sub, query, n), at # "none",
         conn[c].at = "none" \/ fd = conn[c].fd, peer = conn[c].peer \/ peer = "gone",
         conn[c].at \in Away => at \in Away,
         at \in {"created", "snapshot"} =>
           conn[c].at \in {"created", "snapshot"} /\ sub = conn[c].sub,
         UNCHANGED <<cf, next_subscription_id>>, QuietInbox, ReadStep
  PROVE QuietStep /\ Reading'
<1>1. ConnGoesOn
  BY GoesOn DEF Inv
<1>2. next_subscription_id' \in Nat /\ next_subscription_id' >= next_subscription_id
  BY NextIdStep DEF Inv
<1>3. Reading'
  BY <1>2, ReadsOn DEF Inv, StreamInv
<1> QED BY <1>1, <1>2, <1>3 DEF QuietStep

LEMMA QuietSame ==
  ASSUME Inv, UNCHANGED <<cf, inbox, conn, readAt>>,
         next_subscription_id' \in Nat, next_subscription_id' >= next_subscription_id
  PROVE QuietStep /\ Reading'
<1>1. next_subscription_id \in Nat
  BY DEF Inv, SocketInv, Maps
<1>2. Reading'
  BY <1>1 DEF Inv, StreamInv, Reading
<1> QED BY <1>2 DEF QuietStep, QuietInbox, ConnGoesOn, ReadStep

LEMMA ConnQuiet ==
  ASSUME Inv, NEW c \in Conns,
         \/ \E f \in Fds : Accept(c, f)
         \/ Refuse(c) \/ PeerGone(c) \/ Handler(c) \/ Request(c)
  PROVE QuietStep /\ Reading'
<1>0. Shapes /\ SocketInv /\ DOMAIN inbox = Conns
  BY DEF Inv, LedgerInv, StreamInv, Boxes
<1> USE DEF subVars, Away
<1>1. ASSUME NEW f \in Fds, Accept(c, f) PROVE QuietStep /\ Reading'
  <2>1. /\ conn[c].at = "none" /\ UNCHANGED <<cf, next_subscription_id, inbox, readAt>>
    BY <1>1 DEF Accept, At
  <2>2. QuietInbox /\ ReadStep
    BY <2>1 DEF QuietInbox, ReadStep
  <2> QED BY <1>0, <1>1, <2>1, <2>2, AcceptTo, QuietMove
<1>2. ASSUME NEW at, Step(c, at), at \notin {"none", "created", "snapshot"},
             conn[c].at \in Away => at \in Away,
             UNCHANGED <<cf, next_subscription_id, inbox, readAt>>
      PROVE QuietStep /\ Reading'
  <2>2. QuietInbox /\ ReadStep
    BY <1>2 DEF QuietInbox, ReadStep
  <2> QED BY <1>0, <1>2, <2>2, StepTo, QuietMove DEF GoesTo
<1>3. CASE Refuse(c) \/ Register(c) \/ Leave(c) \/ DropSubscriptions(c) \/ CloseSocket(c)
  <2>1. \E at : /\ Step(c, at) /\ at \notin {"none", "created", "snapshot"}
                /\ conn[c].at \in Away => at \in Away
                /\ UNCHANGED <<cf, next_subscription_id, inbox, readAt>>
    BY <1>3 DEF Refuse, Register, Leave, DropSubscriptions, CloseSocket, Subs!UnsubscribeAll, At
  <2> QED BY <2>1, <1>2
<1>4. CASE PeerGone(c)
  <2>1. conn[c].at # "none" /\ UNCHANGED <<cf, next_subscription_id, inbox, readAt>>
    BY <1>4 DEF PeerGone
  <2>2. QuietInbox /\ ReadStep
    BY <2>1 DEF QuietInbox, ReadStep
  <2> QED BY <1>0, <1>4, <2>1, <2>2, PeerGoneTo, QuietMove
<1>5. CASE SendCreated(c)
  <2>1. /\ conn[c].at = "created" /\ UNCHANGED <<cf, next_subscription_id, readAt>>
        /\ HandlerSend(c, [type |-> "created", sub |-> conn[c].sub])
    BY <1>5 DEF SendCreated, At
  <2>2. ~IsEvent([type |-> "created", sub |-> conn[c].sub])
    BY DEF IsEvent
  <2>3. QuietInbox /\ ReadStep
    BY <1>0, <2>1, <2>2, SendGets DEF QuietInbox, ReadStep
  <2> QED BY <1>0, <1>5, <2>1, <2>3, CreatedTo, QuietMove DEF GoesTo
<1>6. ASSUME NEW t \in Tables, ReadTable(c, t) PROVE QuietStep /\ Reading'
  <2>1. /\ conn[c].at = "snapshot" /\ UNCHANGED <<cf, next_subscription_id, inbox, commits, feed, subVars>>
        /\ readAt' = [readAt EXCEPT ![conn[c].sub][t] = Len(commits)]
    BY <1>6 DEF ReadTable, At, sqlVars
  <2>2. QuietInbox /\ ReadStep
    BY <2>1 DEF QuietInbox, ReadStep
  <2> QED BY <1>0, <1>6, <2>1, <2>2, ReadTo, QuietMove DEF GoesTo
<1>7. CASE SendInitialState(c)
  <2>1. /\ conn[c].at = "snapshot" /\ UNCHANGED <<cf, next_subscription_id, readAt>>
        /\ HandlerSend(c, [type |-> "initial", sub |-> conn[c].sub, rows |-> conn[c].snap])
    BY <1>7 DEF SendInitialState, At
  <2>2. ~IsEvent([type |-> "initial", sub |-> conn[c].sub, rows |-> conn[c].snap])
    BY DEF IsEvent
  <2>3. QuietInbox /\ ReadStep
    BY <1>0, <2>1, <2>2, SendGets DEF QuietInbox, ReadStep
  <2> QED BY <1>0, <1>7, <2>1, <2>3, InitialTo, QuietMove
<1>8. CASE PublishReduction(c)
  <2>1. conn[c].at = "commit" /\ UNCHANGED <<cf, next_subscription_id, inbox, readAt>>
    BY <1>8 DEF PublishReduction, At
  <2>2. QuietInbox /\ ReadStep
    BY <2>1 DEF QuietInbox, ReadStep
  <2> QED BY <1>0, <1>8, <2>1, <2>2, ReductionTo, QuietMove
<1>9. CASE OtherMessage(c) \/ \E i \in 1..MaxSubs : UnsubscribeRequest(c, i)
  <2>1. UNCHANGED <<cf, inbox, conn, readAt, next_subscription_id>>
    BY <1>9 DEF OtherMessage, UnsubscribeRequest, Subs!Unsubscribe
  <2> QED BY <1>0, <2>1, NextIdStep, QuietSame
<1>10. ASSUME NEW w \in Reductions, CallReducer(c, w) PROVE QuietStep /\ Reading'
  <2>1. conn[c].at = "loop" /\ UNCHANGED <<cf, next_subscription_id, inbox, readAt>>
    BY <1>10 DEF CallReducer, Asks, At
  <2>2. QuietInbox /\ ReadStep
    BY <2>1 DEF QuietInbox, ReadStep
  <2>3. CASE walUp
    BY <1>0, <1>10, <2>1, <2>2, <2>3, ReducerTo, QuietMove
  <2>4. CASE ~walUp
    <3>1. conn' = conn
      BY <1>10, <2>4 DEF CallReducer
    <3> QED BY <1>0, <2>1, <3>1, NextIdStep, QuietSame
  <2> QED BY <2>3, <2>4
<1>11. ASSUME NEW q \in Queries, SubscriptionRequest(c, q) PROVE QuietStep /\ Reading'
  <2>1. /\ conn[c].at = "loop" /\ UNCHANGED <<cf, inbox, readAt>> /\ Subs!Subscribe(c, q)
    BY <1>11 DEF SubscriptionRequest, Asks, At
  <2>2. /\ next_subscription_id \in 1..MaxSubs /\ next_subscription_id \in Nat
        /\ next_subscription_id' = next_subscription_id + 1
    BY <1>0, <2>1, MapsSubscribe DEF SocketInv, Maps
  <2>3. next_subscription_id' \in Nat /\ next_subscription_id' >= next_subscription_id
    BY <2>2
  <2>4. CASE ~Subs!Parses(q)
    <3>1. conn' = conn
      BY <1>11, <2>4 DEF SubscriptionRequest
    <3> QED BY <2>1, <2>3, <3>1, QuietSame
  <2>5. CASE Subs!Parses(q)
    <3>1. ConnTo(c, "created", conn[c].fd, conn[c].peer, next_subscription_id, q, conn[c].n)
      BY <1>0, <1>11, <2>5, SubscriptionTo
    <3>2. ConnGoesOn
      BY <1>0, <2>1, <3>1, GoesOn
    <3>3. ASSUME NEW d \in Conns, conn'[d].at \in {"created", "snapshot"}
          PROVE conn'[d].sub \in 1..MaxSubs /\ conn'[d].sub < next_subscription_id'
      <4>1. CASE d = c
        BY <3>1, <4>1, <2>2 DEF ConnTo
      <4>2. CASE d # c
        <5>1. conn'[d] = conn[d] /\ conn[d].sub \in 1..MaxSubs /\ conn[d].sub < next_subscription_id
          BY <3>1, <3>3, <4>2 DEF ConnTo, ConnMoved, Inv, StreamInv, Reading
        <5> QED BY <5>1, <2>2
      <4> QED BY <4>1, <4>2
    <3>4. Reading'
      BY <3>3 DEF Reading
    <3> QED BY <2>1, <2>3, <3>2, <3>4 DEF QuietStep, QuietInbox, ReadStep
  <2> QED BY <2>4, <2>5
<1> QED BY <1>1, <1>3, <1>4, <1>5, <1>6, <1>7, <1>8, <1>9, <1>10, <1>11 DEF Handler, Request

LEMMA NextQuiet ==
  ASSUME Inv, [Next]_vars
  PROVE (QuietStep /\ Reading') \/ Notify
<1>1. ASSUME UNCHANGED <<subVars, connVars>> PROVE QuietStep /\ Reading'
  <2>1. UNCHANGED <<cf, inbox, conn, readAt, next_subscription_id>> /\ SocketInv
    BY <1>1 DEF connVars, subVars, Inv
  <2> QED BY <2>1, NextIdStep, QuietSame
<1>2. CASE UNCHANGED vars
  BY <1>2, <1>1 DEF vars
<1> QED BY <1>1, <1>2, ConnQuiet DEF Next

-----------------------------------------------------------------------------
LEMMA FeedGrows ==
  ASSUME LedgerInv, LedgerStep
  PROVE /\ Len(feed) \in Nat /\ Len(feed') \in Nat /\ Len(feed) <= Len(feed')
        /\ \A o \in 1..Len(feed) : feed'[o] = feed[o]
<1>1. IsSeq(feed)
  BY DEF LedgerInv, Ledger
<1>2. CASE UNCHANGED feed
  BY <1>1, <1>2 DEF IsSeq
<1>3. ASSUME NEW e, feed' = Append(feed, e)
      PROVE /\ Len(feed) \in Nat /\ Len(feed') \in Nat /\ Len(feed) <= Len(feed')
            /\ \A o \in 1..Len(feed) : feed'[o] = feed[o]
  BY <1>1, <1>3, AppendIsSeq
<1> QED BY <1>2, <1>3 DEF LedgerStep, LedgerSame, LedgerCommits, LedgerLoses, LedgerPublishes

LEMMA FeedEntry ==
  ASSUME LedgerInv, NEW o \in 1..Len(feed)
  PROVE /\ feed[o].table \in Tables /\ feed[o].n \in Nat /\ feed[o].n <= Len(commits)
        /\ Len(commits) \in Nat
<1>1. feed[o].n \in 1..Len(commits) /\ feed[o] = commits[feed[o].n] /\ Len(commits) \in Nat
  BY DEF LedgerInv, Ledger, IsSeq
<1>2. commits[feed[o].n].table \in Tables
  BY <1>1 DEF LedgerInv, Ledger
<1>3. feed[o].table \in Tables
  BY <1>1, <1>2
<1> QED BY <1>1, <1>3

LEMMA QuietGot ==
  ASSUME Boxes, QuietInbox, NEW c \in Conns, NEW i, NEW o, Got(inbox[c], i, o)
  PROVE Got(inbox'[c], i, o)
<1>1. IsSeq(inbox[c])
  BY DEF Boxes, BoxGood
<1>2. ASSUME NEW to, NEW frame, InboxGets(to, frame) PROVE Got(inbox'[c], i, o)
  BY <1>1, <1>2, GotAppend DEF InboxGets
<1> QED BY <1>2 DEF QuietInbox

LEMMA QuietStream ==
  ASSUME Inv, LedgerStep, SubsStep, SocketInv', QuietStep, Reading'
  PROVE StreamInv'
<1>0. LedgerInv /\ SocketInv /\ CfGood /\ Aimed /\ Boxes /\ Reading /\ Reads /\ Promised
  BY DEF Inv, StreamInv
<1>1. /\ cf' = cf /\ cf.off \in Nat /\ cf.off <= Len(feed)
      /\ Len(feed) \in Nat /\ Len(feed') \in Nat /\ Len(feed) <= Len(feed')
      /\ \A o \in 1..Len(feed) : feed'[o] = feed[o]
  BY <1>0, FeedGrows DEF QuietStep, CfGood
<1>2. CfGood'
  BY <1>0, <1>1 DEF CfGood
<1>3. Aimed'
  BY <1>0, <1>1 DEF Aimed, CfGood, QuietStep, ConnGoesOn
<1>4. Boxes'
  <2>1. CASE inbox' = inbox
    BY <2>1, <1>0, <1>1 DEF Boxes
  <2>2. ASSUME NEW to, NEW frame, ~IsEvent(frame), InboxGets(to, frame) PROVE Boxes'
    <3>1. \A d \in Conns : BoxGood(inbox[d], cf.off, cf.todo)
      BY <1>0 DEF Boxes
    <3>2. \A d \in Conns : BoxGood(Append(inbox[d], frame), cf.off, cf.todo)
      BY <2>2, <3>1, <1>1, BoxQuiet
    <3>3. \A d \in Conns : BoxGood(inbox'[d], cf.off, cf.todo)
      BY <2>2, <3>1, <3>2 DEF InboxGets
    <3> QED BY <2>2, <3>3, <1>1 DEF Boxes, InboxGets
  <2> QED BY <2>1, <2>2 DEF QuietStep, QuietInbox
<1>5. /\ next_subscription_id \in Nat /\ next_subscription_id' \in Nat
      /\ next_subscription_id' >= next_subscription_id /\ Len(commits) \in Nat
  BY <1>0 DEF QuietStep, SocketInv, Maps, LedgerInv, Ledger, IsSeq
<1>6. Reads'
  <2>1. CASE readAt' = readAt
    BY <2>1, <1>0, <1>5 DEF Reads
  <2>2. ASSUME NEW c \in Conns, NEW t \in Tables, conn[c].at = "snapshot",
               readAt' = [readAt EXCEPT ![conn[c].sub][t] = Len(commits)]
        PROVE Reads'
    <3>1. PICK s : s = conn[c].sub
      OBVIOUS
    <3>2. s \in 1..MaxSubs /\ s < next_subscription_id
      BY <2>2, <3>1, <1>0 DEF Reading
    <3>3. /\ DOMAIN readAt' = 1..MaxSubs /\ \A i \in 1..MaxSubs : i # s => readAt'[i] = readAt[i]
          /\ readAt'[s] = [readAt[s] EXCEPT ![t] = Len(commits)]
      BY <2>2, <3>1, <3>2, <1>0 DEF Reads
    <3>4. ASSUME NEW i \in 1..MaxSubs
          PROVE /\ DOMAIN readAt'[i] = Tables
                /\ \A u \in Tables : /\ readAt'[i][u] \in Int
                                     /\ i >= next_subscription_id' => readAt'[i][u] = -1
      <4>1. CASE i # s
        BY <4>1, <3>3, <1>0, <1>5 DEF Reads
      <4>2. CASE i = s
        BY <4>2, <3>2, <3>3, <1>0, <1>5 DEF Reads
      <4> QED BY <4>1, <4>2
    <3> QED BY <3>3, <3>4 DEF Reads
  <2> QED BY <2>1, <2>2 DEF QuietStep, ReadStep
<1>7. Promised'
  <2> SUFFICES ASSUME NEW i \in DOMAIN subscriptions', NEW o \in 1..Len(feed'), Due(i, o)'
               PROVE Owed(i, o)'
    BY DEF Promised
  <2>1. o \in 1..Len(feed) /\ feed'[o] = feed[o] /\ o <= cf.off
    BY <1>1 DEF Due
  <2>2. /\ feed[o].table \in Tables /\ feed[o].n \in Nat /\ feed[o].n <= Len(commits)
    BY <2>1, <1>0, FeedEntry
  <2>3. /\ readAt'[i][feed[o].table] >= 0 /\ feed[o].n > readAt'[i][feed[o].table]
        /\ Listens(subscriptions[i].client)'
        /\ Subs!MatchesEvent(subscriptions'[i], feed[o])
    BY <2>1 DEF Due, Subs!MatchesEvent, Subs!IsCatchAll, Subs!Satisfies
  <2>4. i \in 1..MaxSubs /\ subscriptions'[i].client \in Conns
    BY DEF SocketInv, Maps, SubsGood
  <2>5. i \in DOMAIN subscriptions /\ subscriptions'[i] = subscriptions[i]
    <3>1. CASE UNCHANGED subscriptions \/ \E ids : Erased(ids)
      BY <3>1 DEF Erased
    <3>2. ASSUME NEW c \in Conns, NEW q \in Queries, Entered(next_subscription_id, c, q),
                 SubscriptionRequest(c, q)
          PROVE i \in DOMAIN subscriptions /\ subscriptions'[i] = subscriptions[i]
      <4>1. readAt' = readAt
        BY <3>2 DEF SubscriptionRequest
      <4>2. i # next_subscription_id
        <5> SUFFICES ASSUME i = next_subscription_id PROVE FALSE
          OBVIOUS
        <5>1. readAt[i][feed[o].table] = -1
          BY <2>2, <2>4, <1>0, <1>5 DEF Reads
        <5> QED BY <5>1, <4>1, <2>3
      <4> QED BY <3>2, <4>2 DEF Entered
    <3> QED BY <3>1, <3>2 DEF SubsStep
  <2>6. readAt'[i][feed[o].table] = readAt[i][feed[o].table]
    <3>1. CASE readAt' = readAt
      BY <3>1
    <3>2. ASSUME NEW c \in Conns, NEW t \in Tables, conn[c].at = "snapshot",
                 readAt' = [readAt EXCEPT ![conn[c].sub][t] = Len(commits)]
          PROVE readAt'[i][feed[o].table] = readAt[i][feed[o].table]
      <4>1. PICK s : s = conn[c].sub
        OBVIOUS
      <4>2. s \in 1..MaxSubs
        BY <3>2, <4>1, <1>0 DEF Reading
      <4>3. /\ i # s => readAt'[i] = readAt[i]
            /\ readAt'[s] = [readAt[s] EXCEPT ![t] = Len(commits)]
            /\ DOMAIN readAt[s] = Tables
        BY <3>2, <4>1, <4>2, <2>4, <1>0 DEF Reads
      <4>4. CASE i # s
        BY <4>3, <4>4
      <4>5. CASE i = s /\ t # feed[o].table
        BY <4>3, <4>5, <2>2
      <4>6. CASE i = s /\ t = feed[o].table
        <5>1. readAt'[i][feed[o].table] = Len(commits)
          BY <4>3, <4>6
        <5> QED BY <5>1, <2>2, <2>3, <1>5
      <4> QED BY <4>4, <4>5, <4>6
    <3> QED BY <3>1, <3>2 DEF QuietStep, ReadStep
  <2>7. Due(i, o)
    BY <2>1, <2>3, <2>4, <2>5, <2>6 DEF Due, Listens, QuietStep, ConnGoesOn, Away
  <2>8. Owed(i, o)
    BY <2>1, <2>5, <2>7, <1>0 DEF Promised
  <2>9. CASE Got(inbox[subscriptions[i].client], i, o)
    <3>1. Got(inbox'[subscriptions[i].client], i, o)
      BY <2>4, <2>5, <2>9, <1>0, QuietGot DEF QuietStep
    <3> QED BY <3>1, <2>5 DEF Owed, Got, IsEvent
  <2>10. CASE o = cf.off /\ \E m \in cf.todo : m.sub = i /\ m.client = subscriptions[i].client
    BY <2>10, <2>5, <1>1 DEF Owed
  <2> QED BY <2>8, <2>9, <2>10 DEF Owed
<1> QED BY <1>2, <1>3, <1>4, <1>6, <1>7 DEF StreamInv

-----------------------------------------------------------------------------
(***************************************************************************)
(* OnChangefeedEvent.                                                       *)
(***************************************************************************)
LEMMA InterestFacts ==
  ASSUME SocketInv, NEW ev
  PROVE /\ \A m \in Interest(ev) : m.client \in Conns
        /\ \A m, k \in Interest(ev) : k.sub = m.sub => k = m
        /\ \A i \in DOMAIN subscriptions : Subs!MatchesEvent(subscriptions[i], ev) =>
             \E m \in Interest(ev) : m.sub = i /\ m.client = subscriptions[i].client
<1> DEFINE notice(i) == [sub |-> i, client |-> subscriptions[i].client,
                         new |-> Subs!Projected(subscriptions[i], Subs!Serialized(ev.key, ev.new))]
<1>1. /\ \A i : notice(i).sub = i /\ notice(i).client = subscriptions[i].client
      /\ \A m : m \in Interest(ev) <=> \E i \in Subs!ProcessEvent(ev) : m = notice(i)
  BY DEF Interest
<1> HIDE DEF notice
<1>2. \A i \in Subs!ProcessEvent(ev) : i \in DOMAIN subscriptions /\ subscriptions[i].client \in Conns
  BY DEF Subs!ProcessEvent, SocketInv, Maps, SubsGood
<1>3. ASSUME NEW i \in DOMAIN subscriptions, Subs!MatchesEvent(subscriptions[i], ev)
      PROVE i \in Subs!ProcessEvent(ev)
  <2>1. CASE Subs!IsCatchAll(subscriptions[i])
    <3>1. i \in all_tables_index
      BY <2>1 DEF SocketInv, Maps, CatchAlls
    <3> QED BY <1>3, <3>1 DEF Subs!ProcessEvent, Subs!Candidates
  <2>2. CASE ~Subs!IsCatchAll(subscriptions[i])
    <3>1. subscriptions[i].query.table = ev.table /\ subscriptions[i].query.table \in Tables
      BY <1>3, <2>2 DEF Subs!MatchesEvent, SocketInv, Maps, SubsGood
    <3>2. i \in table_index[ev.table] /\ ev.table \in Tables
      BY <2>2, <3>1 DEF SocketInv, Maps, OfTable
    <3> QED BY <1>3, <3>2 DEF Subs!ProcessEvent, Subs!Candidates
  <2> QED BY <2>1, <2>2
<1> QED BY <1>1, <1>2, <1>3

\* What is left of the invariant when only OnChangefeedEvent moves.
LEMMA NotifyStream ==
  ASSUME Inv, UNCHANGED <<sqlVars, subVars, conn, readAt>>, CfGood', Aimed', Boxes',
         ASSUME NEW i \in DOMAIN subscriptions, NEW o \in 1..Len(feed),
                Listens(subscriptions[i].client), o <= cf'.off,
                readAt[i][feed[o].table] >= 0, feed[o].n > readAt[i][feed[o].table],
                Subs!MatchesEvent(subscriptions[i], feed[o])
         PROVE \/ Got(inbox'[subscriptions[i].client], i, o)
               \/ o = cf'.off /\ \E m \in cf'.todo : m.sub = i /\ m.client = subscriptions[i].client
  PROVE StreamInv'
<1>1. UNCHANGED <<feed, subscriptions, next_subscription_id, conn, readAt>>
  BY DEF sqlVars, subVars
<1>2. Reading' /\ Reads'
  BY <1>1 DEF Inv, StreamInv, Reading, Reads
<1>3. ASSUME NEW i \in DOMAIN subscriptions, NEW o \in 1..Len(feed), Due(i, o)' PROVE Owed(i, o)'
  <2>1. /\ Listens(subscriptions[i].client) /\ o <= cf'.off
        /\ readAt[i][feed[o].table] >= 0 /\ feed[o].n > readAt[i][feed[o].table]
        /\ Subs!MatchesEvent(subscriptions[i], feed[o])
    BY <1>1, <1>3 DEF Due, Listens, Subs!MatchesEvent, Subs!IsCatchAll, Subs!Satisfies
  <2>2. \/ Got(inbox'[subscriptions[i].client], i, o)
        \/ o = cf'.off /\ \E m \in cf'.todo : m.sub = i /\ m.client = subscriptions[i].client
    BY <2>1
  <2> QED BY <1>1, <2>2 DEF Owed, Got, IsEvent
<1>4. Promised'
  BY <1>1, <1>3 DEF Promised
<1> QED BY <1>2, <1>4 DEF StreamInv

LEMMA PromisedFact ==
  ASSUME Inv, NEW i \in DOMAIN subscriptions, NEW o \in 1..Len(feed), o <= cf.off,
         Listens(subscriptions[i].client),
         readAt[i][feed[o].table] >= 0, feed[o].n > readAt[i][feed[o].table],
         Subs!MatchesEvent(subscriptions[i], feed[o])
  PROVE \/ Got(inbox[subscriptions[i].client], i, o)
        \/ o = cf.off /\ \E m \in cf.todo : m.sub = i /\ m.client = subscriptions[i].client
<1>1. Due(i, o)
  BY DEF Due
<1>2. Owed(i, o)
  BY <1>1 DEF Inv, StreamInv, Promised
<1> QED BY <1>2 DEF Owed

\* A subscriber that listens is in the loop, and so registered.
LEMMA SubscriberServed ==
  ASSUME SocketInv, NEW i \in DOMAIN subscriptions, NEW c, c = subscriptions[i].client,
         Listens(c)
  PROVE /\ c \in Conns /\ conn[c].peer = "up" /\ conn[c].at \in Serving /\ conn[c].fd \in Fds
        /\ client_ids[conn[c].fd] = c /\ owner[conn[c].fd] = c
<1>1. c \in Conns /\ conn[c].at \in Serving \union {"left"}
  BY DEF SocketInv, Maps, SubsGood, Sockets, Subscribed
<1>2. conn[c].at \in Serving
  BY <1>1 DEF Listens
<1> QED BY <1>1, <1>2 DEF Listens, SocketInv, Sockets, Owned, Open, Registered

LEMMA TakeStream == ASSUME Inv, TakeEvent PROVE StreamInv'
<1>0. LedgerInv /\ SocketInv /\ CfGood /\ Boxes
  BY DEF Inv, StreamInv
<1>1. PICK todo : todo = Interest(feed[cf.off + 1])
  OBVIOUS
<1>2. /\ cf.at = "wait" /\ cf.off < Len(feed) /\ UNCHANGED <<sqlVars, subVars, conn, inbox, readAt>>
      /\ cf' = [cf EXCEPT !.off = @ + 1, !.todo = todo,
                          !.at = IF todo = {} THEN "wait" ELSE "find"]
  BY <1>1 DEF TakeEvent
<1>3. /\ DOMAIN cf' = {"at", "off", "todo", "msg", "fd"} /\ cf'.off = cf.off + 1 /\ cf'.todo = todo
      /\ cf'.at = IF todo = {} THEN "wait" ELSE "find"
  BY <1>0, <1>2 DEF CfGood
<1>4. cf.off \in Nat /\ cf.todo = {} /\ Len(feed) \in Nat /\ feed' = feed
  BY <1>0, <1>2 DEF CfGood, LedgerInv, Ledger, IsSeq, sqlVars
<1>5. /\ \A m \in todo : m.client \in Conns
      /\ \A m, k \in todo : k.sub = m.sub => k = m
      /\ \A i \in DOMAIN subscriptions : Subs!MatchesEvent(subscriptions[i], feed[cf.off + 1]) =>
           \E m \in todo : m.sub = i /\ m.client = subscriptions[i].client
  BY <1>0, <1>1, InterestFacts
<1>6. CfGood' /\ Aimed'
  BY <1>2, <1>3, <1>4, <1>5 DEF CfGood, Aimed
<1>7. Boxes'
  <2>1. \A d \in Conns : BoxGood(inbox[d], cf.off + 1, todo)
    BY <1>0, <1>4, BoxNext DEF Boxes
  <2> QED BY <1>0, <1>2, <1>3, <2>1 DEF Boxes
<1>8. ASSUME NEW i \in DOMAIN subscriptions, NEW o \in 1..Len(feed),
             Listens(subscriptions[i].client), o <= cf'.off,
             readAt[i][feed[o].table] >= 0, feed[o].n > readAt[i][feed[o].table],
             Subs!MatchesEvent(subscriptions[i], feed[o])
      PROVE \/ Got(inbox'[subscriptions[i].client], i, o)
            \/ o = cf'.off /\ \E m \in cf'.todo : m.sub = i /\ m.client = subscriptions[i].client
  <2>1. CASE o = cf.off + 1
    BY <1>3, <1>5, <1>8, <2>1
  <2>2. CASE o <= cf.off
    BY <1>2, <1>4, <1>8, <2>2, PromisedFact
  <2> QED BY <1>3, <1>4, <1>8, <2>1, <2>2
<1> QED BY <1>2, <1>6, <1>7, <1>8, NotifyStream

LEMMA FindStream == ASSUME Inv, NEW m \in cf.todo, FindSocket(m) PROVE StreamInv'
<1>0. LedgerInv /\ SocketInv /\ CfGood /\ Boxes
  BY DEF Inv, StreamInv
<1>1. /\ cf.at = "find" /\ UNCHANGED <<sqlVars, subVars, conn, inbox, readAt>> /\ feed' = feed
      /\ cf' = IF \E f \in Fds : client_ids[f] = m.client
               THEN [cf EXCEPT !.at = "send", !.msg = m,
                               !.fd = CHOOSE f \in Fds : client_ids[f] = m.client]
               ELSE [cf EXCEPT !.todo = @ \ {m}, !.at = IF cf.todo = {m} THEN "wait" ELSE "find"]
  BY DEF FindSocket, sqlVars
<1>2. cf.off \in Nat /\ m.client \in Conns
  BY <1>0 DEF CfGood
<1>3. CASE \E f \in Fds : client_ids[f] = m.client
  <2>1. PICK f : f = CHOOSE g \in Fds : client_ids[g] = m.client
    OBVIOUS
  <2>2. f \in Fds /\ client_ids[f] = m.client
    BY <1>3, <2>1
  <2>3. conn[m.client].fd = f /\ conn[m.client].at \in Serving
    BY <1>0, <1>2, <2>2 DEF SocketInv, Sockets, Registers
  <2>4. cf' = [cf EXCEPT !.at = "send", !.msg = m, !.fd = f]
    BY <1>1, <1>3, <2>1
  <2>5. /\ DOMAIN cf' = {"at", "off", "todo", "msg", "fd"} /\ cf'.off = cf.off /\ cf'.todo = cf.todo
        /\ cf'.at = "send" /\ cf'.msg = m /\ cf'.fd = f
    BY <1>0, <2>4 DEF CfGood
  <2>6. CfGood'
    BY <1>0, <1>1, <2>5 DEF CfGood
  <2>7. Aimed'
    BY <1>1, <2>3, <2>5 DEF Aimed, Serving
  <2>8. Boxes'
    BY <1>0, <1>1, <2>5 DEF Boxes
  <2>9. ASSUME NEW i \in DOMAIN subscriptions, NEW o \in 1..Len(feed),
               Listens(subscriptions[i].client), o <= cf'.off,
               readAt[i][feed[o].table] >= 0, feed[o].n > readAt[i][feed[o].table],
               Subs!MatchesEvent(subscriptions[i], feed[o])
        PROVE \/ Got(inbox'[subscriptions[i].client], i, o)
              \/ o = cf'.off /\ \E k \in cf'.todo : k.sub = i /\ k.client = subscriptions[i].client
    BY <1>1, <2>5, <2>9, PromisedFact
  <2> QED BY <1>1, <2>6, <2>7, <2>8, <2>9, NotifyStream
<1>4. CASE ~\E f \in Fds : client_ids[f] = m.client
  <2>1. cf' = [cf EXCEPT !.todo = @ \ {m}, !.at = IF cf.todo = {m} THEN "wait" ELSE "find"]
    BY <1>1, <1>4
  <2>2. /\ DOMAIN cf' = {"at", "off", "todo", "msg", "fd"} /\ cf'.off = cf.off
        /\ cf'.todo = cf.todo \ {m} /\ cf'.at = IF cf.todo = {m} THEN "wait" ELSE "find"
    BY <1>0, <2>1 DEF CfGood
  <2>3. CfGood' /\ Aimed'
    BY <1>0, <1>1, <2>2 DEF CfGood, Aimed
  <2>4. Boxes'
    <3>1. \A d \in Conns : BoxGood(inbox[d], cf.off, cf.todo \ {m})
      BY <1>0, <1>2, BoxLess DEF Boxes
    <3> QED BY <1>0, <1>1, <2>2, <3>1 DEF Boxes
  <2>5. ASSUME NEW i \in DOMAIN subscriptions, NEW o \in 1..Len(feed),
               Listens(subscriptions[i].client), o <= cf'.off,
               readAt[i][feed[o].table] >= 0, feed[o].n > readAt[i][feed[o].table],
               Subs!MatchesEvent(subscriptions[i], feed[o])
        PROVE \/ Got(inbox'[subscriptions[i].client], i, o)
              \/ o = cf'.off /\ \E k \in cf'.todo : k.sub = i /\ k.client = subscriptions[i].client
    <3>1. m.client # subscriptions[i].client
      BY <1>0, <1>4, <2>5, SubscriberServed
    <3>2. \/ Got(inbox[subscriptions[i].client], i, o)
          \/ o = cf.off /\ \E k \in cf.todo : k.sub = i /\ k.client = subscriptions[i].client
      BY <2>2, <2>5, PromisedFact
    <3> QED BY <1>1, <2>2, <3>1, <3>2
  <2> QED BY <1>1, <2>3, <2>4, <2>5, NotifyStream
<1> QED BY <1>3, <1>4

LEMMA SendStream == ASSUME Inv, SendEvent PROVE StreamInv'
<1>0. LedgerInv /\ SocketInv /\ CfGood /\ Aimed /\ Boxes
  BY DEF Inv, StreamInv
<1>1. PICK m, to : m = cf.msg /\ to = owner[cf.fd]
  OBVIOUS
<1>2. PICK frame : frame = EventFrame
  OBVIOUS
<1>3. /\ cf.at = "send" /\ UNCHANGED <<sqlVars, subVars, conn, readAt>> /\ feed' = feed
      /\ cf' = [cf EXCEPT !.todo = @ \ {m}, !.msg = Nobody, !.fd = Nobody,
                          !.at = IF cf.todo = {m} THEN "wait" ELSE "find"]
      /\ IF to = Nobody THEN UNCHANGED <<process, inbox>> ELSE HandlerSend(to, frame)
  BY <1>1, <1>2 DEF SendEvent, sqlVars
<1>4. IsEvent(frame) /\ frame.via = m.sub /\ frame.off = cf.off
  BY <1>1, <1>2 DEF IsEvent, EventFrame
<1>5. /\ m \in cf.todo /\ cf.fd = conn[m.client].fd /\ m.client \in Conns
      /\ cf.off \in Nat /\ \A k \in cf.todo : k.sub = m.sub => k = m
  BY <1>0, <1>1, <1>3 DEF CfGood, Aimed
<1>6. /\ DOMAIN cf' = {"at", "off", "todo", "msg", "fd"} /\ cf'.off = cf.off
      /\ cf'.todo = cf.todo \ {m} /\ cf'.at = IF cf.todo = {m} THEN "wait" ELSE "find"
  BY <1>0, <1>3 DEF CfGood
<1>7. CfGood' /\ Aimed'
  BY <1>0, <1>3, <1>5, <1>6 DEF CfGood, Aimed
<1>8. ASSUME NEW d \in Conns
      PROVE /\ IsSeq(inbox[d]) /\ BoxGood(inbox[d], cf.off, cf.todo \ {m})
            /\ BoxGood(Append(inbox[d], frame), cf.off, cf.todo \ {m})
  <2>1. BoxGood(inbox[d], cf.off, cf.todo)
    BY <1>0 DEF Boxes
  <2>2. BoxGood(inbox[d], cf.off, cf.todo \ {m})
    BY <2>1, <1>5, BoxLess
  <2>3. BoxGood(Append(inbox[d], frame), cf.off, cf.todo \ {m})
    BY <2>1, <1>4, <1>5, BoxEvent
  <2> QED BY <2>1, <2>2, <2>3 DEF BoxGood
<1>9. inbox' = inbox \/ InboxGets(to, frame)
  BY <1>0, <1>3, SendGets DEF Boxes
<1>10. Boxes'
  <2>1. CASE inbox' = inbox
    BY <2>1, <1>0, <1>6, <1>8 DEF Boxes
  <2>2. CASE InboxGets(to, frame)
    BY <2>2, <1>6, <1>8 DEF Boxes, InboxGets
  <2> QED BY <2>1, <2>2, <1>9
<1>11. ASSUME NEW i \in DOMAIN subscriptions, NEW o \in 1..Len(feed),
              Listens(subscriptions[i].client), o <= cf'.off,
              readAt[i][feed[o].table] >= 0, feed[o].n > readAt[i][feed[o].table],
              Subs!MatchesEvent(subscriptions[i], feed[o])
       PROVE \/ Got(inbox'[subscriptions[i].client], i, o)
             \/ o = cf'.off /\ \E k \in cf'.todo : k.sub = i /\ k.client = subscriptions[i].client
  <2>0. PICK c : c = subscriptions[i].client
    OBVIOUS
  <2>1. /\ c \in Conns /\ conn[c].peer = "up" /\ owner[conn[c].fd] = c
    BY <1>0, <1>11, <2>0, SubscriberServed
  <2>2. \/ Got(inbox[c], i, o)
        \/ o = cf.off /\ \E k \in cf.todo : k.sub = i /\ k.client = c
    BY <1>6, <1>11, <2>0, PromisedFact
  <2>3. CASE Got(inbox[c], i, o)
    <3>1. Got(Append(inbox[c], frame), i, o)
      BY <1>8, <2>1, <2>3, GotAppend
    <3> QED BY <1>9, <2>0, <2>1, <2>3, <3>1 DEF InboxGets
  <2>4. ASSUME o = cf.off, NEW k \in cf.todo, k.sub = i, k.client = c, k # m
        PROVE o = cf'.off /\ \E j \in cf'.todo : j.sub = i /\ j.client = subscriptions[i].client
    BY <1>6, <2>0, <2>4
  <2>5. CASE o = cf.off /\ m.sub = i /\ m.client = c
    <3>1. to = c /\ to # Nobody
      BY <1>1, <1>5, <2>1, <2>5, SessionConstants
    <3>2. HandlerSend(c, frame) /\ conn[c].peer = "up"
      BY <1>3, <2>1, <3>1
    <3>3. inbox'[c] = Append(inbox[c], frame)
      BY <1>0, <2>1, <3>2 DEF HandlerSend, Arrives, Boxes
    <3>4. Got(Append(inbox[c], frame), i, o)
      BY <1>4, <1>8, <2>1, <2>5, GotAppend
    <3> QED BY <2>0, <3>3, <3>4
  <2> QED BY <2>2, <2>3, <2>4, <2>5
<1> QED BY <1>3, <1>7, <1>10, <1>11, NotifyStream

LEMMA StreamStart == ASSUME Init PROVE StreamInv
<1>1. /\ cf = NoEvent /\ feed = <<>> /\ inbox = [c \in Conns |-> <<>>] /\ subscriptions = <<>>
      /\ conn = [c \in Conns |-> NoConn]
      /\ readAt = [i \in 1..MaxSubs |-> [t \in Tables |-> -1]]
  BY DEF Init, SqlInit, Subs!SubInit
<1>2. CfGood /\ Aimed
  BY <1>1, EmptyIsSeq DEF CfGood, Aimed, NoEvent
<1>3. Boxes
  BY <1>1, EmptyIsSeq DEF Boxes, BoxGood
<1>4. Reading /\ Reads
  BY <1>1 DEF Reading, Reads, NoConn
<1>5. Promised
  BY <1>1 DEF Promised
<1> QED BY <1>2, <1>3, <1>4, <1>5 DEF StreamInv

LEMMA InvNext == ASSUME Inv, [Next]_vars PROVE Inv'
<1>1. LedgerStep /\ LedgerInv'
  BY NextLedger, LedgerInvStep DEF Inv
<1>2. SocketInv' /\ SubsStep
  BY NextSockets DEF Inv, LedgerInv
<1>3. CASE QuietStep /\ Reading'
  BY <1>1, <1>2, <1>3, QuietStream DEF Inv
<1>4. CASE Notify
  <2>1. StreamInv'
    BY <1>4, TakeStream, FindStream, SendStream DEF Notify
  <2> QED BY <1>1, <1>2, <2>1 DEF Inv
<1> QED BY <1>3, <1>4, NextQuiet

LEMMA InvHolds == Spec => []Inv
<1>1. Init => Inv
  BY LedgerStart, SocketStart, StreamStart DEF Inv
<1>2. Inv /\ [Next]_vars => Inv'
  BY InvNext
<1> QED BY <1>1, <1>2, PTL DEF Spec

\* Events arrive in offset order at whichever connection the descriptor denotes
\* when they are sent, and an offset once for each subscription they are sent for.
THEOREM EventsArriveInOrder == Spec => []EventsInOrder
<1>1. ASSUME Inv PROVE EventsInOrder
  <2> SUFFICES ASSUME NEW c \in Conns, NEW a \in 1..Len(inbox[c]), NEW b \in 1..Len(inbox[c]),
                      a < b, inbox[c][a].type = "event", inbox[c][b].type = "event"
               PROVE /\ inbox[c][a].off <= inbox[c][b].off
                     /\ inbox[c][a].via = inbox[c][b].via => inbox[c][a].off < inbox[c][b].off
    BY DEF EventsInOrder
  <2>1. BoxGood(inbox[c], cf.off, cf.todo)
    BY <1>1 DEF Inv, StreamInv, Boxes
  <2> QED BY <2>1 DEF BoxGood, IsEvent
<1> QED BY <1>1, InvHolds, PTL

\* A change that was committed after a subscription's table was read for its
\* initial state, and that the subscription matches, has arrived at its client
\* once OnChangefeedEvent is through with it, as long as the client is there and not being
\* disconnected.
THEOREM NothingBetweenSnapshotAndStream == Spec => []NoMissedChange
<1>1. ASSUME Inv PROVE NoMissedChange
  <2> SUFFICES ASSUME NEW i \in DOMAIN subscriptions, NEW o \in 1..Len(feed),
                      Listens(subscriptions[i].client), Handled(o),
                      readAt[i][feed[o].table] >= 0, feed[o].n > readAt[i][feed[o].table],
                      Subs!MatchesEvent(subscriptions[i], feed[o])
               PROVE \E a \in EventFrames(subscriptions[i].client, i) :
                       inbox[subscriptions[i].client][a].off = o
    BY DEF NoMissedChange
  <2>1. /\ o <= cf.off /\ ~(o = cf.off /\ \E m \in cf.todo : TRUE)
    BY <1>1 DEF Handled, Inv, StreamInv, CfGood
  <2>2. Got(inbox[subscriptions[i].client], i, o)
    BY <1>1, <2>1, PromisedFact
  <2> QED BY <2>2 DEF Got, EventFrames, IsEvent
<1> QED BY <1>1, InvHolds, PTL

=============================================================================
