-------------------------- MODULE MCStorageEngine --------------------------
EXTENDS StorageEngine

CONSTANTS m, c1, c2, t1, k1, k2, v1, v2

Ins(k, v) == [op |-> "INSERT", table |-> t1, key |-> k, val |-> v]
Upd(k, v) == [op |-> "UPDATE", table |-> t1, key |-> k, val |-> v]
Del(k) == [op |-> "DELETE", table |-> t1, key |-> k, val |-> Absent]

\* The second key is there to tell a prefix of the commits from a mixture.
MCWrites == {Ins(k1, v1), Del(k1), Ins(k2, v1)}
MCOneKey == {Ins(k1, v1), Upd(k1, v2), Del(k1)}
MCInserts == {Ins(k1, v1), Ins(k1, v2)}

Load(writes, maxWrites, maxCheckpoints, maxCrashes) ==
  [writes |-> writes, maxWrites |-> maxWrites, maxCheckpoints |-> maxCheckpoints,
   maxCrashes |-> maxCrashes]

\* One-row commits with a checkpoint and a crash, or transactions of two writes.
MCCrashOrTxn == {Load(MCWrites, 1, 1, 1), Load(MCOneKey, 2, 0, 0)}
MCOneOfEach == {Load(MCInserts, 1, 1, 1)}
MCOneCrash == {Load(MCInserts, 1, 0, 1)}
MCTwoCrashes == {Load(MCInserts, 1, 0, 2)}
MCCommitsOnly == {Load(MCWrites, 1, 0, 0)}
=============================================================================
