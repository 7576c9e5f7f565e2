------------------------------ MODULE MCTunnel ------------------------------
(* Tunnel for TLC: one shard per map, ids are spread over them.  *)
EXTENDS Tunnel, TLC

CONSTANTS u1, u2, k1, s1, s2, v1, v2

OneUser == {u1}
OneKicker == {k1}
TwoStreams == {s1, s2}
TwoVersions == {v1, v2}
OneVersion == {v1}
TcpOnly == {"tcp"}
TcpAndUotV2 == {"tcp", "uot_v2"}
MCUserShard == [u \in Users |-> 1]
MCConnShard == [id \in ConnIds |-> 1 + (id % NumShards)]

\* Every stream is over and every change of the user list has been applied.
Quiescent ==
    /\ \A s \in Streams : pc[s] = "done"
    /\ CallbackIdle
    /\ diffs = MaxDiffs
    /\ UNCHANGED vars

MCNext == Next \/ Quiescent
MCSpec == Init /\ [][MCNext]_vars
MCFairSpec == Init /\ [][MCNext]_vars /\ Fairness
=============================================================================
