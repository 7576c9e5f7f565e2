------------------------ MODULE MCConnectionManager ------------------------
(* ConnectionManager for TLC: two users in different shards, and ids spread *)
(* over the two shards of connections.                                      *)
EXTENDS ConnectionManager, TLC

CONSTANTS u1, u2, k1

MCUsers == {u1, u2}
MCKickers == {k1}
MCUserShard == u1 :> 1 @@ u2 :> 2
MCConnShard == [id \in ConnIds |-> 1 + (id % NumShards)]

\* Every id has been handed out and unregistered, and the sweep is over.
Quiescent ==
    /\ \A id \in ConnIds : phase[id] = "gone"
    /\ SweepDone
    /\ UNCHANGED cmVars

MCNext == CMNext \/ Quiescent
MCSpec == CMInit /\ [][MCNext]_cmVars
=============================================================================
