------------------------------ MODULE MCProcess ------------------------------
(* Process for TLC: one user and two connection ids in two shards behind    *)
(* pingora; machines on which each cap is the least, and caps of zero, and  *)
(* products that saturate, in front of the accept loop; command lines with  *)
(* an option off its default.                                               *)
EXTENDS Process, TLC

CONSTANTS u1, k1

MCUsers == {u1}
MCKickers == {k1}
MCUserShard == u1 :> 1
MCConnShard == [id \in ConnIds |-> 1 + (id % NumShards)]

MCCpus == {0, 3}
MCMemKb == {0, 7, 14}
MCNofile == {0, 4, 9}

Given(o, vs) == { [CliArgs EXCEPT ![o] = v] : v \in vs }
MCCommandLines ==
    {CliArgs}
    \cup { [CliArgs EXCEPT !.durations[o] = v] : o \in {"heartbeat_interval", "conn_idle_timeout"},
             v \in {Text("humantime", 500), Text("integer", 2), Text("integer", 0), Text("word", 0)} }
    \cup Given("max_connections", { Text("integer", n) : n \in 0..2 } \cup {Text("word", 0)})
    \cup Given("api", {""}) \cup Given("node", {0})
    \cup Given("cert_file", {""}) \cup Given("key_file", {""})
    \cup Given("log_mode", {"debug", "loud"}) \cup Given("panel_ip_version", {"auto", "v5"})
    \cup Given("acl_conf_file", {"yaml", "txt"})

\* Tunnels and clients come to the server that was started with intact files and
\* has its signal handlers; the tunnels to pingora and without options, the clients
\* to the accept loop.
Usual ==
    /\ broken = NoFile /\ signals = "ready"
    /\ network = "tcp" => cli = CliArgs
    /\ network = "udp" => \A o \in DOMAIN cli \ {"max_connections"} : cli[o] = CliArgs[o]

Bounded ==
    /\ network = "tcp" => nofile_soft' \in {nofile_soft, 4}
    /\ (network # "tcp" \/ ~Usual) => UNCHANGED <<next_conn_id, kicking>>
    /\ ~Usual => UNCHANGED conn

Exited == main = "exited" /\ UNCHANGED vars

MCSpec == Init /\ [][(Next /\ Bounded) \/ Exited]_vars
MCFairSpec == MCSpec /\ Fairness
=============================================================================
