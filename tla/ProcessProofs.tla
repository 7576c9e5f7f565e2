---------------------------- MODULE ProcessProofs -----------------------------
(* Proofs about Process, for every command line, machine, set of clients and  *)
(* registry.                                                                 *)
EXTENDS Process, ConnectionManagerProofs, FiniteSetTheorems, TLAPS

\* What validate has established for the steps that follow it.
Checked ==
    /\ \A o \in Intervals : parse_duration(cli.durations[o]) > 0
    /\ cli.acl_conf_file # "none" => yaml(cli)

\* Until initialize the panel knows nothing; the arguments were looked at before
\* that; unregister comes before the last step.
NodeInv ==
    /\ main \in {"parsing", "validating", "api", "config", "initialize"} => node = "absent"
    /\ main \in Starting \ {"parsing", "validating"} => Checked
    /\ main = "stopping" => asked
    /\ NodeLeftUnasked
    /\ ArgumentsFailFirst

\* A process that has just started has asked for no node.
LEMMA NodeInit == Init => NodeInv
  BY Zenon DEF Init, StartInit, LifeInit, NodeInv, Starting, NodeLeftUnasked, ArgumentsFailFirst

\* Start-up.
LEMMA StartKeepsNode ==
    ASSUME NodeInv, StartStep, UNCHANGED asked
    PROVE  NodeInv'
<1> USE DEF NodeInv, NodeLeftUnasked, ArgumentsFailFirst, Starting, Goto, End, Try, startVars
<1>1. CASE ParseArgs
  BY <1>1, Zenon DEF ParseArgs
<1>2. CASE Validate
  BY <1>2, Zenon DEF Validate, validate, Checked, yaml
<1>3. CASE NewApi
  BY <1>3, Zenon DEF NewApi, Checked, yaml
<1>4. CASE FetchConfig
  BY <1>4, Zenon DEF FetchConfig, Checked, yaml
<1>5. CASE Initialize
  BY <1>5, Zenon DEF Initialize, Checked, yaml
<1>6. CASE FetchUsers
  BY <1>6, Zenon DEF FetchUsers, Checked, yaml
<1>7. CASE BuildRouter
  BY <1>7, Zenon DEF BuildRouter, Checked, yaml
<1>8. CASE Build
  BY <1>8, Zenon DEF Build, Checked
<1> QED
  BY <1>1, <1>2, <1>3, <1>4, <1>5, <1>6, <1>7, <1>8, Zenon DEF StartStep

\* A step that leaves the start-up variables alone keeps the invariant.
LEMMA NodeUntouched ==
    ASSUME NodeInv, UNCHANGED <<cli, broken, main, why, node, asked>>
    PROVE  NodeInv'
  BY Zenon DEF NodeInv, NodeLeftUnasked, ArgumentsFailFirst, Starting, Checked, yaml, State

\* A step of main after start-up, or a signal.
LEMMA MainKeepsNode ==
    ASSUME NodeInv,
           \/ MainStep \/ SelectReturns \/ KilledLate \/ Aborted
           \/ (FileChanges \/ KilledEarly) /\ UNCHANGED asked
    PROVE  NodeInv'
<1> USE DEF NodeInv, NodeLeftUnasked, ArgumentsFailFirst, Starting, Goto, End, outside, startVars
<1>1. CASE Sweep \/ CountShard
  BY <1>1, NodeUntouched, Zenon DEF Sweep, CountShard, mainVars
<1>2. CASE CancelToken \/ SweepReturns \/ CountReturns \/ DrainSleep \/ SelectReturns
  BY <1>2, Zenon DEF CancelToken, SweepReturns, CountReturns, DrainSleep, SelectReturns
<1>3. CASE AwaitSignalTask
  BY <1>3, Zenon DEF AwaitSignalTask
<1>4. CASE Unregister
  BY <1>4, Zenon DEF Unregister
<1>5. CASE StopBackground
  BY <1>5, Zenon DEF StopBackground
<1>6. CASE KilledLate \/ Aborted
  BY <1>6, Zenon DEF KilledLate, Aborted, Running
<1>7. CASE FileChanges /\ UNCHANGED asked
  BY <1>7, Zenon DEF FileChanges, Checked, yaml
<1>8. CASE KilledEarly /\ UNCHANGED asked
  BY <1>8, Zenon DEF KilledEarly
<1> QED
  BY <1>1, <1>2, <1>3, <1>4, <1>5, <1>6, <1>7, <1>8, Zenon DEF MainStep

\* Every step keeps the registration invariant.
LEMMA NodeStep == NodeInv /\ [Next]_vars => NodeInv'
<1> SUFFICES ASSUME NodeInv, [Next]_vars PROVE NodeInv'
  BY Zenon
<1>1. CASE Starts
  BY <1>1, StartKeepsNode, Zenon DEF Starts
<1>2. CASE MainStep \/ SelectReturns \/ KilledLate \/ Aborted
  BY <1>2, MainKeepsNode, Zenon
<1>3. CASE Environment
  BY <1>3, MainKeepsNode, Zenon DEF Environment
<1>4. CASE \/ BackendStarts \/ BackendReturns \/ BackendGrace
           \/ InstallHandlers \/ Signal \/ DrainDeadline
  BY <1>4, NodeUntouched, Zenon
      DEF BackendStarts, BackendReturns, BackendGrace, InstallHandlers, Signal,
                             DrainDeadline, outside, startVars
<1>5. CASE Tasks \/ UserSync \/ UNCHANGED <<startVars, mainVars>>
  BY <1>5, NodeUntouched, Zenon DEF Tasks, UserSync, startVars, mainVars
<1>6. CASE UNCHANGED vars
  BY <1>6, <1>5, Zenon DEF vars
<1> QED
  BY <1>1, <1>2, <1>3, <1>4, <1>5, <1>6, Zenon
     DEF Next, Main, Accepting, ServerStarts, ServerReturns, ServerDropped

\* Whatever the command line, the files, the panel and the signals do, a node that
\* is left registered without asking the panel to unregister it was left so by a
\* failure between initialize and the server, without signal handlers, or by a panic
\* (main.rs:135-153, 263-309).
THEOREM NodeIsUnregistered == Spec => []NodeLeftUnasked
<1>1. NodeInv => NodeLeftUnasked
  BY Zenon DEF NodeInv
<1> QED
  BY <1>1, NodeInit, NodeStep, PTL DEF Spec

\* No command line gets a node registered and then fails start-up by itself
\* (config.rs:202-263).
THEOREM ArgumentsAreFirst == Spec => []ArgumentsFailFirst
<1>1. NodeInv => ArgumentsFailFirst
  BY Zenon DEF NodeInv
<1> QED
  BY <1>1, NodeInit, NodeStep, PTL DEF Spec

-----------------------------------------------------------------------------
(* The limit on connections                                                 *)

\* A quotient does not exceed its dividend.
LEMMA Quotient ==
    ASSUME NEW x \in Nat, NEW k \in Nat \ {0}
    PROVE  x \div k \in Nat /\ k * (x \div k) <= x
  OBVIOUS

\* The reserve of descriptors fits under the limit.
LEMMA ReserveFits ==
    ASSUME NEW nofile \in Nat
    PROVE  FdReserve(nofile) \in Nat /\ FdReserve(nofile) <= nofile
<1>1. nofile \div 4 \in Nat /\ nofile \div 4 <= nofile
  OBVIOUS
<1> QED
  BY <1>1, AutoTuneAssumption DEF FdReserve, Least

\* A saturating product is a natural number.
LEMMA Saturates ==
    ASSUME NEW a \in Nat, NEW b \in Nat
    PROVE  saturating_mul(a, b) \in Nat
<1>1. a * b \in Nat /\ MaxU64 \in Nat
  BY AutoTuneAssumption
<1> QED
  BY <1>1, Zenon DEF saturating_mul, Least

\* The automatic limit is one, or leaves the reserve of files free.
LEMMA AutoFits ==
    ASSUME NEW cpus \in Nat, NEW mem \in Nat, NEW nofile \in Nat
    PROVE  /\ compute_auto(cpus, mem, nofile) \in Nat \ {0}
           /\ \/ compute_auto(cpus, mem, nofile) = 1
              \/ compute_auto(cpus, mem, nofile) <= FdCap(nofile)
           /\ FdCap(nofile) \in Nat
           /\ FD_PER_SESSION * FdCap(nofile) + FdReserve(nofile) <= nofile
<1>1. CpuCap(cpus) \in Nat
  <2>1. Greatest(cpus, 1) \in Nat
    BY Zenon DEF Greatest
  <2>2. saturating_mul(saturating_mul(Greatest(cpus, 1), PER_CORE_MBPS), Kilo) \in Nat
    BY <2>1, Saturates, AutoTuneAssumption, Zenon
  <2> QED
    BY <2>2, Quotient, AutoTuneAssumption, Zenon DEF CpuCap
<1>2. MemCap(mem) \in Nat
  <2>1. saturating_mul(mem, MEM_BUDGET_PCT) \div Cent \in Nat
    BY Saturates, Quotient, AutoTuneAssumption, Zenon
  <2> QED
    BY <2>1, Quotient, AutoTuneAssumption, Zenon DEF MemCap
<1>3. FdCap(nofile) \in Nat /\ FD_PER_SESSION * FdCap(nofile) + FdReserve(nofile) <= nofile
  <2> DEFINE free == nofile - FdReserve(nofile)
  <2>1. free \in Nat /\ saturating_sub(nofile, FdReserve(nofile)) = free
    BY ReserveFits DEF saturating_sub, Greatest
  <2>2. FdCap(nofile) \in Nat /\ FD_PER_SESSION * FdCap(nofile) <= free
    BY <2>1, Quotient, AutoTuneAssumption, Zenon DEF FdCap
  <2>3. FD_PER_SESSION * FdCap(nofile) \in Nat
    BY <2>2, AutoTuneAssumption
  <2> QED
    BY <2>2, <2>3, ReserveFits
<1> QED
  BY <1>1, <1>2, <1>3 DEF compute_auto, Greatest, Least

Automatic == max_connections_from_str(cli.max_connections) = 0

\* What Build leaves behind.
Sized ==
    /\ max_connections \in Nat \ {0} /\ nofile_soft \in Nat
    /\ Automatic => max_connections = 1 \/ max_connections <= FdCap(nofile_soft)

\* The limit is there before the first connection and does not change after it; a
\* permit is free or held by a served connection.
PermitInv ==
    /\ cli \in CommandLines
    /\ main \in Starting \ {"parsing"} => parse_args(cli)
    /\ main \in Starting \/ backend = "starting" => loop = "off"
    /\ main = "serving" \/ loop # "off" => Sized
    /\ conn \in [Conns -> {"away", "queued", "accepted", "served", "closed"}]
    /\ loop = "off" => ~listener /\ Served = {}
    /\ loop # "off" => permits \in Nat /\ permits + Cardinality(Served) = max_connections

\* Before the accept loop runs no permit is out.
LEMMA PermitInit == Init => PermitInv
  BY Zenon DEF Init, StartInit, AcceptInit, PermitInv, Starting, Served

\* The steps of start-up: the last one sizes the limit.
LEMMA StartKeepsPermits ==
    ASSUME PermitInv, StartStep, UNCHANGED acceptVars
    PROVE  PermitInv'
<1>1. main \in Starting /\ loop = "off" /\ cli' = cli /\ cli \in CommandLines
  BY Zenon
      DEF StartStep, ParseArgs, Validate, NewApi, FetchConfig, Initialize, FetchUsers, BuildRouter,
         Build, Try, Goto, End, startVars, Starting, PermitInv
<1>2. /\ conn \in [Conns -> {"away", "queued", "accepted", "served", "closed"}]
      /\ Served' = {} /\ ~listener' /\ loop' = "off" /\ conn' = conn
  BY <1>1, Zenon DEF PermitInv, acceptVars, Served
<1>3. main' \in Starting \ {"parsing"} => parse_args(cli)
  BY Zenon
      DEF StartStep, ParseArgs, Validate, NewApi, FetchConfig, Initialize, FetchUsers, BuildRouter,
         Build, Try, Goto, End, Starting, PermitInv
<1>4. main' = "serving" => Build
  BY <1>1, Zenon DEF StartStep, ParseArgs, Validate, NewApi, FetchConfig, Initialize, FetchUsers,
              BuildRouter, Try, Goto, End, Starting
<1>5. ASSUME Build PROVE Sized'
  <2> DEFINE spec == max_connections_from_str(cli.max_connections)
  <2>1. spec \in Nat
    <3>1. parse_args(cli)
      BY <1>5, Zenon DEF Build, PermitInv, Starting
    <3>2. cli.max_connections \in [form : {"auto", "integer", "word"}, value : Nat]
      BY <1>1, StartupAssumption, Zenon
    <3> QED
      BY <3>1, <3>2, Zenon DEF parse_args, max_connections_from_str, Invalid
  <2>2. PICK cpus \in Cpus, mem \in MemKb :
            /\ nofile_soft' \in Nofile
            /\ max_connections' = Resolved(spec, compute_auto(cpus, mem, nofile_soft'))
    BY <1>5, Zenon DEF Build
  <2>3. cpus \in Nat /\ mem \in Nat /\ nofile_soft' \in Nat
    BY <2>2, StartupAssumption, AutoTuneAssumption
  <2> DEFINE auto == compute_auto(cpus, mem, nofile_soft')
  <2>4. auto \in Nat \ {0} /\ (auto = 1 \/ auto <= FdCap(nofile_soft'))
    BY <2>3, AutoFits, Zenon
  <2>5. max_connections' = IF spec = 0 THEN auto ELSE spec
    BY <2>2, Zenon DEF Resolved
  <2> HIDE DEF spec, auto
  <2>6. max_connections' \in Nat \ {0}
    BY <2>1, <2>4, <2>5, Zenon
  <2>7. Automatic' => spec = 0
    BY <1>1, Zenon DEF Automatic, spec
  <2> QED
    BY <2>3, <2>4, <2>5, <2>6, <2>7, Zenon DEF Sized
<1> QED
  BY <1>1, <1>2, <1>3, <1>4, <1>5, Zenon DEF PermitInv

\* A step that leaves the command line and the limit alone, and does not go back to
\* start-up.
Later ==
    /\ UNCHANGED <<cli, nofile_soft, max_connections>>
    /\ main' \in Starting => main' = main
    /\ main' = "serving" => main = "serving"
    /\ backend' = "starting" => backend = "starting"

\* The limit stays sized while its inputs stay.
LEMMA SizedStays == ASSUME Sized, UNCHANGED <<cli, nofile_soft, max_connections>> PROVE Sized'
  BY Zenon DEF Sized, Automatic

\* A step that does not touch the accept loop keeps the permits.
LEMMA OthersKeepPermits == ASSUME PermitInv, Later, UNCHANGED acceptVars PROVE PermitInv'
<1>1. main' = "serving" \/ loop' # "off" => Sized'
  BY SizedStays, Zenon DEF PermitInv, Later, acceptVars
<1> QED
  BY <1>1, Zenon DEF PermitInv, Later, acceptVars, Served

\* What a step does to the connections that are served.
LEMMA ServedCounts ==
    ASSUME PermitInv
    PROVE  /\ IsFiniteSet(Served) /\ Cardinality(Served) \in Nat
           /\ \A c \in Conns : /\ Cardinality(Served \ {c}) =
                                    IF c \in Served THEN Cardinality(Served) - 1 ELSE Cardinality(Served)
                               /\ Cardinality(Served \cup {c}) =
                                    IF c \in Served THEN Cardinality(Served) ELSE Cardinality(Served) + 1
<1>1. Served \in SUBSET Conns
  BY Zenon DEF Served
<1>2. IsFiniteSet(Served)
  BY <1>1, AcceptAssumption, FS_Subset, Zenon
<1> QED
  BY <1>2, FS_CardinalityType, FS_AddElement, FS_RemoveElement, Zenon

\* A step of the loop or of a client.
LEMMA AcceptKeepsPermits ==
    ASSUME PermitInv, Later, main' = main, main \notin Starting, backend' = backend,
           NEW c \in Conns,
           \/ AcceptNext(c) \/ AcceptError(c) \/ AcquirePermit(c)
           \/ Arrives(c) \/ Headers(c) \/ RequestEnds(c) \/ ConnectionEnds(c)
    PROVE  PermitInv'
<1> DEFINE States == {"away", "queued", "accepted", "served", "closed"}
<1>1. conn \in [Conns -> States]
  BY Zenon DEF PermitInv
<1>2. loop # "off" => Sized /\ Sized' /\ max_connections \in Nat \ {0} /\ Limited
  BY SizedStays DEF PermitInv, Later, Sized, Limited
<1>3. main' = "serving" => Sized'
  BY SizedStays, Zenon DEF PermitInv, Later
<1>4. loop = "off" => ~listener /\ conn[c] # "served"
  BY Zenon DEF PermitInv, Served
<1>a. backend = "starting" => loop' = "off"
  BY <1>4, Zenon
      DEF PermitInv, AcceptNext, AcceptError, AcquirePermit, Arrives, Headers, RequestEnds,
              ConnectionEnds
<1>5. CASE AcceptNext(c) \/ AcceptError(c) \/ Arrives(c) \/ Headers(c) \/ RequestEnds(c)
  <2>1. loop' # "off" <=> loop # "off"
    BY <1>5, <1>4, Zenon DEF AcceptNext, AcceptError, Arrives, Headers, RequestEnds
  <2>2. conn' \in [Conns -> States] /\ UNCHANGED <<permits, listener>>
    BY <1>5, <1>1, Zenon DEF AcceptNext, AcceptError, Arrives, Headers, RequestEnds
  <2>3. Served' = Served
    <3>1. CASE Headers(c) \/ RequestEnds(c)
      BY <3>1, Zenon DEF Headers, RequestEnds, Served
    <3>2. CASE AcceptNext(c)
      BY <3>2, <1>1, <1>2, Zenon DEF AcceptNext, Served
    <3>3. CASE AcceptError(c) \/ Arrives(c)
      BY <3>3, <1>1, Zenon DEF AcceptError, Arrives, Served
    <3> QED
      BY <1>5, <3>1, <3>2, <3>3, Zenon
  <2> QED
    BY <1>2, <1>3, <1>a, <2>1, <2>2, <2>3, Zenon DEF PermitInv, Later
<1>6. CASE AcquirePermit(c)
  <2>1. loop # "off" /\ loop' # "off" /\ permits \in Nat /\ permits > 0 /\ permits' = permits - 1
    BY <1>6, Zenon DEF AcquirePermit, PermitInv
  <2>2. conn' \in [Conns -> States] /\ Served' = Served \cup {c} /\ c \notin Served
    BY <1>6, <1>1, Zenon DEF AcquirePermit, Served
  <2>3. Cardinality(Served') = Cardinality(Served) + 1 /\ Cardinality(Served) \in Nat
    BY <2>2, ServedCounts, Zenon
  <2>4. permits' \in Nat /\ permits' + Cardinality(Served') = max_connections
    BY <2>1, <2>3, <1>2 DEF PermitInv
  <2> QED
    BY <1>2, <1>3, <1>a, <2>1, <2>2, <2>4, Zenon DEF PermitInv, Later
<1>7. CASE ConnectionEnds(c)
  <2>1. loop # "off" /\ loop' = loop /\ permits \in Nat /\ permits' = permits + 1
    BY <1>2, <1>4, <1>7, Zenon DEF ConnectionEnds, PermitInv
  <2>2. conn' \in [Conns -> States] /\ Served' = Served \ {c} /\ c \in Served
    BY <1>7, <1>1, Zenon DEF ConnectionEnds, Served
  <2>3. Cardinality(Served') = Cardinality(Served) - 1 /\ Cardinality(Served) \in Nat
    BY <2>2, ServedCounts, Zenon
  <2>4. permits' \in Nat /\ permits' + Cardinality(Served') = max_connections
    BY <2>1, <2>3, <1>2 DEF PermitInv
  <2> QED
    BY <1>2, <1>3, <1>a, <2>1, <2>2, <2>4, Zenon DEF PermitInv, Later
<1> QED
  BY <1>5, <1>6, <1>7, Zenon

\* The server future: the loop begins with every permit free, and ends with the
\* connections it has handed out still served.
LEMMA ServerKeepsPermits ==
    ASSUME PermitInv, ServerStarts \/ ServerReturns \/ ServerDropped
    PROVE  PermitInv'
<1>1. Later
  BY Zenon
      DEF ServerStarts, BackendStarts, ServerReturns, BackendReturns, ServerDropped, SelectReturns,
         Goto, Later, Starting, outside, startVars
<1>2. CASE UNCHANGED acceptVars
  BY <1>1, <1>2, OthersKeepPermits, Zenon
<1>3. ASSUME Listen, BackendStarts, backend' = "serving" PROVE PermitInv'
  <2>1. main = "serving" /\ main' = "serving" /\ main' \notin Starting /\ loop = "off"
    BY <1>3, Zenon DEF BackendStarts, PermitInv, Starting
  <2>2. Sized /\ Sized' /\ max_connections \in Nat
    BY <2>1, <1>1, SizedStays, Zenon DEF PermitInv, Later, Sized
  <2>3. Served = {} /\ Served' = {} /\ Cardinality({}) = 0
    BY <2>1, <1>3, FS_EmptySet, Zenon DEF PermitInv, Listen, Served
  <2> QED
    BY <2>1, <2>2, <2>3, <1>1, <1>3 DEF PermitInv, Later, Listen
<1>4. ASSUME ListenerCloses \/ DropServer, main \notin Starting, main' \notin Starting,
             loop # "off", backend' # "starting"
      PROVE  PermitInv'
  <2>1. loop' = "ended" /\ permits' = permits
    BY <1>4, Zenon DEF ListenerCloses, DropServer
  <2>2. conn' \in [Conns -> {"away", "queued", "accepted", "served", "closed"}] /\ Served' = Served
    BY <1>4, Zenon DEF PermitInv, ListenerCloses, DropServer, Served
  <2>3. Sized'
    BY <1>1, <1>4, SizedStays, Zenon DEF PermitInv, Later
  <2> QED
    BY <2>1, <2>2, <2>3, <1>1, <1>4, Zenon DEF PermitInv, Later
<1>5. CASE ServerStarts
  BY <1>2, <1>3, <1>5, Zenon DEF ServerStarts
<1>6. CASE ServerReturns
  <2>1. ListenerCloses => loop # "off" /\ main \notin Starting
    BY Zenon DEF ListenerCloses, PermitInv
  <2> QED
    BY <2>1, <1>2, <1>4, <1>6, Zenon DEF ServerReturns, BackendReturns
<1>7. CASE ServerDropped
  <2>1. main \notin Starting /\ main' \notin Starting /\ backend' = backend
    BY <1>7, Zenon DEF ServerDropped, SelectReturns, Goto, Starting
  <2>2. loop # "off" => backend # "starting"
    BY Zenon DEF PermitInv
  <2> QED
    BY <2>1, <2>2, <1>2, <1>4, <1>7, Zenon DEF ServerDropped
<1> QED
  BY <1>5, <1>6, <1>7, Zenon

\* Every step keeps the permits accounted for.
LEMMA PermitStep == PermitInv /\ [Next]_vars => PermitInv'
<1> SUFFICES ASSUME PermitInv, [Next]_vars PROVE PermitInv'
  BY Zenon
<1>1. CASE Starts /\ UNCHANGED acceptVars
  BY <1>1, StartKeepsPermits, Zenon DEF Starts
<1>2. CASE ServerStarts \/ ServerReturns \/ ServerDropped
  BY <1>2, ServerKeepsPermits, Zenon
<1>3. CASE Running /\ (Loop \/ Clients) /\ UNCHANGED <<cmVars, startVars, mainVars>>
  <2>1. Later /\ main' = main /\ main \notin Starting /\ backend' = backend
    BY <1>3, Zenon DEF Later, Running, Starting, startVars, mainVars
  <2>2. PICK c \in Conns : \/ AcceptNext(c) \/ AcceptError(c) \/ AcquirePermit(c)
                           \/ Arrives(c) \/ Headers(c) \/ RequestEnds(c) \/ ConnectionEnds(c)
    BY <1>3, Zenon DEF Loop, Clients
  <2> QED
    BY <2>1, <2>2, AcceptKeepsPermits, Zenon
<1>4. ASSUME MainStep \/ Environment \/ KilledLate \/ Aborted PROVE Later
  BY <1>4, Zenon
      DEF MainStep, CancelToken, Sweep, SweepReturns, CountShard, CountReturns, DrainSleep,
              AwaitSignalTask, Unregister, StopBackground, Environment, FileChanges, KilledEarly,
              KilledLate, Aborted, Goto, End, Later, Starting, outside, startVars, mainVars
<1>5. ASSUME InstallHandlers \/ Signal \/ BackendGrace \/ DrainDeadline \/ Tasks \/ UserSync
      PROVE  Later
  BY <1>5, Zenon DEF InstallHandlers, Signal, BackendGrace, DrainDeadline, Tasks, UserSync, Later,
              Starting, outside, startVars, mainVars
<1>6. CASE UNCHANGED vars
  BY <1>6, OthersKeepPermits, Zenon DEF vars, Later, startVars, mainVars
<1> QED
  BY <1>1, <1>2, <1>3, <1>4, <1>5, <1>6, OthersKeepPermits, Zenon DEF Next, Main, Accepting

\* Whatever the machine, the limit and the clients do, every permit is free or held
\* by a served connection (quiche_runner.rs:214-218, 239-295).
THEOREM PermitsAreConserved == Spec => []PermitsConserved
<1>1. PermitInv => PermitsConserved
  BY ServedCounts DEF PermitInv, Sized, PermitsConserved
<1> QED
  BY <1>1, PermitInit, PermitStep, PTL DEF Spec

\* On every machine an automatic limit leaves the reserved files free
\* (config_auto.rs:43-47).
THEOREM FilesAlwaysSuffice == Spec => []FilesSuffice
<1>1. ASSUME PermitInv, Automatic, Cardinality(Served) > 1
      PROVE  FD_PER_SESSION * Cardinality(Served) + FdReserve(nofile_soft) <= nofile_soft
  <2>1. loop # "off"
    BY <1>1, FS_EmptySet DEF PermitInv
  <2>2. /\ Sized /\ Cardinality(Served) \in Nat /\ Cardinality(Served) <= max_connections
        /\ max_connections \in Nat /\ nofile_soft \in Nat
    BY <1>1, <2>1, ServedCounts DEF PermitInv, Sized
  <2>3. /\ FdCap(nofile_soft) \in Nat /\ FdReserve(nofile_soft) \in Nat
        /\ FD_PER_SESSION * FdCap(nofile_soft) + FdReserve(nofile_soft) <= nofile_soft
    BY <2>2, AutoFits, ReserveFits, Zenon
  <2>4. Cardinality(Served) <= FdCap(nofile_soft)
    BY <1>1, <2>2, <2>3 DEF Sized
  <2> DEFINE n == Cardinality(Served)
             k == FdCap(nofile_soft)
             r == FdReserve(nofile_soft)
  <2> HIDE DEF n, k, r
  <2>5. FD_PER_SESSION * n <= FD_PER_SESSION * k
    BY <2>2, <2>3, <2>4, AutoTuneAssumption DEF n, k
  <2> QED
    BY <2>2, <2>3, <2>5, AutoTuneAssumption DEF n, k, r
<1>2. PermitInv => FilesSuffice
  BY <1>1, Zenon DEF FilesSuffice, Automatic
<1> QED
  BY <1>2, PermitInit, PermitStep, PTL DEF Spec

-----------------------------------------------------------------------------
(* The drain                                                                *)

\* Every connection that cancel_all found has left the registry.
Drained == \A id \in atSweep : id \notin DOMAIN connections

\* cancel_all has visited nothing so far: what it found and is still there lies
\* in the shard it stands in, or beyond.
NoneVisited ==
    \A id \in atSweep : id \in DOMAIN connections =>
        id \in sweepTodo \/ ConnShard[id] > sweepShard

\* connection_count has found nothing in the shards it has counted: no connection
\* that cancel_all found is there, nor will be again.
NoneCounted ==
    \A id \in atSweep : ConnShard[id] <= countShard => id \notin DOMAIN connections

BeforeSweep == Starting \cup {"serving", "cancelling"}
AfterDrain == {"waiting", "unregistering", "stopping"}

\* The registry keeps its own invariant; cancel_all runs once, before the count; and
\* a drain that ends before the deadline has seen every shard empty of what
\* cancel_all found.
DrainInv ==
    /\ IInv
    /\ main \in BeforeSweep => sweepShard = 0
    /\ sweepShard = 0 => atSweep = {}
    /\ sweepCount = 0 => NoneVisited
    /\ main \in {"counting", "sleeping"} \cup AfterDrain => SweepDone
    /\ main \in BeforeSweep \cup {"sweeping", "sleeping"} => countShard = 0
    /\ countShard \in 0..NumShards /\ counted \in Nat
    /\ counted = 0 => NoneCounted
    /\ main \in AfterDrain => expired \/ Drained
    /\ main = "exited" /\ why \notin {"killed", "panic"} => expired \/ Drained

\* The shards of the connections.
LEMMA ConnShards ==
    ASSUME IInv
    PROVE  /\ MaxConns \in Nat /\ NumShards \in Nat
           /\ \A id \in atSweep \cup DOMAIN connections :
                  /\ id \in 1..MaxConns
                  /\ ConnShard[id] \in Nat /\ 1 <= ConnShard[id] /\ ConnShard[id] <= NumShards
  BY ConstantsAssumption DEF IInv, TypeOK, ConnIds, Shards

\* The connections the sweep found live in shards numbered from 1.
LEMMA ConnShardsNext == IInv' => \A id \in atSweep' : ConnShard[id] \in Nat /\ 1 <= ConnShard[id]
  BY ConstantsAssumption DEF IInv, TypeOK, ConnIds, Shards

\* At the start no sweep and no count has begun.
LEMMA DrainInit == Init => DrainInv
<1>1. Init => IInv
  BY InitIInv, Zenon DEF Init, LifeInit
<1>2. Init => /\ main = "parsing" /\ sweepShard = 0 /\ atSweep = {} /\ countShard = 0 /\ counted = 0
  BY Zenon DEF Init, StartInit, LifeInit, CMInit
<1> QED
  BY <1>1, <1>2, ConnShards DEF DrainInv, NoneVisited, NoneCounted, AfterDrain

\* A step that leaves the registry alone and does not move main.
LEMMA DrainUntouched ==
    ASSUME DrainInv, UNCHANGED <<cmVars, main, why, countShard, counted>>, expired => expired'
    PROVE  DrainInv'
<1>1. IInv'
  BY StepIInv, Zenon DEF DrainInv
<1> QED
  BY <1>1, Zenon
      DEF DrainInv, cmVars, mapVars, sweepVars, NoneVisited, NoneCounted, Drained, SweepDone

\* Request tasks and kicks: a connection that cancel_all found may leave the registry,
\* and its id is not handed out again.
LEMMA TasksKeepDrain ==
    ASSUME DrainInv, Tasks \/ UserSync
    PROVE  DrainInv'
<1>1. UNCHANGED <<mainVars, sweepVars>>
  BY Zenon DEF Tasks, UserSync, RegisterAllocate, RegisterPublish, RegisterInsert, RegisterIndex,
         UnregisterRemove, UnregisterIndex, KickBegin, KickVisit, KickEnd
<1>2. IInv'
  BY StepIInv, Zenon DEF DrainInv, Tasks, UserSync, CMNext
<1>3. ASSUME NEW id \in atSweep, id \notin DOMAIN connections
      PROVE  id \notin DOMAIN connections'
  <2>1. id \in ConnIds /\ phase[id] # "allocated"
    BY Zenon DEF DrainInv, IInv, TypeOK, SweepInv
  <2>2. ASSUME NEW c \in ConnIds, RegisterInsert(c) PROVE id \notin DOMAIN connections'
    BY <1>3, <2>1, <2>2, Zenon DEF RegisterInsert
  <2>3. ASSUME NEW c \in ConnIds, UnregisterRemove(c) PROVE id \notin DOMAIN connections'
    BY <1>3, <2>3, Zenon DEF UnregisterRemove
  <2> QED
    BY <1>3, <2>2, <2>3, Zenon
       DEF Tasks, UserSync, RegisterAllocate, RegisterPublish, RegisterIndex,
           UnregisterIndex, KickBegin, KickVisit, KickEnd, mapVars
<1>4. (NoneVisited => NoneVisited') /\ (NoneCounted => NoneCounted') /\ (Drained => Drained')
  BY <1>1, <1>3, Zenon DEF NoneVisited, NoneCounted, Drained, sweepVars, mainVars, drain
<1> QED
  BY <1>1, <1>2, <1>4, Zenon DEF DrainInv, mainVars, drain, sweepVars, SweepDone

\* cancel_all.
LEMMA SweepKeepsDrain ==
    ASSUME DrainInv, Sweep
    PROVE  DrainInv'
<1>1. main = "sweeping" /\ UNCHANGED mainVars /\ UNCHANGED connections
  BY Zenon DEF Sweep, CancelAllNextShard, CancelAllVisit, mapVars
<1>2. IInv'
  BY StepIInv, Zenon DEF DrainInv, Sweep, CMNext
<1>3. countShard' = 0 /\ counted' \in Nat
  BY <1>1, Zenon DEF DrainInv, mainVars, drain
<1>4. NoneCounted'
  <2>1. \A id \in atSweep' : ConnShard[id] \in Nat /\ 1 <= ConnShard[id]
    BY <1>2, ConnShardsNext, Zenon
  <2> QED
    BY <1>3, <2>1 DEF NoneCounted
<1>5. CASE CancelAllNextShard
  <2>1. /\ sweepShard \in Nat /\ sweepShard' = sweepShard + 1 /\ sweepTodo = {}
        /\ sweepCount' = sweepCount
        /\ sweepTodo' = {id \in DOMAIN connections : ConnShard[id] = sweepShard + 1}
        /\ atSweep' = IF sweepShard = 0 THEN DOMAIN connections ELSE atSweep
    BY <1>5 DEF CancelAllNextShard, DrainInv, IInv, TypeOK
  <2>2. ASSUME sweepCount' = 0, NEW id \in atSweep', id \in DOMAIN connections
        PROVE  id \in sweepTodo' \/ ConnShard[id] > sweepShard'
    <3>1. ConnShard[id] \in Nat /\ ConnShard[id] >= 1
      BY <2>2, ConnShards, Zenon DEF DrainInv
    <3>2. ConnShard[id] > sweepShard
      BY <3>1, <2>1, <2>2 DEF DrainInv, NoneVisited
    <3> QED
      BY <2>1, <2>2, <3>1, <3>2
  <2>3. sweepCount' = 0 => NoneVisited'
    BY <2>2, <1>1, Zenon DEF NoneVisited
  <2> QED
    BY <1>1, <1>2, <1>3, <1>4, <2>1, <2>3, SMTT(20)
       DEF DrainInv, mainVars, drain, BeforeSweep, AfterDrain, Starting
<1>6. ASSUME NEW id \in ConnIds, CancelAllVisit(id) PROVE DrainInv'
  <2>1. sweepCount' # 0 /\ sweepShard' = sweepShard /\ atSweep' = atSweep
    BY <1>6 DEF CancelAllVisit, DrainInv, IInv, TypeOK
  <2> QED
    BY <1>1, <1>2, <1>3, <1>4, <2>1, Zenon
       DEF DrainInv, mainVars, drain, BeforeSweep, AfterDrain, Starting
<1> QED
  BY <1>5, <1>6, Zenon DEF Sweep

\* cancel_all that cancelled nothing has nothing to wait for.
LEMMA NothingCancelled ==
    ASSUME DrainInv, SweepDone, sweepCount = 0
    PROVE  Drained
<1> SUFFICES ASSUME NEW id \in atSweep, id \in DOMAIN connections PROVE FALSE
  BY Zenon DEF Drained
<1>1. NumShards \in Nat /\ ConnShard[id] \in Nat /\ ConnShard[id] <= NumShards
  BY ConnShards, Zenon DEF DrainInv
<1>2. id \in sweepTodo \/ ConnShard[id] > sweepShard
  BY Zenon DEF DrainInv, NoneVisited
<1>3. id \in sweepTodo => ConnShard[id] = sweepShard
  BY Zenon DEF DrainInv, IInv, SweepInv
<1> QED
  BY <1>1, <1>2, <1>3 DEF SweepDone

\* One shard of connection_count.
LEMMA CountKeepsDrain ==
    ASSUME DrainInv, CountShard
    PROVE  DrainInv'
<1> DEFINE here == {id \in DOMAIN connections : ConnShard[id] = countShard + 1}
<1>1. /\ main = "counting" /\ countShard < NumShards /\ countShard' = countShard + 1
      /\ counted' = counted + Cardinality(here)
      /\ UNCHANGED <<cmVars, main, why, expired>>
  BY Zenon DEF CountShard, outside
<1>2. IInv'
  BY <1>1, StepIInv, Zenon DEF DrainInv
<1>3. IsFiniteSet(here) /\ Cardinality(here) \in Nat
  <2>1. IsFiniteSet(1..MaxConns)
    BY ConnShards, FS_Interval DEF DrainInv
  <2>2. here \subseteq 1..MaxConns
    BY ConnShards, Zenon DEF DrainInv
  <2>3. IsFiniteSet(here)
    BY <2>1, <2>2, FS_Subset, Zenon
  <2> QED
    BY <2>3, FS_CardinalityType, Zenon
<1>4. Cardinality(here) = 0 => here = {}
  BY <1>3, FS_EmptySet, Zenon
<1> HIDE DEF here
<1>5. /\ countShard \in Nat /\ countShard' \in 0..NumShards /\ counted \in Nat /\ counted' \in Nat
      /\ counted' = 0 => counted = 0 /\ Cardinality(here) = 0
  BY <1>1, <1>3, ConnShards DEF DrainInv
<1>6. ASSUME counted' = 0, NEW id \in atSweep, ConnShard[id] <= countShard + 1
      PROVE  id \notin DOMAIN connections
  <2>1. ConnShard[id] \in Nat
    BY ConnShards, Zenon DEF DrainInv
  <2>2. CASE ConnShard[id] <= countShard
    BY <1>5, <1>6, <2>2, Zenon DEF DrainInv, NoneCounted
  <2>3. CASE ConnShard[id] = countShard + 1
    BY <1>4, <1>5, <1>6, <2>3, Zenon DEF here
  <2> QED
    BY <1>5, <1>6, <2>1, <2>2, <2>3, SMTT(20)
<1>7. counted' = 0 => NoneCounted'
  BY <1>1, <1>6, Zenon DEF NoneCounted, cmVars, mapVars, sweepVars
<1> QED
  BY <1>1, <1>2, <1>5, <1>7, Zenon
    
        
             DEF DrainInv, cmVars, mapVars, sweepVars, NoneVisited, SweepDone, BeforeSweep, AfterDrain, Starting

\* A step of main that leaves the registry alone: where it may go, and what it has
\* established when it leaves the drain.
Moves ==
    /\ UNCHANGED cmVars /\ expired' = expired
    /\ \/ UNCHANGED <<countShard, counted>>
       \/ main = "counting" /\ countShard' = 0 /\ counted' = 0
    /\ main' \in BeforeSweep \cup {"sweeping"} => main \in BeforeSweep
    /\ main' \in {"counting", "sleeping"} \cup AfterDrain =>
           main \in {"counting", "sleeping"} \cup AfterDrain \/ SweepDone
    /\ main' = "sleeping" => countShard' = 0
    /\ main' \in AfterDrain => main \in AfterDrain \/ expired \/ Drained
    /\ main' = "exited" /\ why' \notin {"killed", "panic"} =>
           main \in BeforeSweep \cup AfterDrain \/ UNCHANGED <<main, why>>

\* A step outside the sweep and the count keeps the drain invariant.
LEMMA MovesKeepDrain == ASSUME DrainInv, Moves PROVE DrainInv'
<1>1. IInv'
  BY StepIInv, Zenon DEF DrainInv, Moves
<1>2. UNCHANGED <<sweepShard, sweepTodo, sweepCount, atSweep, connections, expired>>
  BY Zenon DEF Moves, cmVars, mapVars, sweepVars
<1>3. (NoneVisited' <=> NoneVisited) /\ (Drained' <=> Drained) /\ (SweepDone' <=> SweepDone)
  BY <1>2, Zenon DEF NoneVisited, Drained, SweepDone
<1>4. countShard' \in 0..NumShards /\ counted' \in Nat
  BY ConnShards DEF DrainInv, Moves
<1>5. counted' = 0 => NoneCounted'
  <2>1. CASE UNCHANGED <<countShard, counted>>
    BY <2>1, <1>2, Zenon DEF DrainInv, NoneCounted
  <2>2. CASE countShard' = 0
    BY <2>2, <1>1, ConnShardsNext DEF NoneCounted
  <2> QED
    BY <2>1, <2>2, Zenon DEF Moves
<1>6. main' \in BeforeSweep => sweepShard' = 0
  BY <1>2, Zenon DEF DrainInv, Moves, BeforeSweep, Starting
<1>7. main' \in {"counting", "sleeping"} \cup AfterDrain => SweepDone'
  BY <1>3, Zenon DEF DrainInv, Moves
<1>8. main' \in BeforeSweep \cup {"sweeping", "sleeping"} => countShard' = 0
  BY Zenon DEF DrainInv, Moves, BeforeSweep, Starting
<1>9. main' \in AfterDrain => expired' \/ Drained'
  BY <1>2, <1>3 DEF DrainInv, Moves
<1>10. main' = "exited" /\ why' \notin {"killed", "panic"} => expired' \/ Drained'
  <2>1. main \in BeforeSweep => Drained
    BY Zenon DEF DrainInv, Drained
  <2> QED
    BY <2>1, <1>2, <1>3 DEF DrainInv, Moves
<1> QED
  BY <1>1, <1>2, <1>3, <1>4, <1>5, <1>6, <1>7, <1>8, <1>9, <1>10, Zenon DEF DrainInv

\* The steps of start-up are outside the sweep and the count.
LEMMA StartMoves == ASSUME DrainInv, Starts PROVE Moves
<1>1. main \in Starting /\ main' \in Starting \cup {"serving", "exited"}
  BY Zenon DEF Starts, StartStep, ParseArgs, Validate, NewApi, FetchConfig, Initialize, FetchUsers,
         BuildRouter, Build, Try, Goto, End, Starting
<1> QED
  BY <1>1, Zenon DEF Starts, Moves, drain, BeforeSweep, AfterDrain, Starting

\* So are the main task's steps between them, and the environment's.
LEMMA MainMoves ==
    ASSUME DrainInv,
           \/ SelectReturns \/ CancelToken \/ SweepReturns \/ CountReturns \/ DrainSleep
           \/ AwaitSignalTask \/ Unregister \/ StopBackground \/ KilledLate \/ Aborted \/ Environment
    PROVE  Moves
<1> USE DEF Moves, Goto, End, outside, drain, BeforeSweep, AfterDrain, Starting
<1>1. CASE SelectReturns \/ CancelToken
  BY <1>1, Zenon DEF SelectReturns, CancelToken
<1>2. CASE SweepReturns
  <2>1. sweepCount \in Nat
    BY Zenon DEF DrainInv, IInv, TypeOK
  <2> QED
    BY <1>2, <2>1, NothingCancelled, SMTT(20) DEF SweepReturns, DrainInv
<1>3. CASE CountReturns
  <2>1. counted = 0 => Drained
    <3>1. \A id \in atSweep : ConnShard[id] <= NumShards
      BY ConnShards, Zenon DEF DrainInv
    <3> QED
      BY <1>3, <3>1, Zenon DEF DrainInv, NoneCounted, Drained, CountReturns
  <2> QED
    BY <1>3, <2>1, Zenon DEF CountReturns
<1>4. CASE DrainSleep \/ AwaitSignalTask \/ Unregister \/ StopBackground
  BY <1>4, Zenon DEF DrainSleep, AwaitSignalTask, Unregister, StopBackground
<1>5. CASE KilledLate \/ Aborted
  BY <1>5, Zenon DEF KilledLate, Aborted, Running
<1>6. CASE Environment
  BY <1>6, Zenon DEF Environment, FileChanges, KilledEarly
<1> QED
  BY <1>1, <1>2, <1>3, <1>4, <1>5, <1>6, Zenon

\* Every step keeps the drain invariant.
LEMMA DrainStep == DrainInv /\ [Next]_vars => DrainInv'
<1> SUFFICES ASSUME DrainInv, [Next]_vars PROVE DrainInv'
  BY Zenon
<1>1. CASE Starts
  BY <1>1, StartMoves, MovesKeepDrain, Zenon
<1>2. CASE \/ SelectReturns \/ KilledLate \/ Aborted \/ Environment
  BY <1>2, MainMoves, MovesKeepDrain, Zenon
<1>3. CASE MainStep
  BY <1>3, MainMoves, MovesKeepDrain, SweepKeepsDrain, CountKeepsDrain, Zenon DEF MainStep
<1>4. CASE Tasks \/ UserSync
  BY <1>4, TasksKeepDrain, Zenon
<1>5. CASE \/ BackendStarts \/ BackendReturns \/ BackendGrace
           \/ InstallHandlers \/ Signal \/ DrainDeadline
  BY <1>5, DrainUntouched
     DEF BackendStarts, BackendReturns, BackendGrace, InstallHandlers, Signal,
                              DrainDeadline, outside, drain
<1>6. CASE UNCHANGED <<cmVars, startVars, mainVars>>
  BY <1>6, DrainUntouched, Zenon DEF mainVars, drain
<1>7. CASE UNCHANGED vars
  BY <1>6, <1>7, Zenon DEF vars
<1> QED
  BY <1>1, <1>2, <1>3, <1>4, <1>5, <1>6, <1>7, Zenon
     DEF Next, Main, Accepting, ServerStarts, ServerReturns, ServerDropped

\* connection_count adds its shards up one after the other while tunnels come and go,
\* and yet a drain that ends before its deadline ends because every connection that
\* cancel_all found has left the registry (main.rs:281-299, connection.rs:103-114).
THEOREM DrainIsHonest == Spec => []DrainedMeansGone
<1>1. DrainInv => DrainedMeansGone
  BY Zenon DEF DrainInv, DrainedMeansGone, Drained, AfterDrain
<1> QED
  BY <1>1, DrainInit, DrainStep, PTL DEF Spec
=============================================================================
