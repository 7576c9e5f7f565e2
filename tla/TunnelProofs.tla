----------------------------- MODULE TunnelProofs -----------------------------
(***************************************************************************)
(* Proofs about Tunnel: the registry tracks every tunnel; a diff kicks     *)
(* every tunnel it finds open; and the bytes of a tunnel are accounted     *)
(* for.  Every step uses the registry through its own steps, so that the   *)
(* registry's invariant is part of this one.                               *)
(***************************************************************************)
EXTENDS Tunnel, ConnectionManagerProofs

USE TunnelAssumption

\* The position of a stream's task tells the position of its register or
\* unregister call.
StreamOK(s) ==
    /\ pc[s] \in {"idle", "routing", "responding"} => conn[s] = 0
    /\ pc[s] \notin {"idle", "done"} => login[s] \in Logins
    /\ pc[s] = "registering" =>
          conn[s] = 0 \/ phase[conn[s]] \in {"allocated", "inserted"}
    /\ pc[s] \in Tunnelled => conn[s] # 0 /\ phase[conn[s]] = "registered"
    /\ pc[s] = "dropping" => conn[s] # 0 /\ phase[conn[s]] \in Indexed
    /\ pc[s] = "done" => conn[s] = 0 \/ phase[conn[s]] = "gone"
    /\ conn[s] # 0 => owner[conn[s]] = login[s].user /\ conn[s] < next_conn_id

\* No two streams share a conn_id.
Distinct == \A s, t \in Streams : s # t /\ conn[s] = conn[t] => conn[s] = 0

\* Bytes are recorded with each datagram by a UoT tunnel, at the end by a
\* relay, and not at all by a relay that was kicked.
UsageOK(s) ==
    /\ pc[s] \in {"idle", "routing", "responding", "registering", "starting",
                  "connecting", "uot_request", "uot_binding"} => moved[s] = 0
    /\ pc[s] \notin {"shut_remote", "uot_relaying", "uot_shutdown", "dropping", "done"} =>
          recorded[s] = 0 /\ shut[s] = {}
    /\ pc[s] \in {"uot_relaying", "uot_shutdown"} => recorded[s] = moved[s]
    /\ pc[s] = "shut_client" => Kicked(s)
    /\ pc[s] = "shut_remote" => Kicked(s) /\ recorded[s] = 0 /\ shut[s] = {"client"}
    /\ pc[s] \in {"dropping", "done"} =>
          recorded[s] = moved[s] \/ (recorded[s] = 0 /\ Kicked(s) /\ shut[s] = {"client", "remote"})

\* A tunnel the last diff revoked is cancelled, gone, or its user is still in
\* the callback's hands.
StaleInv ==
    \A id \in staleOpen :
        /\ phase[id] \in Opened
        /\ phase[id] = "registered" =>
              \/ id \in cancelled
              \/ owner[id] \in removed_ids \cup changed_ids
              \/ \E k \in Kickers : kicking[k] = owner[id]

TInv ==
    /\ IInv
    /\ TunnelTypeOK
    /\ \A s \in Streams : StreamOK(s)
    /\ Distinct
    /\ \A s \in Streams : UsageOK(s)
    /\ StaleInv
-----------------------------------------------------------------------------
\* Before any request, the invariant holds.
LEMMA InitTInv == Init => TInv
<1> SUFFICES ASSUME Init PROVE TInv
  BY Zenon
<1>1. IInv
  BY InitIInv, Zenon DEF Init
<1>2. TunnelTypeOK
  BY <1>1 DEF Init, IInv, TunnelTypeOK, Positions, NoLogin
<1>3. \A s \in Streams : StreamOK(s) /\ UsageOK(s)
  BY Zenon DEF Init, StreamOK, UsageOK, Tunnelled
<1>4. Distinct /\ StaleInv
  BY Zenon DEF Init, Distinct, StaleInv
<1> QED BY <1>1, <1>2, <1>3, <1>4, Zenon DEF TInv

\* Every step of a stream or of the user sync is a step of the registry or
\* leaves it unchanged.
LEMMA StepIsRegistryStep == TInv /\ [Next]_vars => [CMNext]_cmVars
<1> SUFFICES ASSUME TInv, [Next]_vars PROVE [CMNext]_cmVars
  BY Zenon
<1>1. CASE UNCHANGED vars
  BY <1>1, Zenon DEF vars
<1>2. ASSUME NEW s \in Streams, Task(s)
      PROVE  [CMNext]_cmVars
  <2> conn[s] \in ConnIds \cup {0} /\ StreamOK(s)
    BY Zenon DEF TInv, TunnelTypeOK
  <2>1. CASE Register(s)
    <3>1. ASSUME NEW id \in ConnIds, pc[s] = "registering", RegisterAllocate(id, login[s].user)
          PROVE  CMNext
      BY <3>1, Zenon DEF CMNext, StreamOK, Logins
    <3>2. ASSUME conn[s] # 0, RegisterInsert(conn[s]) \/ RegisterIndex(conn[s])
          PROVE  CMNext
      BY <3>2, Zenon DEF CMNext, RegisterPublish
    <3> QED BY <2>1, <3>1, <3>2, Zenon DEF Register
  <2>2. CASE Drop(s)
    <3>1. conn[s] \in ConnIds
      BY <2>2, Zenon DEF Drop, StreamOK
    <3> QED BY <2>2, <3>1, Zenon DEF Drop, CMNext
  <2>3. CASE ~Register(s) /\ ~Drop(s)
    BY <1>2, <2>3, Zenon DEF Task, RouteRejects, RouteAccepts, Respond, RespondFails, Start,
       ConnectSucceeds, ConnectFails, RelayKicked, Shutdown, UotBind, UotShutdown
  <2> QED BY <2>1, <2>2, <2>3, Zenon
<1>3. ASSUME NEW s \in Streams, Peers(s)
      PROVE  [CMNext]_cmVars
  BY <1>3, Zenon DEF Peers, RequestRejected, RequestUnauthorized, RequestAuthenticated,
     RelayMoves, RelayEnds, UotRequest, UotMoves, UotEnds
<1>4. ASSUME Sync
      PROVE  [CMNext]_cmVars
  <2>1. ASSUME NEW k \in Kickers, KickNext(k)
        PROVE  [CMNext]_cmVars
    BY <2>1, Zenon DEF KickNext, CMNext
  <2>2. ASSUME NEW k \in Kickers, KickStep(k)
        PROVE  [CMNext]_cmVars
    BY <2>2, Zenon DEF KickStep, CMNext
  <2>3. ASSUME NEW new \in [Users -> Versions \cup {NoUuid}], DiffApply(new)
        PROVE  [CMNext]_cmVars
    BY <2>3, Zenon DEF DiffApply
  <2> QED BY <1>4, <2>1, <2>2, <2>3, Zenon DEF Sync
<1> QED BY <1>1, <1>2, <1>3, <1>4, Zenon DEF Next

\* Every step keeps the types.
LEMMA StepTypes == TInv /\ [Next]_vars => TunnelTypeOK'
<1> SUFFICES ASSUME TInv, [Next]_vars PROVE TunnelTypeOK'
  BY Zenon
<1> USE DEF TInv, TunnelTypeOK
<1>1. TypeOK'
  BY StepIsRegistryStep, StepIInv, Zenon DEF IInv
<1>2. CASE UNCHANGED vars
  BY <1>1, <1>2, Zenon DEF vars, userVars, streamVars, dataVars
<1>3. ASSUME NEW s \in Streams, Task(s)
      PROVE  TunnelTypeOK'
  <2>1. CASE Register(s)
    BY <1>1, <2>1 DEF Register, Goto, Positions, userVars, streamVars, dataVars
  <2>2. CASE Start(s)
    <3>1. login[s].user \in Users
      BY <2>2, Zenon DEF StreamOK, Logins, Start, Goto
    <3>2. requests' \in [Users -> Nat]
      BY <2>2, <3>1 DEF Start
    <3> QED BY <1>1, <2>2, <3>2 DEF Start, Goto, Positions, userVars, dataVars
  <2>3. CASE Shutdown(s) \/ UotShutdown(s)
    BY <1>1, <2>3 DEF Shutdown, UotShutdown, Goto, Positions, userVars
  <2>4. CASE Drop(s)
    BY <1>1, <2>4 DEF Drop, Positions, userVars, dataVars
  <2>5. CASE RouteRejects(s) \/ RouteAccepts(s) \/ Respond(s) \/ RespondFails(s)
    BY <1>1, <2>5 DEF RouteRejects, RouteAccepts, Respond, RespondFails, Goto, Positions,
       userVars, dataVars
  <2>6. CASE ConnectSucceeds(s) \/ ConnectFails(s) \/ RelayKicked(s) \/ UotBind(s)
    BY <1>1, <2>6 DEF ConnectSucceeds, ConnectFails, RelayKicked, UotBind, Goto, Positions,
       userVars, dataVars
  <2> QED BY <1>3, <2>1, <2>2, <2>3, <2>4, <2>5, <2>6, Zenon DEF Task
<1>4. ASSUME NEW s \in Streams, Peers(s)
      PROVE  TunnelTypeOK'
  <2>1. ASSUME NEW r \in Malformed, RequestRejected(s, r)
        PROVE  TunnelTypeOK'
    BY <1>1, <2>1 DEF RequestRejected, Malformed, Goto, Positions, userVars, dataVars
  <2>2. ASSUME NEW l \in Logins, RequestUnauthorized(s, l) \/ RequestAuthenticated(s, l)
        PROVE  TunnelTypeOK'
    BY <1>1, <2>2 DEF RequestUnauthorized, RequestAuthenticated, Goto, Positions, userVars,
       dataVars
  <2>3. CASE RelayMoves(s) \/ RelayEnds(s)
    BY <1>1, <2>3 DEF RelayMoves, RelayEnds, Goto, Positions, userVars
  <2>4. CASE UotMoves(s)
    <3>1. recorded[s] = moved[s]
      BY <2>4, Zenon DEF UotMoves, UsageOK
    <3> QED BY <1>1, <2>4, <3>1 DEF UotMoves, userVars
  <2>5. CASE UotRequest(s) \/ UotEnds(s)
    BY <1>1, <2>5 DEF UotRequest, UotEnds, Goto, Positions, userVars, dataVars
  <2> QED BY <1>4, <2>1, <2>2, <2>3, <2>4, <2>5, Zenon DEF Peers
<1>5. ASSUME NEW new \in [Users -> Versions \cup {NoUuid}], DiffApply(new)
      PROVE  TunnelTypeOK'
  <2>1. staleOpen' \subseteq ConnIds
    BY <1>5 DEF DiffApply, StreamOK
  <2>2. diffs' \in 0..MaxDiffs
    BY <1>5 DEF DiffApply
  <2>3. /\ credential' = new /\ removed_ids' \subseteq Users /\ changed_ids' \subseteq Users
        /\ UNCHANGED <<pc, login, kind, status, conn, requests, moved, recorded, shut>>
    BY <1>5, Zenon DEF DiffApply, streamVars, dataVars
  <2> QED BY <1>1, <2>1, <2>2, <2>3, Zenon
<1>6. ASSUME NEW k \in Kickers, KickNext(k) \/ KickStep(k)
      PROVE  TunnelTypeOK'
  BY <1>1, <1>6 DEF KickNext, KickStep, userVars, streamVars, dataVars
<1> QED BY <1>2, <1>3, <1>4, <1>5, <1>6, Zenon DEF Next, Sync

-----------------------------------------------------------------------------
(* A task and its entry in the registry                                     *)

\* Every step keeps the tie between a task and its connection: a step of one
\* stream touches no other stream's connection, because their ids differ.
LEMMA StepStreams == TInv /\ [Next]_vars => (\A s \in Streams : StreamOK(s)') /\ Distinct'
<1> SUFFICES ASSUME TInv, [Next]_vars
             PROVE  (\A s \in Streams : StreamOK(s)') /\ Distinct'
  BY Zenon
<1> USE DEF TInv
<1>t. /\ pc \in [Streams -> Positions]
      /\ kind \in [Streams -> {"tcp", "uot_v1", "uot_v2"}]
      /\ conn \in [Streams -> ConnIds \cup {0}]
      /\ login \in [Streams -> Logins \cup {NoLogin}]
      /\ phase \in [ConnIds -> Phases]
      /\ owner \in [ConnIds -> Users \cup {NoUser}]
      /\ next_conn_id \in Nat
  BY DEF TunnelTypeOK, TypeOK
<1>1. CASE UNCHANGED vars
  BY <1>1, Zenon DEF vars, cmVars, mapVars, streamVars, StreamOK, Distinct
<1>2. ASSUME NEW s \in Streams, Register(s)
      PROVE  (\A t \in Streams : StreamOK(t)') /\ Distinct'
  <2>1. ASSUME NEW id \in ConnIds, RegisterAllocate(id, login[s].user),
               pc[s] = "registering", conn[s] = 0, conn' = [conn EXCEPT ![s] = id],
               UNCHANGED <<pc, login>>
        PROVE  (\A t \in Streams : StreamOK(t)') /\ Distinct'
    <3>1. \A t \in Streams : conn[t] # id
      <4>1. id = next_conn_id /\ id # 0
        BY <2>1, ConstantsAssumption DEF RegisterAllocate, ConnIds
      <4> QED BY <4>1, <1>t DEF StreamOK
    <3>2. Distinct'
      BY <2>1, <3>1, <1>t, Zenon DEF Distinct
    <3>3. StreamOK(s)'
      BY <2>1, <1>t, SMTT(20) DEF StreamOK, RegisterAllocate, Tunnelled
    <3>4. ASSUME NEW t \in Streams, t # s PROVE StreamOK(t)'
      <4>1. \/ conn[t] = 0
            \/ phase'[conn[t]] = phase[conn[t]] /\ owner'[conn[t]] = owner[conn[t]]
        BY <2>1, <3>1, <1>t, Zenon DEF RegisterAllocate
      <4>2. conn'[t] = conn[t] /\ UNCHANGED <<pc, login>> /\ next_conn_id' = next_conn_id + 1
        BY <2>1, <3>4, <1>t, Zenon DEF RegisterAllocate
      <4>3. conn[t] \in Nat
        BY <1>t, ConstantsAssumption DEF ConnIds
      <4> QED BY <4>1, <4>2, <4>3, <1>t DEF StreamOK
    <3> QED BY <3>2, <3>3, <3>4, Zenon
  <2>2. ASSUME conn[s] # 0, RegisterInsert(conn[s]), pc[s] = "registering",
               UNCHANGED <<pc, login, conn>>
        PROVE  (\A t \in Streams : StreamOK(t)') /\ Distinct'
    <3>1. phase' = [phase EXCEPT ![conn[s]] = "inserted"] /\ UNCHANGED <<owner, next_conn_id>>
      BY <2>2, Zenon DEF RegisterInsert
    <3>2. StreamOK(s)'
      BY <2>2, <3>1, <1>t, Zenon DEF StreamOK, Tunnelled
    <3>3. ASSUME NEW t \in Streams, t # s PROVE StreamOK(t)'
      <4>1. conn[t] # conn[s]
        BY <2>2, <3>3, Zenon DEF Distinct
      <4> QED BY <2>2, <3>1, <4>1, <1>t, Zenon DEF StreamOK
    <3> QED BY <2>2, <3>2, <3>3, Zenon DEF Distinct
  <2>3. ASSUME conn[s] # 0, RegisterIndex(conn[s]), Goto(s, "registering", "starting"),
               UNCHANGED <<login, conn>>
        PROVE  (\A t \in Streams : StreamOK(t)') /\ Distinct'
    <3>1. phase' = [phase EXCEPT ![conn[s]] = "registered"] /\ UNCHANGED <<owner, next_conn_id>>
      BY <2>3, Zenon DEF RegisterIndex
    <3>2. StreamOK(s)'
      BY <2>3, <3>1, <1>t, Zenon DEF StreamOK, Goto, Tunnelled
    <3>3. ASSUME NEW t \in Streams, t # s PROVE StreamOK(t)'
      <4>1. conn[t] # conn[s]
        BY <2>3, <3>3, Zenon DEF Distinct
      <4> QED BY <2>3, <3>1, <3>3, <4>1, <1>t, Zenon DEF StreamOK, Goto
    <3> QED BY <2>3, <3>2, <3>3, Zenon DEF Distinct
  <2> QED BY <1>2, <2>1, <2>2, <2>3, Zenon DEF Register, streamVars
<1>3. ASSUME NEW s \in Streams, Drop(s)
      PROVE  (\A t \in Streams : StreamOK(t)') /\ Distinct'
  <2>1. conn[s] \in ConnIds /\ (phase[conn[s]] = "registered" => conn[s] \in DOMAIN connections)
    <3>1. pc[s] = "dropping"
      BY <1>3, Zenon DEF Drop
    <3>2. conn[s] \in ConnIds
      BY <3>1, <1>t, Zenon DEF StreamOK
    <3>3. MapsInv
      BY Zenon DEF IInv
    <3> QED BY <3>2, <3>3, Zenon DEF MapsInv, Published
  <2>2. pc[s] = "dropping" /\ UNCHANGED <<login, conn>>
    BY <1>3, Zenon DEF Drop
  <2>3. CASE UnregisterRemove(conn[s]) /\ UNCHANGED pc
    <3>1. phase' = [phase EXCEPT ![conn[s]] = "removed"] /\ UNCHANGED <<owner, next_conn_id>>
      BY <2>1, <2>3, Zenon DEF UnregisterRemove
    <3>2. StreamOK(s)'
      BY <2>1, <2>2, <2>3, <3>1, <1>t, Zenon DEF StreamOK, Tunnelled, Indexed
    <3>3. ASSUME NEW t \in Streams, t # s PROVE StreamOK(t)'
      <4>1. conn[t] # conn[s]
        BY <2>1, <3>3, ConstantsAssumption DEF Distinct, ConnIds
      <4> QED BY <2>2, <2>3, <3>1, <4>1, <1>t, Zenon DEF StreamOK
    <3> QED BY <2>2, <3>2, <3>3, Zenon DEF Distinct
  <2>4. CASE UnregisterIndex(conn[s]) /\ pc' = [pc EXCEPT ![s] = "done"]
    <3>1. phase' = [phase EXCEPT ![conn[s]] = "gone"] /\ UNCHANGED <<owner, next_conn_id>>
      BY <2>4, Zenon DEF UnregisterIndex
    <3>2. StreamOK(s)'
      BY <2>1, <2>2, <2>4, <3>1, <1>t, Zenon DEF StreamOK, Tunnelled, Indexed
    <3>3. ASSUME NEW t \in Streams, t # s PROVE StreamOK(t)'
      <4>1. conn[t] # conn[s]
        BY <2>1, <3>3, ConstantsAssumption DEF Distinct, ConnIds
      <4> QED BY <2>2, <2>4, <3>1, <3>3, <4>1, <1>t, Zenon DEF StreamOK
    <3> QED BY <2>2, <3>2, <3>3, Zenon DEF Distinct
  <2> QED BY <1>3, <2>3, <2>4, Zenon DEF Drop
<1>4. ASSUME NEW s \in Streams, Task(s), ~Register(s), ~Drop(s)
      PROVE  (\A t \in Streams : StreamOK(t)') /\ Distinct'
  <2>1. UNCHANGED <<login, conn, phase, owner, next_conn_id>>
    BY <1>4, Zenon DEF Task, RouteRejects, RouteAccepts, Respond, RespondFails, Start,
       ConnectSucceeds, ConnectFails, RelayKicked, Shutdown, UotBind, UotShutdown, cmVars, mapVars
  <2>2. StreamOK(s)'
    <3>1. CASE Start(s)
      BY <3>1, <2>1, <1>t, Zenon DEF Start, Goto, StreamOK, Tunnelled
    <3>2. CASE ConnectSucceeds(s) \/ ConnectFails(s) \/ RelayKicked(s) \/ UotBind(s)
      BY <3>2, <2>1, <1>t, Zenon
          DEF ConnectSucceeds, ConnectFails, RelayKicked, UotBind, Goto, StreamOK,
         Tunnelled, Indexed
    <3>3. CASE Shutdown(s) \/ UotShutdown(s)
      BY <3>3, <2>1, <1>t, Zenon DEF Shutdown, UotShutdown, Goto, StreamOK, Tunnelled, Indexed
    <3>4. CASE RouteRejects(s) \/ RouteAccepts(s) \/ Respond(s) \/ RespondFails(s)
      BY <3>4, <2>1, <1>t DEF RouteRejects, RouteAccepts, Respond, RespondFails, Goto,
         StreamOK, Tunnelled
    <3> QED BY <1>4, <3>1, <3>2, <3>3, <3>4, Zenon DEF Task
  <2>3. ASSUME NEW t \in Streams, t # s PROVE StreamOK(t)'
    <3>1. pc'[t] = pc[t]
      BY <1>4, <2>3, <1>t, Zenon DEF Task, RouteRejects, RouteAccepts, Respond, RespondFails, Start,
         ConnectSucceeds, ConnectFails, RelayKicked, Shutdown, UotBind, UotShutdown, Goto
    <3> QED BY <2>1, <3>1, Zenon DEF StreamOK
  <2> QED BY <2>1, <2>2, <2>3, Zenon DEF Distinct
<1>5. ASSUME NEW s \in Streams, Peers(s)
      PROVE  (\A t \in Streams : StreamOK(t)') /\ Distinct'
  <2>1. UNCHANGED <<conn, phase, owner, next_conn_id>>
    BY <1>5, Zenon
        DEF Peers, RequestRejected, RequestUnauthorized, RequestAuthenticated, RelayMoves,
       RelayEnds, UotRequest, UotMoves, UotEnds, cmVars, mapVars
  <2>2. StreamOK(s)'
    <3>1. ASSUME NEW r \in Malformed, RequestRejected(s, r) PROVE StreamOK(s)'
      BY <3>1, <2>1, <1>t DEF RequestRejected, Goto, StreamOK, Tunnelled
    <3>2. ASSUME NEW l \in Logins, RequestUnauthorized(s, l) PROVE StreamOK(s)'
      BY <3>2, <2>1, <1>t, Zenon DEF RequestUnauthorized, Goto, StreamOK, Tunnelled
    <3>3. ASSUME NEW l \in Logins, RequestAuthenticated(s, l) PROVE StreamOK(s)'
      BY <3>3, <2>1, <1>t DEF RequestAuthenticated, Goto, StreamOK, Tunnelled
    <3>4. CASE RelayMoves(s) \/ RelayEnds(s)
      BY <3>4, <2>1, <1>t, Zenon DEF RelayMoves, RelayEnds, Goto, StreamOK, Tunnelled, Indexed
    <3>5. CASE UotRequest(s) \/ UotMoves(s) \/ UotEnds(s)
      BY <3>5, <2>1, <1>t, Zenon
          DEF UotRequest, UotMoves, UotEnds, Goto, StreamOK, Tunnelled, Indexed
    <3> QED BY <1>5, <3>1, <3>2, <3>3, <3>4, <3>5, Zenon DEF Peers
  <2>3. ASSUME NEW t \in Streams, t # s PROVE StreamOK(t)'
    <3>1. pc'[t] = pc[t] /\ login'[t] = login[t]
      BY <1>5, <2>3, <1>t DEF Peers, RequestRejected, RequestUnauthorized,
         RequestAuthenticated, RelayMoves, RelayEnds, UotRequest, UotMoves, UotEnds, Goto
    <3> QED BY <2>1, <3>1, Zenon DEF StreamOK
  <2> QED BY <2>1, <2>2, <2>3, Zenon DEF Distinct
<1>6. ASSUME Sync
      PROVE  (\A t \in Streams : StreamOK(t)') /\ Distinct'
  <2>1. UNCHANGED <<pc, login, conn, phase, owner, next_conn_id>>
    BY <1>6, Zenon DEF Sync, DiffApply, KickNext, KickStep, KickBegin, KickVisit, KickEnd,
       streamVars, cmVars, mapVars
  <2> QED BY <2>1, Zenon DEF StreamOK, Distinct
<1> QED BY <1>1, <1>2, <1>3, <1>4, <1>5, <1>6, Zenon DEF Next

-----------------------------------------------------------------------------
(* The account of the bytes, the diffs, and the theorems                    *)

\* Every step keeps the account of the bytes; a cancelled token stays cancelled.
LEMMA StepUsage == TInv /\ [Next]_vars => \A s \in Streams : UsageOK(s)'
<1> SUFFICES ASSUME TInv, [Next]_vars
             PROVE  \A s \in Streams : UsageOK(s)'
  BY Zenon
<1> USE DEF TInv
<1>t. /\ pc \in [Streams -> Positions]
      /\ kind \in [Streams -> {"tcp", "uot_v1", "uot_v2"}]
      /\ conn \in [Streams -> ConnIds \cup {0}]
      /\ moved \in [Streams -> 0..MaxBytes]
      /\ recorded \in [Streams -> 0..MaxBytes]
      /\ shut \in [Streams -> SUBSET {"client", "remote"}]
      /\ cancelled \subseteq ConnIds
  BY DEF TunnelTypeOK, TypeOK
<1>c. cancelled \subseteq cancelled'
  BY StepIsRegistryStep, Zenon DEF CMNext, RegisterAllocate, RegisterPublish, RegisterInsert,
     RegisterIndex, UnregisterRemove, UnregisterIndex, KickBegin, KickVisit, KickEnd,
     CancelAllNextShard, CancelAllVisit, cmVars
<1>1. ASSUME UNCHANGED <<pc, conn, moved, recorded, shut>>
      PROVE  \A s \in Streams : UsageOK(s)'
  BY <1>1, <1>c, Zenon DEF UsageOK, Kicked
<1>2. ASSUME NEW s \in Streams, Register(s)
      PROVE  \A t \in Streams : UsageOK(t)'
  <2>1. pc[s] = "registering" /\ pc'[s] \in {"registering", "starting"}
    BY <1>2, <1>t, Zenon DEF Register, Goto, streamVars
  <2>2. \A t \in Streams : t # s => pc'[t] = pc[t] /\ conn'[t] = conn[t]
    BY <1>2, <1>t, Zenon DEF Register, Goto, streamVars
  <2>3. UNCHANGED <<moved, recorded, shut>>
    BY <1>2, Zenon DEF Register, streamVars, dataVars
  <2> QED BY <2>1, <2>2, <2>3, <1>c, <1>t, Zenon DEF UsageOK, Kicked
<1>3. ASSUME NEW s \in Streams, Drop(s)
      PROVE  \A t \in Streams : UsageOK(t)'
  BY <1>3, <1>c, <1>t DEF Drop, UsageOK, Kicked, dataVars
<1>o. ASSUME NEW s \in Streams, UsageOK(s)', UNCHANGED conn,
             \A t \in Streams \ {s} : /\ pc'[t] = pc[t] /\ moved'[t] = moved[t]
                                      /\ recorded'[t] = recorded[t] /\ shut'[t] = shut[t]
      PROVE  \A t \in Streams : UsageOK(t)'
  BY <1>o, <1>c DEF UsageOK, Kicked
<1>4. ASSUME NEW s \in Streams, Task(s), ~Register(s), ~Drop(s)
      PROVE  \A t \in Streams : UsageOK(t)'
  <2>1. CASE Start(s)
    <3>1. /\ pc[s] = "starting" /\ pc'[s] \in {"connecting", "uot_binding", "uot_request"}
          /\ \A t \in Streams \ {s} : pc'[t] = pc[t]
      BY <2>1, <1>t, Zenon DEF Start, Goto
    <3>2. UNCHANGED <<conn, moved, recorded, shut>>
      BY <2>1, Zenon DEF Start, dataVars
    <3> QED BY <3>1, <3>2, <1>o, Zenon DEF UsageOK
  <2>2. CASE ConnectSucceeds(s) \/ ConnectFails(s) \/ UotBind(s)
    <3>1. /\ pc[s] \in {"connecting", "uot_binding"}
          /\ pc'[s] \in {"relaying", "uot_relaying", "dropping"}
          /\ \A t \in Streams \ {s} : pc'[t] = pc[t]
      BY <2>2, <1>t, Zenon DEF ConnectSucceeds, ConnectFails, UotBind, Goto
    <3>2. UNCHANGED <<conn, moved, recorded, shut>>
      BY <2>2, Zenon DEF ConnectSucceeds, ConnectFails, UotBind, dataVars
    <3> QED BY <3>1, <3>2, <1>o DEF UsageOK
  <2>3. CASE RelayKicked(s)
    <3>1. /\ pc[s] = "relaying" /\ pc'[s] = "shut_client" /\ Kicked(s)
          /\ \A t \in Streams \ {s} : pc'[t] = pc[t]
      BY <2>3, <1>t, Zenon DEF RelayKicked, Goto
    <3>2. UNCHANGED <<conn, moved, recorded, shut>>
      BY <2>3, Zenon DEF RelayKicked, dataVars
    <3>3. Kicked(s)'
      BY <3>1, <3>2, <1>c, Zenon DEF Kicked
    <3> QED BY <3>1, <3>2, <3>3, <1>o DEF UsageOK
  <2>4. CASE Shutdown(s)
    <3>1. /\ \/ pc[s] = "shut_client" /\ pc'[s] = "shut_remote" /\ shut'[s] = shut[s] \cup {"client"}
             \/ pc[s] = "shut_remote" /\ pc'[s] = "dropping" /\ shut'[s] = shut[s] \cup {"remote"}
          /\ \A t \in Streams \ {s} : pc'[t] = pc[t] /\ shut'[t] = shut[t]
      BY <2>4, <1>t, Zenon DEF Shutdown, Goto
    <3>2. UNCHANGED <<conn, moved, recorded>>
      BY <2>4, Zenon DEF Shutdown
    <3>3. Kicked(s) => Kicked(s)'
      BY <3>2, <1>c, Zenon DEF Kicked
    <3>4. UsageOK(s)'
      BY <3>1, <3>2, <3>3, Zenon DEF UsageOK
    <3> QED BY <3>1, <3>2, <3>4, <1>o, Zenon
  <2>5. CASE UotShutdown(s)
    <3>1. /\ pc[s] = "uot_shutdown" /\ pc'[s] = "dropping"
          /\ \A t \in Streams \ {s} : pc'[t] = pc[t] /\ shut'[t] = shut[t]
      BY <2>5, <1>t, Zenon DEF UotShutdown, Goto
    <3>2. UNCHANGED <<conn, moved, recorded>>
      BY <2>5, Zenon DEF UotShutdown
    <3>3. UsageOK(s)'
      BY <3>1, <3>2, Zenon DEF UsageOK
    <3> QED BY <3>1, <3>2, <3>3, <1>o, Zenon
  <2>6. CASE RouteRejects(s) \/ RouteAccepts(s) \/ Respond(s) \/ RespondFails(s)
    <3>1. /\ pc[s] \in {"routing", "responding"} /\ pc'[s] \in {"responding", "registering", "done"}
          /\ \A t \in Streams \ {s} : pc'[t] = pc[t]
      BY <2>6, <1>t, Zenon DEF RouteRejects, RouteAccepts, Respond, RespondFails, Goto
    <3>2. UNCHANGED <<conn, moved, recorded, shut>>
      BY <2>6, Zenon DEF RouteRejects, RouteAccepts, Respond, RespondFails, dataVars
    <3> QED BY <3>1, <3>2, <1>o DEF UsageOK
  <2> QED BY <1>4, <2>1, <2>2, <2>3, <2>4, <2>5, <2>6, Zenon DEF Task
<1>5. ASSUME NEW s \in Streams, Peers(s)
      PROVE  \A t \in Streams : UsageOK(t)'
  <2>1. CASE RelayMoves(s)
    <3>1. /\ pc[s] = "relaying" /\ pc'[s] = IF Kicked(s) THEN "shut_client" ELSE "relaying"
          /\ \A t \in Streams \ {s} : pc'[t] = pc[t] /\ moved'[t] = moved[t]
      BY <2>1, <1>t, Zenon DEF RelayMoves
    <3>2. UNCHANGED <<conn, recorded, shut>>
      BY <2>1, Zenon DEF RelayMoves
    <3>3. Kicked(s) => Kicked(s)'
      BY <3>2, <1>c, Zenon DEF Kicked
    <3>4. UsageOK(s)'
      BY <3>1, <3>2, <3>3, Zenon DEF UsageOK
    <3> QED BY <3>1, <3>2, <3>4, <1>o, Zenon
  <2>2. CASE RelayEnds(s)
    <3>1. /\ pc[s] = "relaying" /\ pc'[s] = "dropping" /\ recorded'[s] = moved[s]
          /\ \A t \in Streams \ {s} : pc'[t] = pc[t] /\ recorded'[t] = recorded[t]
      BY <2>2, <1>t, Zenon DEF RelayEnds, Goto
    <3>2. UNCHANGED <<conn, moved, shut>>
      BY <2>2, Zenon DEF RelayEnds
    <3>3. UsageOK(s)'
      BY <3>1, <3>2, Zenon DEF UsageOK
    <3> QED BY <3>1, <3>2, <3>3, <1>o, Zenon
  <2>3. CASE UotRequest(s) \/ UotEnds(s)
    <3>1. /\ \/ pc[s] = "uot_request" /\ pc'[s] \in {"uot_binding", "dropping"}
             \/ pc[s] = "uot_relaying" /\ pc'[s] = "uot_shutdown"
          /\ \A t \in Streams \ {s} : pc'[t] = pc[t]
      BY <2>3, <1>t, Zenon DEF UotRequest, UotEnds, Goto
    <3>2. UNCHANGED <<conn, moved, recorded, shut>>
      BY <2>3, Zenon DEF UotRequest, UotEnds, dataVars
    <3> QED BY <3>1, <3>2, <1>o DEF UsageOK
  <2>4. CASE UotMoves(s)
    <3>1. /\ pc[s] = "uot_relaying" /\ pc' = pc
          /\ moved'[s] = moved[s] + 1 /\ recorded'[s] = recorded[s] + 1
          /\ \A t \in Streams \ {s} : moved'[t] = moved[t] /\ recorded'[t] = recorded[t]
      BY <2>4, <1>t, Zenon DEF UotMoves
    <3>2. UNCHANGED <<conn, shut>>
      BY <2>4, Zenon DEF UotMoves
    <3>3. UsageOK(s)'
      BY <3>1, <3>2, Zenon DEF UsageOK
    <3> QED BY <3>1, <3>2, <3>3, <1>o, Zenon
  <2>5. CASE \/ \E r \in Malformed : RequestRejected(s, r)
             \/ \E l \in Logins : RequestUnauthorized(s, l) \/ RequestAuthenticated(s, l)
    <3>1. /\ pc[s] = "idle" /\ pc'[s] \in {"routing", "done"}
          /\ \A t \in Streams \ {s} : pc'[t] = pc[t]
      BY <2>5, <1>t DEF RequestRejected, RequestUnauthorized, RequestAuthenticated, Goto
    <3>2. UNCHANGED <<conn, moved, recorded, shut>>
      BY <2>5, Zenon DEF RequestRejected, RequestUnauthorized, RequestAuthenticated, dataVars
    <3> QED BY <3>1, <3>2, <1>o DEF UsageOK
  <2> QED BY <1>5, <2>1, <2>2, <2>3, <2>4, <2>5, Zenon DEF Peers
<1>6. CASE Sync \/ UNCHANGED vars
  BY <1>1, <1>6, Zenon DEF Sync, DiffApply, KickNext, KickStep, vars, streamVars, dataVars
<1> QED BY <1>2, <1>3, <1>4, <1>5, <1>6, Zenon DEF Next

\* Every step keeps the revoked tunnels in sight of the callback: a kick that
\* ends has cancelled the user's tunnels, and a user without an entry in
\* user_connections has none left.
LEMMA StepStale == TInv /\ [Next]_vars => StaleInv'
<1> SUFFICES ASSUME TInv, [Next]_vars PROVE StaleInv'
  BY Zenon
<1> USE DEF TInv
<1>t. /\ TypeOK
      /\ staleOpen \subseteq ConnIds
      /\ conn \in [Streams -> ConnIds \cup {0}]
  BY Zenon DEF TunnelTypeOK
<1>o. \A id \in ConnIds : phase[id] \in Opened => owner[id] \in Users
  BY Zenon DEF IInv, AllocationInv, Opened
<1>1. ASSUME UNCHANGED <<staleOpen, removed_ids, changed_ids, kicking>>,
             cancelled \subseteq cancelled',
             \A id \in ConnIds : phase[id] \in Opened =>
                 /\ owner'[id] = owner[id]
                 /\ phase'[id] \in Opened
                 /\ phase'[id] = "registered" => phase[id] = "registered"
      PROVE  StaleInv'
  BY <1>1, <1>t DEF StaleInv
<1>2. ASSUME NEW s \in Streams, Register(s) \/ Drop(s)
      PROVE  StaleInv'
  <2>1. conn[s] \in ConnIds \/ conn[s] = 0
    BY <1>t, Zenon
  <2>2. UNCHANGED <<staleOpen, removed_ids, changed_ids, kicking, cancelled>>
    BY <1>2, Zenon DEF Register, Drop, RegisterAllocate, RegisterInsert, RegisterIndex,
       UnregisterRemove, UnregisterIndex, userVars, kickVars
  <2>3. ASSUME NEW id \in ConnIds, phase[id] \in Opened
        PROVE  /\ owner'[id] = owner[id]
               /\ phase'[id] \in Opened
               /\ phase'[id] = "registered" => phase[id] = "registered"
    <3>1. CASE \E new \in ConnIds : RegisterAllocate(new, login[s].user)
      <4>1. PICK new \in ConnIds : RegisterAllocate(new, login[s].user)
        BY <3>1, Zenon
      <4>2. phase[new] = "free"
        BY <4>1, <1>t, ConstantsAssumption DEF RegisterAllocate, IInv, AllocationInv, ConnIds
      <4> QED BY <2>3, <4>1, <4>2, <1>t, Zenon DEF RegisterAllocate, TypeOK, Opened
    <3>2. CASE RegisterInsert(conn[s]) \/ RegisterIndex(conn[s])
      BY <2>3, <3>2, <1>t, Zenon DEF RegisterInsert, RegisterIndex, TypeOK, Opened
    <3>3. CASE UnregisterRemove(conn[s]) \/ UnregisterIndex(conn[s])
      BY <2>3, <3>3, <1>t, Zenon DEF UnregisterRemove, UnregisterIndex, TypeOK, Opened
    <3> QED BY <1>2, <3>1, <3>2, <3>3, Zenon DEF Register, Drop
  <2> QED BY <1>1, <2>2, <2>3, Zenon
<1>3. ASSUME NEW s \in Streams, Task(s), ~Register(s), ~Drop(s)
      PROVE  StaleInv'
  <2>1. UNCHANGED <<cmVars, userVars>>
    BY <1>3, Zenon DEF Task, RouteRejects, RouteAccepts, Respond, RespondFails, Start,
       ConnectSucceeds, ConnectFails, RelayKicked, Shutdown, UotBind, UotShutdown
  <2> QED BY <1>1, <2>1, Zenon DEF cmVars, mapVars, kickVars, userVars
<1>4. ASSUME NEW s \in Streams, Peers(s)
      PROVE  StaleInv'
  <2>1. UNCHANGED <<cmVars, userVars>>
    BY <1>4, Zenon DEF Peers, RequestRejected, RequestUnauthorized, RequestAuthenticated,
       RelayMoves, RelayEnds, UotRequest, UotMoves, UotEnds
  <2> QED BY <1>1, <2>1, Zenon DEF cmVars, mapVars, kickVars, userVars
<1>5. ASSUME NEW new \in [Users -> Versions \cup {NoUuid}], DiffApply(new)
      PROVE  StaleInv'
  <2>1. ASSUME NEW id \in staleOpen'
        PROVE  phase[id] = "registered" /\ owner[id] \in removed_ids' \cup changed_ids'
    <3>1. PICK s \in Streams : /\ id = conn[s]
                               /\ pc[s] \in Tunnelled
                               /\ credential[login[s].user] = login[s].uuid
                               /\ new[login[s].user] # login[s].uuid
      BY <1>5, <2>1, Zenon DEF DiffApply
    <3>2. phase[id] = "registered" /\ owner[id] = login[s].user /\ login[s] \in Logins
      BY <3>1, Zenon DEF StreamOK, Tunnelled
    <3>3. owner[id] \in Users /\ credential[owner[id]] # NoUuid /\ new[owner[id]] # credential[owner[id]]
      BY <3>1, <3>2, Zenon DEF Logins
    <3> QED BY <1>5, <3>2, <3>3, Zenon DEF DiffApply
  <2>2. UNCHANGED <<phase, owner>>
    BY <1>5, Zenon DEF DiffApply, cmVars, mapVars
  <2> QED BY <2>1, <2>2, Zenon DEF StaleInv, Opened
<1>6. ASSUME NEW k \in Kickers, KickNext(k)
      PROVE  StaleInv'
  <2>1. PICK u \in Users :
            /\ removed_ids \cup changed_ids \subseteq removed_ids' \cup changed_ids' \cup {u}
            /\ IF u \in DOMAIN user_connections THEN KickBegin(k, u) ELSE UNCHANGED cmVars
    BY <1>6, Zenon DEF KickNext
  <2>2. UNCHANGED <<staleOpen, phase, owner, cancelled>>
    BY <1>6, <2>1, Zenon DEF KickNext, KickBegin, cmVars, mapVars
  <2>3. \A j \in Kickers : kicking[j] = NoUser
    BY <1>6, Zenon DEF KickNext
  <2>4. ASSUME NEW id \in staleOpen, phase[id] = "registered", id \notin cancelled
        PROVE  owner[id] \in removed_ids' \cup changed_ids' \/ kicking'[k] = owner[id]
    <3>1. owner[id] \in removed_ids \cup changed_ids
      BY <2>3, <2>4, <1>t, <1>o, ConstantsAssumption, Zenon DEF StaleInv
    <3>2. CASE owner[id] = u
      <4>1. u \in DOMAIN user_connections
        BY <2>4, <3>2, <1>t, Zenon DEF IInv, MapsInv, IndexOf, Indexed
      <4>2. KickBegin(k, u)
        BY <2>1, <4>1, Zenon
      <4>3. kicking' = [kicking EXCEPT ![k] = u] /\ kicking \in [Kickers -> Users \cup {NoUser}]
        BY <4>2, <1>t, Zenon DEF KickBegin, TypeOK
      <4> QED BY <3>2, <4>3, Zenon
    <3> QED BY <2>1, <3>1, <3>2, Zenon
  <2> QED BY <2>2, <2>4, Zenon DEF StaleInv
<1>7. ASSUME NEW k \in Kickers, KickStep(k)
      PROVE  StaleInv'
  <2>1. CASE \E id \in ConnIds : KickVisit(k, id)
    BY <1>1, <1>7, <2>1, Zenon DEF KickStep, KickVisit, mapVars, userVars
  <2>2. CASE KickEnd(k)
    <3>1. \A id \in ConnIds :
             phase[id] = "registered" /\ owner[id] = kicking[k] => id \in cancelled
      BY <2>2, Zenon DEF KickEnd, IInv, KickInv, Registered
    <3>2. \A j \in Kickers : j # k => kicking'[j] = kicking[j]
      BY <2>2, <1>t, Zenon DEF KickEnd, TypeOK
    <3>3. UNCHANGED <<staleOpen, removed_ids, changed_ids, phase, owner, cancelled>>
      BY <1>7, <2>2, Zenon DEF KickStep, KickEnd, mapVars, userVars
    <3> QED BY <3>1, <3>2, <3>3, <1>t DEF StaleInv
  <2> QED BY <1>7, <2>1, <2>2, Zenon DEF KickStep
<1>8. CASE UNCHANGED vars
  BY <1>1, <1>8, Zenon DEF vars, cmVars, mapVars, kickVars, userVars
<1> QED BY <1>2, <1>3, <1>4, <1>5, <1>6, <1>7, <1>8, Zenon DEF Next, Sync
-----------------------------------------------------------------------------
\* The strengthened invariant holds in every reachable state.
THEOREM TunnelInvariant == Spec => []TInv
<1>1. TInv /\ [Next]_vars => TInv'
  BY StepIsRegistryStep, StepIInv, StepTypes, StepStreams, StepUsage, StepStale, Zenon DEF TInv
<1> QED BY InitTInv, <1>1, PTL DEF Spec

\* Streams, user list, counters and registry keep their types.
THEOREM TunnelTypeCorrect == Spec => []TunnelTypeOK
<1>1. TInv => TunnelTypeOK
  BY Zenon DEF TInv
<1> QED BY TunnelInvariant, <1>1, PTL

\* A tunnel is in both maps, under its own user and an id of its own, from the
\* return of register to the drop of its guard, and in neither once it is done.
THEOREM TunnelsAreTracked == Spec => []RegistryTracksTunnels
<1>1. TInv => RegistryTracksTunnels
  <2> SUFFICES ASSUME TInv PROVE RegistryTracksTunnels
    BY Zenon
  <2>1. ASSUME NEW s \in Streams, pc[s] \in Tunnelled
        PROVE  /\ conn[s] \in DOMAIN connections
               /\ connections[conn[s]] = login[s].user
               /\ conn[s] \in IndexOf(login[s].user)
    <3>1. /\ conn[s] \in ConnIds
          /\ phase[conn[s]] = "registered"
          /\ owner[conn[s]] = login[s].user
          /\ login[s].user \in Users
      BY <2>1 DEF TInv, TunnelTypeOK, StreamOK, Tunnelled, Logins
    <3>2. MapsInv
      BY Zenon DEF TInv, IInv
    <3> QED BY <3>1, <3>2, Zenon DEF MapsInv, Published, Indexed
  <2>2. ASSUME NEW s \in Streams, pc[s] = "done"
        PROVE  /\ conn[s] \notin DOMAIN connections
               /\ \A u \in Users : conn[s] \notin IndexOf(u)
    <3>1. CASE conn[s] = 0
      <4>1. 0 \notin ConnIds
        BY ConstantsAssumption DEF ConnIds
      <4> QED BY <3>1, <4>1, Zenon DEF TInv, IInv, TypeOK, IndexOf
    <3>2. CASE conn[s] \in ConnIds /\ phase[conn[s]] = "gone"
      <4>1. MapsInv
        BY Zenon DEF TInv, IInv
      <4> QED BY <3>2, <4>1, Zenon DEF MapsInv, Published, Indexed
    <3>3. conn[s] \in ConnIds \cup {0}
      BY DEF TInv, TunnelTypeOK
    <3>4. conn[s] = 0 \/ phase[conn[s]] = "gone"
      BY <2>2, Zenon DEF TInv, StreamOK
    <3> QED BY <3>1, <3>2, <3>3, <3>4, Zenon
  <2> QED BY <2>1, <2>2, Zenon DEF RegistryTracksTunnels, TInv, Distinct
<1> QED BY TunnelInvariant, <1>1, PTL

\* A returned on_user_diff callback leaves no tunnel that was open under a
\* credential it revoked, except cancelled ones.
THEOREM DiffKicksOpenTunnels == Spec => []StaleKicked
<1>1. TInv => StaleKicked
  <2> SUFFICES ASSUME TInv, CallbackIdle, NEW id \in staleOpen, id \in DOMAIN connections
               PROVE  id \in cancelled
    BY Zenon DEF StaleKicked
  <2>1. id \in ConnIds /\ phase[id] = "registered"
    <3>1. id \in ConnIds
      BY Zenon DEF TInv, TunnelTypeOK
    <3>2. phase[id] \in Opened
      BY Zenon DEF TInv, StaleInv
    <3>3. phase[id] \in Published
      BY <3>1, Zenon DEF TInv, IInv, MapsInv
    <3> QED BY <3>1, <3>2, <3>3, Zenon DEF Published, Opened
  <2>2. owner[id] \in Users
    BY <2>1, Zenon DEF TInv, IInv, AllocationInv
  <2> QED BY <2>1, <2>2, ConstantsAssumption, Zenon DEF TInv, StaleInv, CallbackIdle
<1> QED BY TunnelInvariant, <1>1, PTL

\* Recorded traffic never exceeds relayed traffic, and a finished tunnel lacks
\* some only if it was kicked out of its relay.
THEOREM TrafficIsAccounted == Spec => []UsageAccounted
<1>1. TInv => UsageAccounted
  <2> SUFFICES ASSUME TInv, NEW s \in Streams
               PROVE  /\ recorded[s] <= moved[s]
                      /\ pc[s] = "done" /\ recorded[s] < moved[s] =>
                            Kicked(s) /\ shut[s] = {"client", "remote"}
    BY Zenon DEF UsageAccounted
  <2>1. moved[s] \in Nat /\ recorded[s] \in Nat /\ UsageOK(s)
    BY DEF TInv, TunnelTypeOK
  <2>2. recorded[s] = 0 \/ recorded[s] = moved[s]
    BY <2>1, Zenon DEF UsageOK
  <2>3. recorded[s] <= moved[s]
    BY <2>1, <2>2
  <2>4. pc[s] = "done" /\ recorded[s] # moved[s] => Kicked(s) /\ shut[s] = {"client", "remote"}
    BY <2>1, Zenon DEF UsageOK
  <2> QED BY <2>1, <2>3, <2>4
<1> QED BY TunnelInvariant, <1>1, PTL
=============================================================================
