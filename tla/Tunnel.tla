------------------------------- MODULE Tunnel -------------------------------
(***************************************************************************)
(* CONNECT requests from their headers to the end of their tunnel          *)
(* (src/handler.rs), beside the user-list sync that kicks users            *)
(* (on_user_diff in src/main.rs), over the registry of ConnectionManager.  *)
(*                                                                         *)
(* A step of a stream goes from one await point of its task to the next,   *)
(* except in register and unregister, which keep the registry's own steps. *)
(***************************************************************************)
EXTENDS ConnectionManager

CONSTANTS Streams,   \* request streams, each handled by one task
          Versions,  \* values a user's uuid can take
          NoUuid,    \* the user is not in the list
          Kinds,     \* kinds of target host the clients ask for
          MaxDiffs,  \* bound on changes of the user list
          MaxBytes   \* bound on the bytes one tunnel relays

ASSUME TunnelAssumption ==
    /\ MaxDiffs \in Nat
    /\ MaxBytes \in Nat
    /\ Kinds \subseteq {"tcp", "uot_v1", "uot_v2"}
    /\ NoUuid \notin Versions

VARIABLES credential,   \* UserManager: user -> uuid, or NoUuid
          diffs,        \* changes of the user list so far
          removed_ids,  \* on_user_diff callback: removed users still to kick
          changed_ids,  \* and users with a new uuid still to kick
          pc,           \* stream -> position of its task
          login,        \* stream -> user and uuid it authenticated with
          kind,         \* stream -> what the target host is
          status,       \* stream -> response status, 0 when none was sent
          conn,         \* stream -> conn_id of its tunnel, 0 before register
          requests,     \* stats: requests recorded per user
          moved,        \* stream -> bytes its relay has moved
          recorded,     \* stream -> bytes recorded in the stats
          shut          \* stream -> sides of the tunnel shut down explicitly

\* History only: connections open under a credential that a diff revoked.
VARIABLE staleOpen

userVars   == <<credential, diffs, removed_ids, changed_ids, staleOpen>>
dataVars   == <<moved, recorded, shut>>
streamVars == <<pc, login, kind, status, conn, requests, dataVars>>
vars       == <<cmVars, userVars, streamVars>>

NoLogin == [user |-> NoUser, uuid |-> NoUuid]
Logins == [user : Users, uuid : Versions]
Malformed == {"bad_method", "no_padding", "bad_authority", "bad_auth"}

Positions == {"idle", "routing", "responding", "registering", "starting",
              "connecting", "relaying", "shut_client", "shut_remote",
              "uot_request", "uot_binding", "uot_relaying", "uot_shutdown",
              "dropping", "done"}

\* Positions at which the tunnel is registered and its guard is armed.
Tunnelled == {"starting", "connecting", "relaying", "shut_client", "shut_remote",
              "uot_request", "uot_binding", "uot_relaying", "uot_shutdown"}

TunnelTypeOK ==
    /\ TypeOK
    /\ credential \in [Users -> Versions \cup {NoUuid}]
    /\ diffs \in 0..MaxDiffs
    /\ removed_ids \subseteq Users
    /\ changed_ids \subseteq Users
    /\ staleOpen \subseteq ConnIds
    /\ pc \in [Streams -> Positions]
    /\ login \in [Streams -> Logins \cup {NoLogin}]
    /\ kind \in [Streams -> Kinds]
    /\ status \in [Streams -> {0, 200, 400, 403, 405, 407}]
    /\ conn \in [Streams -> ConnIds \cup {0}]
    /\ requests \in [Users -> Nat]
    /\ moved \in [Streams -> 0..MaxBytes]
    /\ recorded \in [Streams -> 0..MaxBytes]
    /\ shut \in [Streams -> SUBSET {"client", "remote"}]

\* The user list has been fetched before the server starts; nothing is open.
Init ==
    /\ CMInit
    /\ credential \in [Users -> Versions \cup {NoUuid}]
    /\ diffs = 0
    /\ removed_ids = {}
    /\ changed_ids = {}
    /\ staleOpen = {}
    /\ pc = [s \in Streams |-> "idle"]
    /\ login = [s \in Streams |-> NoLogin]
    /\ kind \in [Streams -> Kinds]
    /\ status = [s \in Streams |-> 0]
    /\ conn = [s \in Streams |-> 0]
    /\ requests = [u \in Users |-> 0]
    /\ moved = [s \in Streams |-> 0]
    /\ recorded = [s \in Streams |-> 0]
    /\ shut = [s \in Streams |-> {}]

Goto(s, from, to) ==
    /\ pc[s] = from
    /\ pc' = [pc EXCEPT ![s] = to]

Kicked(s) == conn[s] \in cancelled

-----------------------------------------------------------------------------
(* The request handlers, up to the registered tunnel.                       *)

\* The checks run in this order, without an await before the verdict: method,
\* padding header, authority (no response at all), credentials.
RequestRejected(s, r) ==
    /\ Goto(s, "idle", "done")
    /\ status' = [status EXCEPT ![s] = CASE r = "bad_method" -> 405
                                         [] r = "no_padding" -> 400
                                         [] r = "bad_authority" -> 0
                                         [] r = "bad_auth" -> 407]
    /\ UNCHANGED <<cmVars, userVars, login, kind, conn, requests, dataVars>>

RequestUnauthorized(s, l) ==
    /\ credential[l.user] # l.uuid
    /\ Goto(s, "idle", "done")
    /\ status' = [status EXCEPT ![s] = 407]
    /\ UNCHANGED <<cmVars, userVars, login, kind, conn, requests, dataVars>>

RequestAuthenticated(s, l) ==
    /\ credential[l.user] = l.uuid
    /\ Goto(s, "idle", "routing")
    /\ login' = [login EXCEPT ![s] = l]
    /\ UNCHANGED <<cmVars, userVars, kind, status, conn, requests, dataVars>>

\* router.route(&target).await; OutboundType::Reject is answered with 403.
RouteRejects(s) ==
    /\ Goto(s, "routing", "done")
    /\ status' = [status EXCEPT ![s] = 403]
    /\ UNCHANGED <<cmVars, userVars, login, kind, conn, requests, dataVars>>

RouteAccepts(s) ==
    /\ Goto(s, "routing", "responding")
    /\ UNCHANGED <<cmVars, userVars, login, kind, status, conn, requests, dataVars>>

\* 200 goes out before the outbound connection is attempted.
Respond(s) ==
    /\ Goto(s, "responding", "registering")
    /\ status' = [status EXCEPT ![s] = 200]
    /\ UNCHANGED <<cmVars, userVars, login, kind, conn, requests, dataVars>>

RespondFails(s) ==
    /\ Goto(s, "responding", "done")
    /\ UNCHANGED <<cmVars, userVars, login, kind, status, conn, requests, dataVars>>

\* process_tunnel: conn_manager.register, step by step.
Register(s) ==
    \/ /\ pc[s] = "registering"
       /\ conn[s] = 0
       /\ \E id \in ConnIds :
             /\ RegisterAllocate(id, login[s].user)
             /\ conn' = [conn EXCEPT ![s] = id]
       /\ UNCHANGED <<userVars, pc, login, kind, status, requests, dataVars>>
    \/ /\ conn[s] # 0
       /\ RegisterInsert(conn[s])
       /\ pc[s] = "registering"
       /\ UNCHANGED <<userVars, streamVars>>
    \/ /\ conn[s] # 0
       /\ RegisterIndex(conn[s])
       /\ Goto(s, "registering", "starting")
       /\ UNCHANGED <<userVars, login, kind, status, conn, requests, dataVars>>

\* record_request, then dispatch on the target host (detect_uot).
Start(s) ==
    /\ Goto(s, "starting", CASE kind[s] = "tcp" -> "connecting"
                             [] kind[s] = "uot_v1" -> "uot_binding"
                             [] kind[s] = "uot_v2" -> "uot_request")
    /\ requests' = [requests EXCEPT ![login[s].user] = @ + 1]
    /\ UNCHANGED <<cmVars, userVars, login, kind, status, conn, dataVars>>

-----------------------------------------------------------------------------
(* TCP tunnels: outbound connect, relay, teardown.                          *)

\* The cancel token is not looked at while connecting.
ConnectSucceeds(s) ==
    /\ Goto(s, "connecting", "relaying")
    /\ UNCHANGED <<cmVars, userVars, login, kind, status, conn, requests, dataVars>>

ConnectFails(s) ==
    /\ Goto(s, "connecting", "dropping")
    /\ UNCHANGED <<cmVars, userVars, login, kind, status, conn, requests, dataVars>>

\* One poll of select! { relay_fut, cancelled() } that moves a byte.  The
\* branches are polled in random order, so a kicked relay may move data in its
\* last poll, but not stay in the select after it.
RelayMoves(s) ==
    /\ pc[s] = "relaying"
    /\ moved[s] < MaxBytes
    /\ moved' = [moved EXCEPT ![s] = @ + 1]
    /\ pc' = [pc EXCEPT ![s] = IF Kicked(s) THEN "shut_client" ELSE @]
    /\ UNCHANGED <<cmVars, userVars, login, kind, status, conn, requests, recorded, shut>>

\* Faulty variant: an error return skips the recording.
RelayEndsUnrecorded(s) ==
    /\ Goto(s, "relaying", "dropping")
    /\ \/ recorded' = [recorded EXCEPT ![s] = moved[s]]
       \/ UNCHANGED recorded
    /\ UNCHANGED <<cmVars, userVars, login, kind, status, conn, requests, moved, shut>>

\* The relay ends by itself (completed, idle timeout or error) and records its
\* byte counts; the streams are dropped without an explicit shutdown.
RelayEnds(s) ==
    /\ Goto(s, "relaying", "dropping")
    /\ recorded' = [recorded EXCEPT ![s] = moved[s]]
    /\ UNCHANGED <<cmVars, userVars, login, kind, status, conn, requests, moved, shut>>

\* Faulty variant: the token is looked at only before the relay moves data.
RelayKickedAtStart(s) ==
    /\ Kicked(s)
    /\ moved[s] = 0
    /\ Goto(s, "relaying", "shut_client")
    /\ UNCHANGED <<cmVars, userVars, login, kind, status, conn, requests, dataVars>>

\* The cancelled branch wins: relay_fut is dropped before it records anything.
RelayKicked(s) ==
    /\ Kicked(s)
    /\ Goto(s, "relaying", "shut_client")
    /\ UNCHANGED <<cmVars, userVars, login, kind, status, conn, requests, dataVars>>

\* padded.shutdown() then remote_stream.shutdown(), each finished or given up
\* after SHUTDOWN_TIMEOUT, in this order.
Shutdown(s) ==
    \/ /\ Goto(s, "shut_client", "shut_remote")
       /\ shut' = [shut EXCEPT ![s] = @ \cup {"client"}]
       /\ UNCHANGED <<cmVars, userVars, login, kind, status, conn, requests, moved, recorded>>
    \/ /\ Goto(s, "shut_remote", "dropping")
       /\ shut' = [shut EXCEPT ![s] = @ \cup {"remote"}]
       /\ UNCHANGED <<cmVars, userVars, login, kind, status, conn, requests, moved, recorded>>

-----------------------------------------------------------------------------
(* UDP-over-TCP tunnels (handle_uot_stream), as this module sees them.      *)

\* The v2 request is read without looking at the token and without a timeout; an
\* error in it returns at once.
UotRequest(s) ==
    /\ \/ Goto(s, "uot_request", "uot_binding")
       \/ Goto(s, "uot_request", "dropping")
    /\ UNCHANGED <<cmVars, userVars, login, kind, status, conn, requests, dataVars>>

\* Both versions bind the socket, or return the error of binding or connecting it.
UotBind(s) ==
    /\ \/ Goto(s, "uot_binding", "uot_relaying")
       \/ Goto(s, "uot_binding", "dropping")
    /\ UNCHANGED <<cmVars, userVars, login, kind, status, conn, requests, dataVars>>

\* A datagram is counted as soon as it has been sent.
UotMoves(s) ==
    /\ pc[s] = "uot_relaying"
    /\ moved[s] < MaxBytes
    /\ moved' = [moved EXCEPT ![s] = @ + 1]
    /\ recorded' = [recorded EXCEPT ![s] = @ + 1]
    /\ UNCHANGED <<cmVars, userVars, pc, login, kind, status, conn, requests, shut>>

\* Either loop fails, or sees the token; both loops stop.
UotEnds(s) ==
    /\ Goto(s, "uot_relaying", "uot_shutdown")
    /\ UNCHANGED <<cmVars, userVars, login, kind, status, conn, requests, dataVars>>

UotShutdown(s) ==
    /\ Goto(s, "uot_shutdown", "dropping")
    /\ shut' = [shut EXCEPT ![s] = @ \cup {"client"}]
    /\ UNCHANGED <<cmVars, userVars, login, kind, status, conn, requests, moved, recorded>>

-----------------------------------------------------------------------------
\* Faulty variant: a tunnel that was never relayed skips the guard.
DropUnguarded(s) ==
    /\ pc[s] = "dropping"
    /\ \/ UnregisterRemove(conn[s]) /\ UNCHANGED pc
       \/ UnregisterIndex(conn[s]) /\ pc' = [pc EXCEPT ![s] = "done"]
       \/ moved[s] = 0 /\ pc' = [pc EXCEPT ![s] = "done"] /\ UNCHANGED cmVars
    /\ UNCHANGED <<userVars, login, kind, status, conn, requests, dataVars>>

\* The scope guard of process_tunnel: unregister, whatever the way out.
Drop(s) ==
    /\ pc[s] = "dropping"
    /\ \/ UnregisterRemove(conn[s]) /\ UNCHANGED pc
       \/ UnregisterIndex(conn[s]) /\ pc' = [pc EXCEPT ![s] = "done"]
    /\ UNCHANGED <<userVars, login, kind, status, conn, requests, dataVars>>

-----------------------------------------------------------------------------
(* User-list sync.                                                          *)

CallbackIdle ==
    /\ removed_ids = {}
    /\ changed_ids = {}
    /\ \A k \in Kickers : kicking[k] = NoUser

\* panel_core replaces the user list and then runs the callback with the diff;
\* it fetches again only when the callback has returned.
DiffApply(new) ==
    /\ CallbackIdle
    /\ diffs < MaxDiffs
    /\ new # credential
    /\ diffs' = diffs + 1
    /\ credential' = new
    /\ removed_ids' = {u \in Users : credential[u] # NoUuid /\ new[u] = NoUuid}
    /\ changed_ids' = {u \in Users : /\ credential[u] # NoUuid
                                     /\ new[u] \notin {NoUuid, credential[u]}}
    /\ staleOpen' = {conn[s] : s \in {t \in Streams :
                        /\ pc[t] \in Tunnelled
                        /\ credential[login[t].user] = login[t].uuid
                        /\ new[login[t].user] # login[t].uuid}}
    /\ UNCHANGED <<cmVars, streamVars>>

\* Faulty variant: only the removed users are kicked.
KickNextRemovedOnly(k) ==
    /\ \A j \in Kickers : kicking[j] = NoUser
    /\ \/ /\ removed_ids = {}
          /\ changed_ids # {}
          /\ changed_ids' = {}
          /\ UNCHANGED <<removed_ids, cmVars>>
       \/ \E u \in removed_ids :
             /\ removed_ids' = removed_ids \ {u}
             /\ UNCHANGED changed_ids
             /\ IF u \in DOMAIN user_connections
                THEN KickBegin(k, u) ELSE UNCHANGED cmVars
    /\ UNCHANGED <<credential, diffs, staleOpen, streamVars>>

\* The loop of the callback: removed ids first, then changed ids, kick_user on
\* each; a user without connections is skipped.
KickNext(k) ==
    /\ \A j \in Kickers : kicking[j] = NoUser
    /\ \E u \in Users :
          /\ IF removed_ids # {}
             THEN /\ u \in removed_ids
                  /\ removed_ids' = removed_ids \ {u}
                  /\ UNCHANGED changed_ids
             ELSE /\ u \in changed_ids
                  /\ changed_ids' = changed_ids \ {u}
                  /\ UNCHANGED removed_ids
          /\ IF u \in DOMAIN user_connections
             THEN KickBegin(k, u) ELSE UNCHANGED cmVars
    /\ UNCHANGED <<credential, diffs, staleOpen, streamVars>>

\* Faulty variant: the guard on the entry outlives the call.
KickStepKeepsGuard(k) ==
    /\ \E id \in ConnIds : KickVisit(k, id)
    /\ UNCHANGED <<userVars, streamVars>>

\* The remaining steps of the kick_user call.
KickStep(k) ==
    /\ (\E id \in ConnIds : KickVisit(k, id)) \/ KickEnd(k)
    /\ UNCHANGED <<userVars, streamVars>>

-----------------------------------------------------------------------------
\* What a stream's task does by itself once it is scheduled.
Task(s) ==
    \/ RouteRejects(s) \/ RouteAccepts(s)
    \/ Respond(s) \/ RespondFails(s)
    \/ Register(s) \/ Start(s)
    \/ ConnectSucceeds(s) \/ ConnectFails(s)
    \/ RelayKicked(s) \/ Shutdown(s)
    \/ UotBind(s) \/ UotShutdown(s) \/ Drop(s)

\* What the client and the origin decide.
Peers(s) ==
    \/ \E r \in Malformed : RequestRejected(s, r)
    \/ \E l \in Logins : RequestUnauthorized(s, l) \/ RequestAuthenticated(s, l)
    \/ RelayMoves(s) \/ RelayEnds(s)
    \/ UotRequest(s) \/ UotMoves(s) \/ UotEnds(s)

Sync ==
    \/ \E new \in [Users -> Versions \cup {NoUuid}] : DiffApply(new)
    \/ \E k \in Kickers : KickNext(k) \/ KickStep(k)

Next == (\E s \in Streams : Task(s) \/ Peers(s)) \/ Sync

Spec == Init /\ [][Next]_vars

\* The runtime keeps polling a task that can go on; connecting and shutting
\* down are bounded by timers, so they are the task's own progress.  Nothing is
\* assumed of the peers: a relay may never move a byte nor end by itself.
Fairness ==
    /\ \A s \in Streams : WF_vars(Task(s))
    /\ \A k \in Kickers : WF_vars(KickNext(k) \/ KickStep(k))

FairSpec == Spec /\ Fairness

-----------------------------------------------------------------------------
\* The registry is the truth about open tunnels: from the return of register
\* to the drop of the guard, on every path out of process_tunnel, the stream's
\* own id is in both maps under its own user, so a kick or connection_count
\* sees it; a finished stream has left both.
RegistryTracksTunnels ==
    /\ \A s \in Streams :
          /\ pc[s] \in Tunnelled =>
                /\ conn[s] \in DOMAIN connections
                /\ connections[conn[s]] = login[s].user
                /\ conn[s] \in IndexOf(login[s].user)
          /\ pc[s] = "done" =>
                /\ conn[s] \notin DOMAIN connections
                /\ \A u \in Users : conn[s] \notin IndexOf(u)
    /\ \A s, t \in Streams : s # t /\ conn[s] = conn[t] => conn[s] = 0

\* Hot reload reaches every tunnel that was open under the old list: once the
\* callback has returned, a tunnel whose credential that diff revoked has been
\* cancelled or is gone.
StaleKicked ==
    CallbackIdle => \A id \in staleOpen : id \in DOMAIN connections => id \in cancelled

\* Traffic is never recorded twice, and a finished tunnel misses traffic in the
\* stats only if it was kicked out of the relay's select.
UsageAccounted ==
    \A s \in Streams :
        /\ recorded[s] <= moved[s]
        /\ pc[s] = "done" /\ recorded[s] < moved[s] =>
              Kicked(s) /\ shut[s] = {"client", "remote"}

\* A kick that has seen a TCP tunnel ends it, wherever its task is (still
\* connecting, relaying, shutting down) and whatever the peers do.
KickEnds ==
    \A s \in Streams : (Kicked(s) /\ kind[s] = "tcp") ~> (pc[s] = "done")

\* A stream that was answered 200 gets its tunnel: register waits for kicks to
\* leave the entry of its shard, never for ever.
RegisterReturns ==
    \A s \in Streams : pc[s] = "registering" ~> pc[s] \in Tunnelled

\* README: "connection kick on user removal/change".  Once the callback has
\* returned, no tunnel relays for a credential that is not in the list, unless
\* its token is cancelled.
RevokedIsKicked ==
    CallbackIdle =>
        \A s \in Streams :
            pc[s] = "relaying" /\ credential[login[s].user] # login[s].uuid => Kicked(s)
=============================================================================
