------------------------- MODULE ConnectionManager -------------------------
(***************************************************************************)
(* The connection registry (src/core/connection.rs): two concurrent maps,  *)
(* connections (id -> owner and cancel token) and user_connections         *)
(* (user -> set of ids), updated one after the other by register and       *)
(* unregister, and read by kick_user and cancel_all.                       *)
(*                                                                         *)
(* A step is one operation on one DashMap shard, the unit the code makes   *)
(* atomic.  Any number of callers may be between two such steps: the phase *)
(* of a connection is the position of its register/unregister call.        *)
(***************************************************************************)
EXTENDS Naturals, FiniteSets

CONSTANTS Users,      \* user ids
          NoUser,     \* not a user: the kicker is idle, the id is unused
          Kickers,    \* the tasks that call kick_user
          MaxConns,   \* bound on the ids handed out by next_conn_id
          NumShards,  \* shards of each DashMap
          UserShard,  \* the shard that holds a user's entry
          ConnShard   \* the shard that holds a connection's entry

ConnIds == 1..MaxConns
Shards == 1..NumShards

ASSUME ConstantsAssumption ==
    /\ MaxConns \in Nat
    /\ NumShards \in Nat
    /\ NoUser \notin Users
    /\ UserShard \in [Users -> Shards]
    /\ ConnShard \in [ConnIds -> Shards]

VARIABLES next_conn_id,      \* AtomicU64, starts at 1
          connections,       \* id -> user_id, a function on the present ids
          user_connections,  \* user -> ids, a function on the present entries
          cancelled,         \* ids whose CancellationToken is cancelled
          phase,             \* position of the id's register/unregister call
          owner,             \* the user_id argument of register
          kicking,           \* kicker -> user whose entry it holds a guard on
          todo,              \* kicker -> ids of the entry still to visit
          sweepShard,        \* cancel_all: shard being iterated (0 not begun)
          sweepTodo,         \* cancel_all: ids of that shard still to visit
          sweepCount         \* cancel_all: value it will return

\* History only, never read by an action: the ids some kick has looked up, the
\* ids present when cancel_all began, the users kicked so far.
VARIABLES passed, atSweep, kickedUsers

mapVars   == <<next_conn_id, connections, user_connections, phase, owner>>
kickVars  == <<kicking, todo, passed, kickedUsers>>
sweepVars == <<sweepShard, sweepTodo, sweepCount, atSweep>>
cmVars    == <<mapVars, cancelled, kickVars, sweepVars>>

Phases == {"free", "allocated", "inserted", "registered", "removed", "gone"}

TypeOK ==
    /\ next_conn_id \in 1..(MaxConns + 1)
    /\ DOMAIN connections \subseteq ConnIds
    /\ connections \in [DOMAIN connections -> Users]
    /\ DOMAIN user_connections \subseteq Users
    /\ user_connections \in [DOMAIN user_connections -> SUBSET ConnIds]
    /\ cancelled \subseteq ConnIds
    /\ phase \in [ConnIds -> Phases]
    /\ owner \in [ConnIds -> Users \cup {NoUser}]
    /\ kicking \in [Kickers -> Users \cup {NoUser}]
    /\ todo \in [Kickers -> SUBSET ConnIds]
    /\ sweepShard \in 0..(NumShards + 1)
    /\ sweepTodo \subseteq ConnIds
    /\ sweepCount \in Nat
    /\ passed \subseteq ConnIds
    /\ atSweep \subseteq ConnIds
    /\ kickedUsers \subseteq Users

CMInit ==
    /\ next_conn_id = 1
    /\ connections = [id \in {} |-> NoUser]
    /\ user_connections = [u \in {} |-> {}]
    /\ cancelled = {}
    /\ phase = [id \in ConnIds |-> "free"]
    /\ owner = [id \in ConnIds |-> NoUser]
    /\ kicking = [k \in Kickers |-> NoUser]
    /\ todo = [k \in Kickers |-> {}]
    /\ sweepShard = 0
    /\ sweepTodo = {}
    /\ sweepCount = 0
    /\ passed = {}
    /\ atSweep = {}
    /\ kickedUsers = {}

IndexOf(u) ==
    IF u \in DOMAIN user_connections THEN user_connections[u] ELSE {}

\* kick_user keeps the guard returned by user_connections.get for its whole
\* loop, so writers of that shard of user_connections wait.
UserMapLocked(u) ==
    \E k \in Kickers : /\ kicking[k] \in Users
                       /\ UserShard[kicking[k]] = UserShard[u]

\* The iterator of cancel_all read-locks the shard it stands in.
ConnMapLocked(id) == sweepShard = ConnShard[id]

-----------------------------------------------------------------------------
(* register: three steps *)

RegisterAllocate(id, u) ==
    /\ id = next_conn_id
    /\ next_conn_id \in ConnIds
    /\ next_conn_id' = next_conn_id + 1
    /\ phase' = [phase EXCEPT ![id] = "allocated"]
    /\ owner' = [owner EXCEPT ![id] = u]
    /\ UNCHANGED <<connections, user_connections, cancelled, kickVars, sweepVars>>

RegisterInsert(id) ==
    /\ phase[id] = "allocated"
    /\ ~ConnMapLocked(id)
    /\ connections' = [c \in DOMAIN connections \cup {id} |->
                          IF c = id THEN owner[id] ELSE connections[c]]
    /\ phase' = [phase EXCEPT ![id] = "inserted"]
    /\ UNCHANGED <<next_conn_id, user_connections, owner, cancelled, kickVars, sweepVars>>

RegisterIndex(id) ==
    /\ phase[id] = "inserted"
    /\ ~UserMapLocked(owner[id])
    /\ user_connections' =
          [u \in DOMAIN user_connections \cup {owner[id]} |->
              IF u = owner[id] THEN IndexOf(u) \cup {id} ELSE user_connections[u]]
    /\ phase' = [phase EXCEPT ![id] = "registered"]
    /\ UNCHANGED <<next_conn_id, connections, owner, cancelled, kickVars, sweepVars>>

\* Faulty variant: the index is filled before connections.
RegisterPublishSwapped(id) ==
    \/ /\ phase[id] = "allocated"
       /\ ~UserMapLocked(owner[id])
       /\ user_connections' =
             [u \in DOMAIN user_connections \cup {owner[id]} |->
                 IF u = owner[id] THEN IndexOf(u) \cup {id} ELSE user_connections[u]]
       /\ phase' = [phase EXCEPT ![id] = "inserted"]
       /\ UNCHANGED <<next_conn_id, connections, owner, cancelled, kickVars, sweepVars>>
    \/ /\ phase[id] = "inserted"
       /\ ~ConnMapLocked(id)
       /\ connections' = [c \in DOMAIN connections \cup {id} |->
                             IF c = id THEN owner[id] ELSE connections[c]]
       /\ phase' = [phase EXCEPT ![id] = "registered"]
       /\ UNCHANGED <<next_conn_id, user_connections, owner, cancelled, kickVars, sweepVars>>

\* connections first, then the index.
RegisterPublish(id) == RegisterInsert(id) \/ RegisterIndex(id)

(* unregister: two steps *)

UnregisterRemove(id) ==
    /\ phase[id] = "registered"
    /\ ~ConnMapLocked(id)
    /\ connections' = [c \in DOMAIN connections \ {id} |-> connections[c]]
    /\ phase' = [phase EXCEPT ![id] = IF id \in DOMAIN connections
                                      THEN "removed" ELSE "gone"]
    /\ UNCHANGED <<next_conn_id, user_connections, owner, cancelled, kickVars, sweepVars>>

\* Faulty variant: an entry that becomes empty stays in the map.
UnregisterIndexKeepsEntry(id) ==
    /\ phase[id] = "removed"
    /\ ~UserMapLocked(owner[id])
    /\ user_connections' = [user_connections EXCEPT ![owner[id]] = @ \ {id}]
    /\ phase' = [phase EXCEPT ![id] = "gone"]
    /\ UNCHANGED <<next_conn_id, connections, owner, cancelled, kickVars, sweepVars>>

\* remove_if_mut: drop the id, and the entry with it when that leaves it empty.
UnregisterIndex(id) ==
    LET u == owner[id]
        kept == IndexOf(u) \ {id}
    IN /\ phase[id] = "removed"
       /\ ~UserMapLocked(u)
       /\ user_connections' =
             [v \in DOMAIN user_connections \ (IF kept = {} THEN {u} ELSE {}) |->
                 IF v = u THEN kept ELSE user_connections[v]]
       /\ phase' = [phase EXCEPT ![id] = "gone"]
       /\ UNCHANGED <<next_conn_id, connections, owner, cancelled, kickVars, sweepVars>>

-----------------------------------------------------------------------------
(* kick_user: take the guard, look up and cancel each id, drop the guard.   *)
(* A user without an entry is a call that changes nothing.                  *)

\* Faulty variant: iterates all connections instead of the user's entry.
KickBeginEveryone(k, u) ==
    /\ kicking[k] = NoUser
    /\ u \in DOMAIN user_connections
    /\ kicking' = [kicking EXCEPT ![k] = u]
    /\ todo' = [todo EXCEPT ![k] = DOMAIN connections]
    /\ kickedUsers' = kickedUsers \cup {u}
    /\ UNCHANGED <<mapVars, cancelled, sweepVars, passed>>

KickBegin(k, u) ==
    /\ kicking[k] = NoUser
    /\ u \in DOMAIN user_connections
    /\ kicking' = [kicking EXCEPT ![k] = u]
    /\ todo' = [todo EXCEPT ![k] = user_connections[u]]
    /\ kickedUsers' = kickedUsers \cup {u}
    /\ UNCHANGED <<mapVars, cancelled, sweepVars, passed>>

KickVisit(k, id) ==
    /\ id \in todo[k]
    /\ todo' = [todo EXCEPT ![k] = @ \ {id}]
    /\ cancelled' = IF id \in DOMAIN connections
                    THEN cancelled \cup {id} ELSE cancelled
    /\ passed' = passed \cup {id}
    /\ UNCHANGED <<mapVars, kicking, kickedUsers, sweepVars>>

\* Faulty variant: returns after the first id it visits.
KickEndEarly(k) ==
    /\ kicking[k] \in Users
    /\ kicking' = [kicking EXCEPT ![k] = NoUser]
    /\ todo' = [todo EXCEPT ![k] = {}]
    /\ UNCHANGED <<mapVars, cancelled, passed, kickedUsers, sweepVars>>

KickEnd(k) ==
    /\ kicking[k] \in Users
    /\ todo[k] = {}
    /\ kicking' = [kicking EXCEPT ![k] = NoUser]
    /\ UNCHANGED <<mapVars, cancelled, todo, passed, kickedUsers, sweepVars>>

-----------------------------------------------------------------------------
(* cancel_all: DashMap::iter goes shard by shard, it is not a snapshot.     *)

CancelAllNextShard ==
    /\ sweepTodo = {}
    /\ sweepShard <= NumShards
    /\ sweepShard' = sweepShard + 1
    /\ sweepTodo' = {id \in DOMAIN connections : ConnShard[id] = sweepShard + 1}
    /\ atSweep' = IF sweepShard = 0 THEN DOMAIN connections ELSE atSweep
    /\ UNCHANGED <<mapVars, cancelled, kickVars, sweepCount>>

\* Faulty variant: leaves the shard after one entry.
CancelAllVisitOne(id) ==
    /\ id \in sweepTodo
    /\ sweepTodo' = {}
    /\ cancelled' = cancelled \cup {id}
    /\ sweepCount' = sweepCount + 1
    /\ UNCHANGED <<mapVars, kickVars, sweepShard, atSweep>>

CancelAllVisit(id) ==
    /\ id \in sweepTodo
    /\ sweepTodo' = sweepTodo \ {id}
    /\ cancelled' = cancelled \cup {id}
    /\ sweepCount' = sweepCount + 1
    /\ UNCHANGED <<mapVars, kickVars, sweepShard, atSweep>>

-----------------------------------------------------------------------------
\* The most general client: any task may register for any user and drop its
\* connection at any time, kicks and one cancel_all may come at any time.
CMNext ==
    \/ \E id \in ConnIds, u \in Users : RegisterAllocate(id, u)
    \/ \E id \in ConnIds : RegisterPublish(id)
    \/ \E id \in ConnIds : UnregisterRemove(id)
    \/ \E id \in ConnIds : UnregisterIndex(id)
    \/ \E k \in Kickers, u \in Users : KickBegin(k, u)
    \/ \E k \in Kickers, id \in ConnIds : KickVisit(k, id)
    \/ \E k \in Kickers : KickEnd(k)
    \/ CancelAllNextShard
    \/ \E id \in ConnIds : CancelAllVisit(id)

CMSpec == CMInit /\ [][CMNext]_cmVars

-----------------------------------------------------------------------------
SweepDone == sweepShard = NumShards + 1

\* The two maps never disagree except inside a register or unregister call:
\* a connection whose register returned is in its owner's entry and in no
\* other, an indexed id that is no longer in connections is being
\* unregistered, and no empty entry stays behind (user_count would count it).
IndexAgrees ==
    /\ \A id \in ConnIds : phase[id] = "registered" =>
          /\ id \in DOMAIN connections
          /\ connections[id] = owner[id]
          /\ id \in IndexOf(owner[id])
    /\ \A u \in DOMAIN user_connections :
          /\ user_connections[u] # {}
          /\ \A id \in user_connections[u] :
                /\ owner[id] = u
                /\ id \in DOMAIN connections \/ phase[id] = "removed"

\* A kick misses nothing it has seen: an id that kick_user looked up is either
\* cancelled or has left connections for good.  It rests on register filling
\* connections before the index and on unregister emptying it first.
KickReaches ==
    \A id \in passed : id \in DOMAIN connections => id \in cancelled

\* When kick_user returns, every connection of the user whose register had
\* returned is cancelled: nothing can join the entry while the guard is held.
KickComplete ==
    [][\A k \in Kickers : kicking[k] \in Users /\ kicking'[k] = NoUser =>
          \A id \in ConnIds :
              phase[id] = "registered" /\ owner[id] = kicking[k] => id \in cancelled]_cmVars

\* When cancel_all returns, every connection that was present when it began is
\* cancelled or has unregistered, although the map changes under the iterator.
SweepReaches ==
    SweepDone => \A id \in atSweep : id \in DOMAIN connections => id \in cancelled

\* A token is cancelled only because its owner was kicked or by cancel_all: a
\* kick never hits another user's connection.
NoCollateral ==
    \A id \in cancelled : owner[id] \in kickedUsers \/ sweepShard # 0

-----------------------------------------------------------------------------
Opened == {"registered", "removed", "gone"}

Registered(u) == {id \in ConnIds : phase[id] = "registered" /\ owner[id] = u}

\* Refinement mapping: a connection opens when register has filled the index
\* and closes when unregister takes it out of connections.
Contract == INSTANCE KickContract WITH
    Ids <- ConnIds,
    user <- [id \in ConnIds |-> IF phase[id] \in Opened THEN owner[id] ELSE NoUser],
    live <- {id \in ConnIds : phase[id] = "registered"},
    active <- kicking,
    target <- [k \in Kickers |-> IF kicking[k] = NoUser THEN {} ELSE Registered(kicking[k])],
    stopping <- sweepShard # 0

\* The registry, with its two maps and its guards, implements the contract in
\* which register, unregister and the visit of a kick are single steps.
ContractSpec == Contract!Spec
=============================================================================
