---------------------- MODULE ConnectionManagerProofs ----------------------
(***************************************************************************)
(* Proofs about the connection registry, for any set of users, any number  *)
(* of kickers, ids and shards, and any placement of keys in shards.        *)
(***************************************************************************)
EXTENDS ConnectionManager, TLAPS

USE ConstantsAssumption DEF ConnIds, Shards

Published == {"inserted", "registered"}
Indexed == {"registered", "removed"}

\* fetch_add hands out each id once; an id in use has an owner.
AllocationInv ==
    /\ \A id \in ConnIds : phase[id] = "free" <=> id >= next_conn_id
    /\ \A id \in ConnIds : phase[id] # "free" => owner[id] \in Users
    /\ \A id \in cancelled : phase[id] # "free"

\* Each map holds exactly the ids whose calls are at the matching position.
MapsInv ==
    /\ \A id \in ConnIds : id \in DOMAIN connections <=> phase[id] \in Published
    /\ \A id \in DOMAIN connections : connections[id] = owner[id]
    /\ \A u \in DOMAIN user_connections : user_connections[u] # {}
    /\ \A u \in Users, id \in ConnIds :
          id \in IndexOf(u) <=> owner[id] = u /\ phase[id] \in Indexed

\* A running kick covers the entry it guards.
KickInv ==
    /\ \A k \in Kickers : kicking[k] \in Users => kicking[k] \in kickedUsers
    /\ \A k \in Kickers : \A id \in todo[k] :
          /\ kicking[k] \in Users
          /\ owner[id] = kicking[k]
          /\ phase[id] \in Opened
    /\ \A k \in Kickers : kicking[k] \in Users =>
          \A id \in Registered(kicking[k]) : id \in todo[k] \/ id \in cancelled
    /\ \A id \in passed : phase[id] \in Opened /\ (phase[id] = "registered" => id \in cancelled)

\* What cancel_all still has to visit is in the shard it stands in or beyond.
SweepInv ==
    /\ \A id \in sweepTodo : id \in DOMAIN connections /\ ConnShard[id] = sweepShard
    /\ sweepShard # 0 => \A id \in atSweep :
          /\ phase[id] \notin {"free", "allocated"}
          /\ id \in DOMAIN connections =>
                id \in cancelled \/ id \in sweepTodo \/ ConnShard[id] > sweepShard

IInv == TypeOK /\ AllocationInv /\ MapsInv /\ KickInv /\ SweepInv /\ NoCollateral
-----------------------------------------------------------------------------
\* The empty registry satisfies the inductive invariant.
LEMMA InitIInv == CMInit => IInv
  BY SMTT(20) DEF CMInit, IInv, TypeOK, AllocationInv, MapsInv, KickInv, SweepInv, NoCollateral,
         IndexOf, Registered, Phases, Published, Indexed

\* remove_if_mut takes the id out of its owner's index and leaves the index of
\* every other user alone.
LEMMA UnregisterIndexEffect ==
  ASSUME NEW id \in ConnIds, UnregisterIndex(id), NEW u \in Users
  PROVE  IndexOf(u)' = IF u = owner[id] THEN IndexOf(u) \ {id} ELSE IndexOf(u)
<1> DEFINE kept == IndexOf(owner[id]) \ {id}
           gone == IF kept = {} THEN {owner[id]} ELSE {}
<1>1. user_connections' = [v \in DOMAIN user_connections \ gone |->
                             IF v = owner[id] THEN kept ELSE user_connections[v]]
  BY Zenon DEF UnregisterIndex
<1>2. DOMAIN user_connections' = DOMAIN user_connections \ gone
  BY <1>1, Zenon
<1>3. CASE u # owner[id]
  <2>1. u \notin gone
    BY <1>3, Zenon
  <2> HIDE DEF gone, kept
  <2> QED BY <1>1, <1>2, <1>3, <2>1, Zenon DEF IndexOf
<1>4. CASE u = owner[id] /\ kept = {}
  <2>1. u \in gone
    BY <1>4, Zenon
  <2>2. IndexOf(u)' = {}
    BY <1>2, <2>1, Zenon DEF IndexOf
  <2> QED BY <1>4, <2>2, Zenon
<1>5. CASE u = owner[id] /\ kept # {}
  <2>1. u \notin gone
    BY <1>5, Zenon
  <2>2. u \in DOMAIN user_connections
    BY <1>5, Zenon DEF IndexOf
  <2>3. IndexOf(u)' = kept
    <3> HIDE DEF gone, kept
    <3> QED BY <1>1, <1>2, <1>5, <2>1, <2>2, Zenon DEF IndexOf
  <2> QED BY <1>5, <2>3, Zenon
<1> QED BY <1>3, <1>4, <1>5, Zenon

\* The same call keeps the two maps in agreement with the calls' positions.
LEMMA UnregisterIndexMaps ==
  ASSUME TypeOK, AllocationInv, MapsInv, NEW id \in ConnIds, UnregisterIndex(id)
  PROVE  MapsInv'
<1>1. UNCHANGED <<connections, owner>> /\ phase' = [phase EXCEPT ![id] = "gone"]
  BY Zenon DEF UnregisterIndex
<1>2. phase[id] = "removed" /\ phase \in [ConnIds -> Phases]
  BY Zenon DEF UnregisterIndex, TypeOK
<1>3. phase'[id] = "gone" /\ \A c \in ConnIds : c # id => phase'[c] = phase[c]
  BY <1>1, <1>2, Zenon
<1>4. \A u \in DOMAIN user_connections' : user_connections'[u] # {}
  BY Zenon DEF UnregisterIndex, MapsInv
<1>5. ASSUME NEW c \in ConnIds
      PROVE  c \in DOMAIN connections' <=> phase'[c] \in Published
  BY <1>1, <1>2, <1>3, Zenon DEF MapsInv, Published
<1>6. ASSUME NEW u \in Users, NEW c \in ConnIds
      PROVE  c \in IndexOf(u)' <=> owner'[c] = u /\ phase'[c] \in Indexed
  <2>1. c \in IndexOf(u) <=> owner[c] = u /\ phase[c] \in Indexed
    BY Zenon DEF MapsInv
  <2>2. IndexOf(u)' = IF u = owner[id] THEN IndexOf(u) \ {id} ELSE IndexOf(u)
    BY UnregisterIndexEffect, Zenon
  <2>3. CASE c = id
    BY <1>1, <1>3, <2>1, <2>2, <2>3, Zenon DEF Indexed
  <2>4. CASE c # id
    BY <1>1, <1>3, <2>1, <2>2, <2>4, Zenon
  <2> QED BY <2>3, <2>4, Zenon
<1>7. \A c \in DOMAIN connections' : connections'[c] = owner'[c]
  BY <1>1, Zenon DEF MapsInv
<1> QED BY <1>4, <1>5, <1>6, <1>7, Zenon DEF MapsInv

\* Every step of register, unregister, kick_user and cancel_all preserves the
\* inductive invariant.
LEMMA StepIInv == IInv /\ [CMNext]_cmVars => IInv'
<1> SUFFICES ASSUME IInv, [CMNext]_cmVars
             PROVE  IInv'
  BY Zenon
<1> USE DEF IInv, mapVars, kickVars, sweepVars
<1>1. ASSUME NEW id \in ConnIds, NEW u \in Users, RegisterAllocate(id, u)
      PROVE  IInv'
  <2>1. TypeOK'
    <3>1. next_conn_id' \in 1..(MaxConns + 1)
      BY <1>1 DEF RegisterAllocate, TypeOK
    <3>2. phase' \in [ConnIds -> Phases] /\ owner' \in [ConnIds -> Users \cup {NoUser}]
      BY <1>1, Zenon DEF RegisterAllocate, TypeOK, Phases
    <3> QED BY <1>1, <3>1, <3>2, Zenon DEF RegisterAllocate, TypeOK
  <2>a. /\ id = next_conn_id /\ next_conn_id' = id + 1 /\ phase[id] = "free"
        /\ phase'[id] = "allocated" /\ owner'[id] = u
        /\ \A c \in ConnIds : c # id => phase'[c] = phase[c] /\ owner'[c] = owner[c]
        /\ UNCHANGED <<connections, user_connections, cancelled>>
    BY <1>1 DEF RegisterAllocate, TypeOK, AllocationInv
  <2>2. AllocationInv'
    <3>1. ASSUME NEW c \in ConnIds PROVE phase'[c] = "free" <=> c >= next_conn_id'
      BY <2>a, SMTT(30) DEF AllocationInv
    <3>2. \A c \in ConnIds : phase'[c] # "free" => owner'[c] \in Users
      BY <2>a, Zenon DEF AllocationInv
    <3>3. \A c \in cancelled' : phase'[c] # "free"
      BY <2>a, Zenon DEF AllocationInv, TypeOK
    <3> QED BY <3>1, <3>2, <3>3, Zenon DEF AllocationInv
  <2>3. MapsInv'
    <3>1. \A c \in ConnIds : c \in DOMAIN connections' <=> phase'[c] \in Published
      BY <2>a, Zenon DEF MapsInv, Published
    <3>2. id \notin DOMAIN connections
      BY <2>a, Zenon DEF MapsInv, Published
    <3>3. \A c \in DOMAIN connections' : connections'[c] = owner'[c]
      BY <2>a, <3>2, Zenon DEF MapsInv, TypeOK
    <3>4. ASSUME NEW v \in Users, NEW c \in ConnIds
          PROVE  c \in IndexOf(v)' <=> owner'[c] = v /\ phase'[c] \in Indexed
      <4>1. IndexOf(v)' = IndexOf(v)
        BY <2>a, Zenon DEF IndexOf
      <4> QED BY <2>a, <4>1, SMTT(20) DEF MapsInv, Indexed
    <3> QED BY <2>a, <3>1, <3>3, <3>4, Zenon DEF MapsInv
  <2>4. KickInv'
    BY <1>1, SMTT(20)
        DEF RegisterAllocate, IndexOf, Registered, Opened, TypeOK, AllocationInv, MapsInv,
       KickInv, Published, Indexed
  <2>5. SweepInv'
    BY <1>1, SMTT(20) DEF RegisterAllocate, TypeOK, AllocationInv, MapsInv, SweepInv, Published
  <2>6. NoCollateral'
    BY <1>1 DEF RegisterAllocate, TypeOK, AllocationInv, NoCollateral
  <2> QED BY <2>1, <2>2, <2>3, <2>4, <2>5, <2>6, Zenon
<1>2. ASSUME NEW id \in ConnIds, RegisterInsert(id)
      PROVE  IInv'
  <2>1. TypeOK'
    BY <1>2, Zenon DEF RegisterInsert, ConnMapLocked, Phases, TypeOK, AllocationInv
  <2>2. AllocationInv'
    BY <1>2, SMTT(20) DEF RegisterInsert, ConnMapLocked, TypeOK, AllocationInv, MapsInv, Published
  <2>3. MapsInv'
    <3>1. /\ phase[id] = "allocated" /\ UNCHANGED <<owner, user_connections>>
          /\ phase' = [phase EXCEPT ![id] = "inserted"]
          /\ connections' = [c \in DOMAIN connections \cup {id} |->
                                IF c = id THEN owner[id] ELSE connections[c]]
      BY <1>2, Zenon DEF RegisterInsert
    <3>2. phase'[id] = "inserted" /\ \A c \in ConnIds : c # id => phase'[c] = phase[c]
      BY <3>1, Zenon DEF TypeOK
    <3>3. \A c \in ConnIds : c \in DOMAIN connections' <=> phase'[c] \in Published
      BY <3>1, <3>2, Zenon DEF MapsInv, Published
    <3>4. \A c \in DOMAIN connections' : connections'[c] = owner'[c]
      BY <3>1, Zenon DEF MapsInv
    <3>5. \A u \in Users : IndexOf(u)' = IndexOf(u)
      BY <3>1, Zenon DEF IndexOf
    <3>6. \A u \in Users, c \in ConnIds :
             c \in IndexOf(u)' <=> owner'[c] = u /\ phase'[c] \in Indexed
      BY <3>1, <3>2, <3>5 DEF MapsInv, Indexed
    <3> QED BY <3>1, <3>3, <3>4, <3>6, Zenon DEF MapsInv
  <2>4. KickInv'
    BY <1>2, SMTT(20) DEF RegisterInsert, ConnMapLocked, IndexOf, Registered, Opened, TypeOK,
       AllocationInv, MapsInv, KickInv, Published, Indexed
  <2>5. SweepInv'
    BY <1>2, SMTT(20)
        DEF RegisterInsert, ConnMapLocked, TypeOK, AllocationInv, MapsInv, SweepInv, Published
  <2>6. NoCollateral'
    BY <1>2, Zenon DEF RegisterInsert, ConnMapLocked, TypeOK, AllocationInv, NoCollateral
  <2> QED BY <2>1, <2>2, <2>3, <2>4, <2>5, <2>6, Zenon
<1>3. ASSUME NEW id \in ConnIds, RegisterIndex(id)
      PROVE  IInv'
  <2>0. owner[id] \in Users
    BY <1>3, Zenon DEF RegisterIndex, AllocationInv
  <2>1. TypeOK'
    <3>1. IndexOf(owner[id]) \in SUBSET ConnIds
      BY Zenon DEF IndexOf, TypeOK, AllocationInv, Phases
    <3>2. user_connections' \in [DOMAIN user_connections' -> SUBSET ConnIds]
      BY <1>3, <2>0, <3>1, Zenon DEF RegisterIndex, TypeOK, AllocationInv, Phases
    <3>3. DOMAIN user_connections' \subseteq Users
      BY <1>3, <2>0, Zenon DEF RegisterIndex, TypeOK, AllocationInv, Phases
    <3>4. phase' \in [ConnIds -> Phases]
      BY <1>3, Zenon DEF RegisterIndex, TypeOK, AllocationInv, Phases
    <3> QED BY <1>3, <3>2, <3>3, <3>4, Zenon DEF RegisterIndex, TypeOK, AllocationInv, Phases
  <2>2. AllocationInv'
    BY <1>3, SMTT(20) DEF RegisterIndex, UserMapLocked, TypeOK, AllocationInv, MapsInv, Published
  <2>3. MapsInv'
    <3>1. \A v \in Users : IndexOf(v)' = IF v = owner[id] THEN IndexOf(v) \cup {id} ELSE IndexOf(v)
      BY <1>3, <2>0, Zenon DEF RegisterIndex, IndexOf, TypeOK, AllocationInv, MapsInv, Phases,
         Published, Indexed
    <3>2. \A v \in DOMAIN user_connections' : user_connections'[v] # {}
      BY <1>3, <2>0, Zenon
          DEF RegisterIndex, TypeOK, AllocationInv, MapsInv, Phases, Published, Indexed
    <3>3. /\ phase[id] = "inserted" /\ phase'[id] = "registered"
          /\ \A c \in ConnIds : c # id => phase'[c] = phase[c]
          /\ UNCHANGED <<owner, connections>>
      BY <1>3, Zenon DEF RegisterIndex, TypeOK
    <3>4. ASSUME NEW v \in Users, NEW c \in ConnIds
          PROVE  c \in IndexOf(v)' <=> owner'[c] = v /\ phase'[c] \in Indexed
      <4>1. c \in IndexOf(v) <=> owner[c] = v /\ phase[c] \in Indexed
        BY Zenon DEF MapsInv
      <4>2. CASE c = id
        BY <3>1, <3>3, <4>1, <4>2, Zenon DEF Indexed
      <4>3. CASE c # id
        BY <3>1, <3>3, <4>1, <4>3
      <4> QED BY <4>2, <4>3, Zenon
    <3>5. \A c \in ConnIds : c \in DOMAIN connections' <=> phase'[c] \in Published
      BY <3>3, Zenon DEF MapsInv, Published
    <3> QED BY <3>2, <3>3, <3>4, <3>5, Zenon DEF MapsInv
  <2>4. KickInv'
    BY <1>3, SMTT(20)
        DEF RegisterIndex, UserMapLocked, IndexOf, Registered, Opened, TypeOK, AllocationInv,
       MapsInv, KickInv, Published, Indexed
  <2>5. SweepInv'
    BY <1>3, SMTT(20)
        DEF RegisterIndex, UserMapLocked, TypeOK, AllocationInv, MapsInv, SweepInv, Published
  <2>6. NoCollateral'
    BY <1>3, Zenon DEF RegisterIndex, UserMapLocked, TypeOK, AllocationInv, NoCollateral
  <2> QED BY <2>1, <2>2, <2>3, <2>4, <2>5, <2>6, Zenon
<1>4. ASSUME NEW id \in ConnIds, UnregisterRemove(id)
      PROVE  IInv'
  <2>1. TypeOK'
    BY <1>4, Zenon DEF UnregisterRemove, ConnMapLocked, Phases, TypeOK, AllocationInv
  <2>2. AllocationInv'
    BY <1>4, SMTT(20) DEF UnregisterRemove, ConnMapLocked, TypeOK, AllocationInv, MapsInv, Published
  <2>3. MapsInv'
    <3>1. /\ phase[id] = "registered" /\ id \in DOMAIN connections
          /\ UNCHANGED <<owner, user_connections>>
          /\ phase' = [phase EXCEPT ![id] = "removed"]
          /\ connections' = [c \in DOMAIN connections \ {id} |-> connections[c]]
      BY <1>4, Zenon DEF UnregisterRemove, MapsInv, Published
    <3>2. phase'[id] = "removed" /\ \A c \in ConnIds : c # id => phase'[c] = phase[c]
      BY <3>1, Zenon DEF TypeOK
    <3>3. \A c \in ConnIds : c \in DOMAIN connections' <=> phase'[c] \in Published
      BY <3>1, <3>2, Zenon DEF MapsInv, Published
    <3>4. \A c \in DOMAIN connections' : connections'[c] = owner'[c]
      BY <3>1, Zenon DEF MapsInv
    <3>5. \A u \in Users : IndexOf(u)' = IndexOf(u)
      BY <3>1, Zenon DEF IndexOf
    <3>6. \A u \in Users, c \in ConnIds :
             c \in IndexOf(u)' <=> owner'[c] = u /\ phase'[c] \in Indexed
      BY <3>1, <3>2, <3>5 DEF MapsInv, Indexed
    <3> QED BY <3>1, <3>3, <3>4, <3>6, Zenon DEF MapsInv
  <2>4. KickInv'
    BY <1>4, SMTT(20) DEF UnregisterRemove, ConnMapLocked, IndexOf, Registered, Opened, TypeOK,
       AllocationInv, MapsInv, KickInv, Published, Indexed
  <2>5. SweepInv'
    BY <1>4, SMTT(20) DEF UnregisterRemove, ConnMapLocked, TypeOK, AllocationInv, MapsInv, SweepInv,
       Published
  <2>6. NoCollateral'
    BY <1>4, Zenon DEF UnregisterRemove, ConnMapLocked, TypeOK, AllocationInv, NoCollateral
  <2> QED BY <2>1, <2>2, <2>3, <2>4, <2>5, <2>6, Zenon
<1>5. ASSUME NEW id \in ConnIds, UnregisterIndex(id)
      PROVE  IInv'
  <2>1. TypeOK'
    <3>1. IndexOf(owner[id]) \in SUBSET ConnIds
      BY Zenon DEF IndexOf, TypeOK, AllocationInv, Phases
    <3>2. user_connections' \in [DOMAIN user_connections' -> SUBSET ConnIds]
      BY <1>5, <3>1, Zenon DEF UnregisterIndex, TypeOK, AllocationInv, Phases
    <3>3. DOMAIN user_connections' \subseteq Users
      BY <1>5, Zenon DEF UnregisterIndex, TypeOK, AllocationInv, Phases
    <3>4. phase' \in [ConnIds -> Phases]
      BY <1>5, Zenon DEF UnregisterIndex, TypeOK, AllocationInv, Phases
    <3> QED BY <1>5, <3>2, <3>3, <3>4, Zenon DEF UnregisterIndex, TypeOK, AllocationInv, Phases
  <2>2. AllocationInv'
    BY <1>5, SMTT(20) DEF UnregisterIndex, UserMapLocked, TypeOK, AllocationInv, MapsInv, Published
  <2>3. MapsInv'
    BY <1>5, UnregisterIndexMaps, Zenon
  <2>4. KickInv'
    BY <1>5, SMTT(20) DEF UnregisterIndex, UserMapLocked, IndexOf, Registered, Opened, TypeOK,
       AllocationInv, MapsInv, KickInv, Published, Indexed
  <2>5. SweepInv'
    BY <1>5, SMTT(20) DEF UnregisterIndex, UserMapLocked, TypeOK, AllocationInv, MapsInv, SweepInv,
       Published
  <2>6. NoCollateral'
    BY <1>5, Zenon DEF UnregisterIndex, UserMapLocked, TypeOK, AllocationInv, NoCollateral
  <2> QED BY <2>1, <2>2, <2>3, <2>4, <2>5, <2>6, Zenon
<1>6. ASSUME NEW k \in Kickers, NEW u \in Users, KickBegin(k, u)
      PROVE  IInv'
  <2>1. TypeOK'
    BY <1>6, Zenon DEF KickBegin, Phases, TypeOK, AllocationInv
  <2>2. AllocationInv'
    BY <1>6, Zenon DEF KickBegin, TypeOK, AllocationInv, MapsInv, Published
  <2>3. MapsInv'
    BY <1>6, Zenon
        DEF KickBegin, IndexOf, TypeOK, AllocationInv, MapsInv, Phases, Published, Indexed
  <2>4. KickInv'
    <3>1. /\ kicking' = [kicking EXCEPT ![k] = u] /\ kickedUsers' = kickedUsers \cup {u}
          /\ todo' = [todo EXCEPT ![k] = user_connections[u]] /\ IndexOf(u) = user_connections[u]
          /\ UNCHANGED <<phase, owner, cancelled, passed>>
      BY <1>6, Zenon DEF KickBegin, IndexOf
    <3>2. /\ kicking'[k] = u /\ todo'[k] = IndexOf(u)
          /\ \A j \in Kickers : j # k => kicking'[j] = kicking[j] /\ todo'[j] = todo[j]
      BY <3>1, Zenon DEF TypeOK
    <3>3. \A c \in IndexOf(u) : c \in ConnIds /\ owner[c] = u /\ phase[c] \in Indexed
      <4>1. IndexOf(u) \subseteq ConnIds
        BY <1>6, <3>1 DEF KickBegin, TypeOK
      <4> QED BY <4>1, Zenon DEF MapsInv
    <3>4. \A j \in Kickers : kicking'[j] \in Users => kicking'[j] \in kickedUsers'
      BY <3>1, <3>2 DEF KickInv
    <3>5. ASSUME NEW j \in Kickers, NEW c \in todo'[j]
          PROVE  kicking'[j] \in Users /\ owner'[c] = kicking'[j] /\ phase'[c] \in Opened
      <4>1. CASE j = k
        BY <3>1, <3>2, <3>3, <3>5, <4>1, Zenon DEF Indexed, Opened
      <4>2. CASE j # k
        BY <3>1, <3>2, <3>5, <4>2, Zenon DEF KickInv
      <4> QED BY <4>1, <4>2, Zenon
    <3>6. ASSUME NEW j \in Kickers, kicking'[j] \in Users, NEW c \in Registered(kicking[j])'
          PROVE  c \in todo'[j] \/ c \in cancelled'
      <4>0. c \in ConnIds /\ phase[c] = "registered" /\ owner[c] = kicking'[j]
        BY <3>1, <3>6, Zenon DEF Registered
      <4>1. CASE j = k
        BY <3>2, <4>0, <4>1 DEF MapsInv, Indexed
      <4>2. CASE j # k
        BY <3>1, <3>2, <3>6, <4>0, <4>2, Zenon DEF KickInv, Registered
      <4> QED BY <4>1, <4>2, Zenon
    <3>7. \A c \in passed' : phase'[c] \in Opened /\ (phase'[c] = "registered" => c \in cancelled')
      BY <3>1, Zenon DEF KickInv
    <3> QED BY <3>4, <3>5, <3>6, <3>7, Zenon DEF KickInv
  <2>5. SweepInv'
    BY <1>6, Zenon DEF KickBegin, TypeOK, AllocationInv, MapsInv, SweepInv, Published
  <2>6. NoCollateral'
    BY <1>6, Zenon DEF KickBegin, TypeOK, AllocationInv, NoCollateral
  <2> QED BY <2>1, <2>2, <2>3, <2>4, <2>5, <2>6, Zenon
<1>7. ASSUME NEW k \in Kickers, NEW id \in ConnIds, KickVisit(k, id)
      PROVE  IInv'
  <2>1. TypeOK'
    <3>1. cancelled' \subseteq ConnIds /\ passed' \subseteq ConnIds
      BY <1>7, Zenon DEF KickVisit, TypeOK, AllocationInv, Phases
    <3>2. todo' \in [Kickers -> SUBSET ConnIds]
      BY <1>7, Zenon DEF KickVisit, TypeOK, AllocationInv, Phases
    <3> QED BY <1>7, <3>1, <3>2, Zenon DEF KickVisit, TypeOK, AllocationInv, Phases
  <2>2. AllocationInv'
    BY <1>7, Zenon DEF KickVisit, TypeOK, AllocationInv, MapsInv, Published
  <2>3. MapsInv'
    BY <1>7, Zenon
        DEF KickVisit, IndexOf, TypeOK, AllocationInv, MapsInv, Phases, Published, Indexed
  <2>4. KickInv'
    <3>1. /\ id \in todo[k] /\ todo' = [todo EXCEPT ![k] = @ \ {id}]
          /\ cancelled' = IF id \in DOMAIN connections THEN cancelled \cup {id} ELSE cancelled
          /\ passed' = passed \cup {id}
          /\ UNCHANGED <<phase, owner, kicking, kickedUsers>>
      BY <1>7, Zenon DEF KickVisit
    <3>2. /\ todo'[k] = todo[k] \ {id}
          /\ \A j \in Kickers : j # k => todo'[j] = todo[j]
      BY <3>1, Zenon DEF TypeOK
    <3>3. /\ phase[id] \in Opened
          /\ phase[id] = "registered" => id \in cancelled'
      BY <3>1, Zenon DEF KickInv, MapsInv, Published
    <3>4. \A j \in Kickers : kicking'[j] \in Users => kicking'[j] \in kickedUsers'
      BY <3>1, Zenon DEF KickInv
    <3>5. ASSUME NEW j \in Kickers, NEW c \in todo'[j]
          PROVE  kicking'[j] \in Users /\ owner'[c] = kicking'[j] /\ phase'[c] \in Opened
      <4>1. c \in todo[j]
        BY <3>2, <3>5, Zenon
      <4> QED BY <3>1, <4>1, Zenon DEF KickInv
    <3>6. ASSUME NEW j \in Kickers, kicking'[j] \in Users, NEW c \in Registered(kicking[j])'
          PROVE  c \in todo'[j] \/ c \in cancelled'
      <4>1. c \in ConnIds /\ phase[c] = "registered" /\ c \in Registered(kicking[j])
        BY <3>1, <3>6, Zenon DEF Registered
      <4>2. c \in todo[j] \/ c \in cancelled
        BY <3>1, <3>6, <4>1, Zenon DEF KickInv
      <4>3. CASE c = id
        BY <3>3, <4>1, <4>3, Zenon
      <4>4. CASE c # id
        BY <3>1, <3>2, <4>2, <4>4, Zenon
      <4> QED BY <4>3, <4>4, Zenon
    <3>7. \A c \in passed' : phase'[c] \in Opened /\ (phase'[c] = "registered" => c \in cancelled')
      BY <3>1, <3>3, Zenon DEF KickInv
    <3> QED BY <3>4, <3>5, <3>6, <3>7, Zenon DEF KickInv
  <2>5. SweepInv'
    BY <1>7, Zenon DEF KickVisit, TypeOK, AllocationInv, MapsInv, SweepInv, Published
  <2>6. NoCollateral'
    BY <1>7 DEF KickVisit, TypeOK, KickInv, NoCollateral
  <2> QED BY <2>1, <2>2, <2>3, <2>4, <2>5, <2>6, Zenon
<1>8. ASSUME NEW k \in Kickers, KickEnd(k)
      PROVE  IInv'
  <2>1. TypeOK'
    BY <1>8, Zenon DEF KickEnd, Phases, TypeOK, AllocationInv
  <2>2. AllocationInv'
    BY <1>8, Zenon DEF KickEnd, TypeOK, AllocationInv, MapsInv, Published
  <2>3. MapsInv'
    BY <1>8, Zenon DEF KickEnd, IndexOf, TypeOK, AllocationInv, MapsInv, Phases, Published, Indexed
  <2>4. KickInv'
    BY <1>8, SMTT(20)
        DEF KickEnd, IndexOf, Registered, Opened, TypeOK, AllocationInv, MapsInv, KickInv,
       Published, Indexed
  <2>5. SweepInv'
    BY <1>8, Zenon DEF KickEnd, TypeOK, AllocationInv, MapsInv, SweepInv, Published
  <2>6. NoCollateral'
    BY <1>8, Zenon DEF KickEnd, TypeOK, AllocationInv, NoCollateral
  <2> QED BY <2>1, <2>2, <2>3, <2>4, <2>5, <2>6, Zenon
<1>9. CASE CancelAllNextShard
  <2>1. TypeOK'
    BY <1>9, SMTT(20) DEF CancelAllNextShard, Phases, TypeOK, AllocationInv
  <2>2. AllocationInv'
    BY <1>9, Zenon DEF CancelAllNextShard, TypeOK, AllocationInv, MapsInv, Published
  <2>3. MapsInv'
    BY <1>9, Zenon
        DEF CancelAllNextShard, IndexOf, TypeOK, AllocationInv, MapsInv, Phases, Published,
       Indexed
  <2>4. KickInv'
    BY <1>9, Zenon
        DEF CancelAllNextShard, IndexOf, Registered, Opened, TypeOK, AllocationInv, MapsInv,
       KickInv, Published, Indexed
  <2>5. SweepInv'
    <3>1. \A c \in sweepTodo' : c \in DOMAIN connections' /\ ConnShard[c] = sweepShard'
      BY <1>9, Zenon DEF CancelAllNextShard, TypeOK, AllocationInv, MapsInv, SweepInv, Published
    <3>2. ASSUME NEW c \in atSweep'
          PROVE  /\ phase'[c] \notin {"free", "allocated"}
                 /\ c \in DOMAIN connections' =>
                       c \in cancelled' \/ c \in sweepTodo' \/ ConnShard[c] > sweepShard'
      <4>0. sweepShard \in Nat
        BY DEF TypeOK
      <4>1. c \in ConnIds /\ ConnShard[c] \in Nat \ {0}
        BY <1>9, SMTT(20)
            DEF CancelAllNextShard, TypeOK, AllocationInv, MapsInv, SweepInv, Published
      <4>2. CASE sweepShard = 0
        <5>1. c \in DOMAIN connections
          BY <1>9, <4>2, Zenon DEF CancelAllNextShard, TypeOK, AllocationInv, MapsInv, SweepInv,
             Published
        <5>2. c \in sweepTodo' \/ ConnShard[c] > sweepShard'
          BY <1>9, <4>1, <4>2, <5>1, SMTT(20)
              DEF CancelAllNextShard, TypeOK, AllocationInv, MapsInv,
             SweepInv, Published
        <5> QED BY <1>9, <4>1, <5>1, <5>2, Zenon
            DEF CancelAllNextShard, TypeOK, AllocationInv, MapsInv,
           SweepInv, Published
      <4>3. CASE sweepShard # 0
        <5>1. c \in atSweep
          BY <1>9, <4>3, Zenon DEF CancelAllNextShard, TypeOK, AllocationInv, MapsInv, SweepInv,
             Published
        <5>2. c \in DOMAIN connections => c \in cancelled \/ ConnShard[c] > sweepShard
          BY <1>9, <4>3, <5>1, Zenon
              DEF CancelAllNextShard, TypeOK, AllocationInv, MapsInv, SweepInv,
             Published
        <5>3. c \in DOMAIN connections /\ ConnShard[c] > sweepShard =>
                 c \in sweepTodo' \/ ConnShard[c] > sweepShard'
          BY <1>9, <4>0, <4>1, SMTT(20)
              DEF CancelAllNextShard, TypeOK, AllocationInv, MapsInv, SweepInv,
             Published
        <5> QED BY <1>9, <4>3, <5>1, <5>2, <5>3, Zenon
            DEF CancelAllNextShard, TypeOK, AllocationInv,
           MapsInv, SweepInv, Published
      <4> QED BY <4>2, <4>3, Zenon
    <3> QED BY <3>1, <3>2, Zenon DEF SweepInv
  <2>6. NoCollateral'
    BY <1>9 DEF CancelAllNextShard, TypeOK, AllocationInv, NoCollateral
  <2> QED BY <2>1, <2>2, <2>3, <2>4, <2>5, <2>6, Zenon
<1>10. ASSUME NEW id \in ConnIds, CancelAllVisit(id)
      PROVE  IInv'
  <2>1. TypeOK'
    <3>1. cancelled' \subseteq ConnIds /\ sweepTodo' \subseteq ConnIds
      BY <1>10, Zenon DEF CancelAllVisit, TypeOK, AllocationInv, Phases
    <3>2. sweepCount' \in Nat
      BY <1>10, SMTT(20) DEF CancelAllVisit, TypeOK, AllocationInv, Phases
    <3> QED BY <1>10, <3>1, <3>2, Zenon DEF CancelAllVisit, TypeOK, AllocationInv, Phases
  <2>2. AllocationInv'
    BY <1>10, Zenon DEF CancelAllVisit, TypeOK, AllocationInv, MapsInv, SweepInv, Published
  <2>3. MapsInv'
    BY <1>10, Zenon DEF CancelAllVisit, IndexOf, TypeOK, AllocationInv, MapsInv, Phases, Published,
       Indexed
  <2>4. KickInv'
    BY <1>10, SMTT(20)
        DEF CancelAllVisit, IndexOf, Registered, Opened, TypeOK, AllocationInv, MapsInv,
       KickInv, Published, Indexed
  <2>5. SweepInv'
    BY <1>10, Zenon DEF CancelAllVisit, TypeOK, AllocationInv, MapsInv, SweepInv, Published
  <2>6. NoCollateral'
    BY <1>10 DEF CancelAllVisit, TypeOK, SweepInv, NoCollateral
  <2> QED BY <2>1, <2>2, <2>3, <2>4, <2>5, <2>6, Zenon
<1>11. CASE UNCHANGED cmVars
  BY <1>11, Zenon DEF cmVars, TypeOK, AllocationInv, MapsInv, KickInv, SweepInv, NoCollateral,
     IndexOf, Registered
<1> QED
  BY <1>1, <1>2, <1>3, <1>4, <1>5, <1>6, <1>7, <1>8, <1>9, <1>10, <1>11, Zenon DEF CMNext,
     RegisterPublish
-----------------------------------------------------------------------------
\* The strengthened invariant holds in every reachable state of the registry.
THEOREM InductiveInvariant == CMSpec => []IInv
BY InitIInv, StepIInv, PTL DEF CMSpec

\* The maps, tokens and iterators of the registry keep their types.
THEOREM TypeCorrect == CMSpec => []TypeOK
<1>1. IInv => TypeOK
  BY Zenon DEF IInv
<1> QED BY InductiveInvariant, <1>1, PTL

\* connections and user_connections agree outside register and unregister
\* calls, and unregister leaves no empty entry behind.
THEOREM MapsAgree == CMSpec => []IndexAgrees
<1>1. IInv => IndexAgrees
  BY SMTT(20) DEF IInv, TypeOK, AllocationInv, MapsInv, IndexAgrees, IndexOf, Published, Indexed
<1> QED BY InductiveInvariant, <1>1, PTL

\* An id that kick_user has looked up never stays in connections uncancelled.
THEOREM KickNeverMisses == CMSpec => []KickReaches
<1>1. IInv => KickReaches
  BY Zenon DEF IInv, TypeOK, MapsInv, KickInv, KickReaches, Published, Opened
<1> QED BY InductiveInvariant, <1>1, PTL

\* cancel_all reaches every connection that was present when it began.
THEOREM SweepNeverMisses == CMSpec => []SweepReaches
<1>1. IInv => SweepReaches
  <2> SUFFICES ASSUME IInv, SweepDone, NEW id \in atSweep, id \in DOMAIN connections
               PROVE  id \in cancelled
    BY Zenon DEF SweepReaches
  <2>1. id \in ConnIds /\ ConnShard[id] \in 1..NumShards
    BY Zenon DEF IInv, TypeOK
  <2>2. id \in cancelled \/ id \in sweepTodo \/ ConnShard[id] > sweepShard
    BY DEF IInv, SweepInv, SweepDone
  <2>3. id \notin sweepTodo
    BY <2>1 DEF IInv, SweepInv, SweepDone
  <2> QED BY <2>1, <2>2, <2>3 DEF SweepDone
<1> QED BY InductiveInvariant, <1>1, PTL

\* A token is cancelled only for a kick of its owner or by cancel_all.
THEOREM KicksAreTargeted == CMSpec => []NoCollateral
<1>1. IInv => NoCollateral
  BY Zenon DEF IInv
<1> QED BY InductiveInvariant, <1>1, PTL

-----------------------------------------------------------------------------
(* The contract of kick_user and cancel_all: a kick returns only when it is *)
(* complete, and every step of the two maps is a step of KickContract or    *)
(* leaves its state alone.                                                  *)

\* kick_user does not return before every registered connection of the user
\* is cancelled.
THEOREM KickReturnsComplete == CMSpec => KickComplete
<1> DEFINE Complete ==
      \A k \in Kickers : kicking[k] \in Users /\ kicking'[k] = NoUser =>
          \A id \in ConnIds :
              phase[id] = "registered" /\ owner[id] = kicking[k] => id \in cancelled
<1>1. IInv /\ [CMNext]_cmVars => [Complete]_cmVars
  <2> SUFFICES ASSUME IInv, CMNext,
                      NEW k \in Kickers, kicking[k] \in Users, kicking'[k] = NoUser,
                      NEW id \in ConnIds, phase[id] = "registered", owner[id] = kicking[k]
               PROVE  id \in cancelled
    BY Zenon DEF Complete
  <2>1. KickEnd(k)
    <3>1. kicking' # kicking
      BY Zenon DEF IInv, TypeOK
    <3>2. \/ \E j \in Kickers, u \in Users : KickBegin(j, u)
          \/ \E j \in Kickers : KickEnd(j)
      BY <3>1, Zenon DEF CMNext, RegisterPublish, RegisterAllocate, RegisterInsert, RegisterIndex,
                  UnregisterRemove, UnregisterIndex, KickVisit, CancelAllNextShard,
                  CancelAllVisit, kickVars
    <3>3. ~ \E j \in Kickers, u \in Users : KickBegin(j, u)
      BY Zenon DEF KickBegin, IInv, TypeOK
    <3>4. PICK j \in Kickers : KickEnd(j)
      BY <3>2, <3>3, Zenon
    <3>5. j = k
      BY <3>4, Zenon DEF KickEnd, IInv, TypeOK
    <3> QED BY <3>4, <3>5, Zenon
  <2> QED BY <2>1, Zenon DEF KickEnd, IInv, KickInv, Registered
<1>2. CMSpec => [][Complete]_cmVars
  BY InductiveInvariant, <1>1, PTL DEF CMSpec
<1> QED BY <1>2, Zenon DEF KickComplete
-----------------------------------------------------------------------------
\* One step of the registry is one step of the contract, or leaves the
\* contract's state unchanged.
LEMMA StepSimulation == IInv /\ IInv' /\ [CMNext]_cmVars => [Contract!Next]_(Contract!vars)
<1> SUFFICES ASSUME IInv, IInv', [CMNext]_cmVars
             PROVE  [Contract!Next]_(Contract!vars)
  BY Zenon
<1> DEFINE User == [id \in ConnIds |-> IF phase[id] \in Opened THEN owner[id] ELSE NoUser]
           Live == {id \in ConnIds : phase[id] = "registered"}
           Target == [k \in Kickers |-> IF kicking[k] = NoUser THEN {} ELSE Registered(kicking[k])]
           Stopping == sweepShard # 0
<1>0. /\ phase \in [ConnIds -> Phases]
      /\ owner \in [ConnIds -> Users \cup {NoUser}]
      /\ kicking \in [Kickers -> Users \cup {NoUser}]
      /\ todo \in [Kickers -> SUBSET ConnIds]
      /\ cancelled \subseteq ConnIds
  BY Zenon DEF IInv, TypeOK
<1>1. ASSUME NEW id \in ConnIds, NEW u \in Users, RegisterAllocate(id, u)
      PROVE  [Contract!Next]_(Contract!vars)
  <2>1. phase[id] = "free"
    BY <1>1 DEF RegisterAllocate, IInv, TypeOK, AllocationInv
  <2>2. User' = User /\ Live' = Live
    BY <1>0, <1>1, <2>1, Zenon DEF RegisterAllocate, Opened
  <2>3. Target' = Target
    BY <1>0, <1>1, <2>1, Zenon DEF RegisterAllocate, Registered, kickVars
  <2> QED BY <1>1, <2>2, <2>3, Zenon DEF Contract!vars, RegisterAllocate, kickVars, sweepVars
<1>2. ASSUME NEW id \in ConnIds, RegisterInsert(id)
      PROVE  [Contract!Next]_(Contract!vars)
  <2>1. User' = User /\ Live' = Live
    BY <1>0, <1>2, Zenon DEF RegisterInsert, Opened
  <2>2. Target' = Target
    BY <1>0, <1>2, Zenon DEF RegisterInsert, Registered, kickVars
  <2> QED BY <1>2, <2>1, <2>2, Zenon DEF Contract!vars, RegisterInsert, kickVars, sweepVars
<1>3. ASSUME NEW id \in ConnIds, RegisterIndex(id)
      PROVE  [Contract!Next]_(Contract!vars)
  <2>1. owner[id] \in Users
    BY <1>3, Zenon DEF RegisterIndex, IInv, AllocationInv
  <2>2. User[id] = NoUser /\ User' = [User EXCEPT ![id] = owner[id]] /\ Live' = Live \cup {id}
    BY <1>0, <1>3, Zenon DEF RegisterIndex, Opened
  <2>3. Target' = Target
    <3>1. \A k \in Kickers : kicking[k] # owner[id]
      BY <1>3, <2>1, Zenon DEF RegisterIndex, UserMapLocked
    <3> QED BY <1>0, <1>3, <3>1, Zenon DEF RegisterIndex, Registered, kickVars
  <2>4. PICK u \in Users : u = owner[id]
    BY <2>1, Zenon
  <2>5. Contract!Open(id, u)
    BY <1>3, <2>2, <2>3, <2>4, Zenon DEF Contract!Open, RegisterIndex, kickVars, sweepVars
  <2> QED BY <2>5, Zenon DEF Contract!Next
<1>4. ASSUME NEW id \in ConnIds, UnregisterRemove(id)
      PROVE  [Contract!Next]_(Contract!vars)
  <2>1. User' = User /\ id \in Live /\ Live' = Live \ {id}
    BY <1>0, <1>4, Zenon DEF UnregisterRemove, Opened
  <2>2. Target' = [k \in Kickers |-> Target[k] \ {id}]
    BY <1>0, <1>4, Zenon DEF UnregisterRemove, Registered, kickVars
  <2>3. Contract!Close(id)
    BY <1>4, <2>1, <2>2, Zenon DEF Contract!Close, UnregisterRemove, kickVars, sweepVars
  <2> QED BY <2>3, Zenon DEF Contract!Next
<1>5. ASSUME NEW id \in ConnIds, UnregisterIndex(id)
      PROVE  [Contract!Next]_(Contract!vars)
  <2>1. User' = User /\ Live' = Live
    BY <1>0, <1>5, Zenon DEF UnregisterIndex, Opened
  <2>2. Target' = Target
    BY <1>0, <1>5, Zenon DEF UnregisterIndex, Registered, kickVars
  <2> QED BY <1>5, <2>1, <2>2, Zenon DEF Contract!vars, UnregisterIndex, kickVars, sweepVars
<1>6. ASSUME NEW k \in Kickers, NEW u \in Users, KickBegin(k, u)
      PROVE  [Contract!Next]_(Contract!vars)
  <2>1. User' = User /\ Live' = Live
    BY <1>6, Zenon DEF KickBegin, mapVars
  <2>2. Target' = [Target EXCEPT ![k] = {id \in Live : User[id] = u}]
    BY <1>0, <1>6, Zenon DEF KickBegin, mapVars, Registered, Opened
  <2>3. Contract!BeginKick(k, u)
    BY <1>6, <2>1, <2>2, Zenon DEF Contract!BeginKick, KickBegin, sweepVars
  <2> QED BY <2>3, Zenon DEF Contract!Next
<1>7. ASSUME NEW k \in Kickers, NEW id \in ConnIds, KickVisit(k, id)
      PROVE  [Contract!Next]_(Contract!vars)
  <2>1. User' = User /\ Live' = Live /\ Target' = Target
    BY <1>7, Zenon DEF KickVisit, mapVars, Registered
  <2>2. CASE id \in DOMAIN connections
    <3>1. id \in Target[k]
      <4>1. id \in todo[k]
        BY <1>7, Zenon DEF KickVisit
      <4>2. phase[id] \in Published
        BY <2>2, Zenon DEF IInv, MapsInv
      <4>3. kicking[k] \in Users /\ owner[id] = kicking[k] /\ phase[id] \in Opened
        BY <4>1, Zenon DEF IInv, KickInv
      <4>4. phase[id] = "registered" /\ kicking[k] # NoUser
        BY <4>2, <4>3, ConstantsAssumption, Zenon DEF Published, Opened
      <4> QED
        BY <4>3, <4>4, Zenon DEF Registered
    <3>2. Contract!Cancel(id)
      BY <1>7, <2>1, <2>2, <3>1, Zenon DEF Contract!Cancel, KickVisit, sweepVars
    <3> QED BY <3>2, Zenon DEF Contract!Next
  <2>3. CASE id \notin DOMAIN connections
    BY <1>7, <2>1, <2>3, Zenon DEF Contract!vars, KickVisit, sweepVars
  <2> QED BY <2>2, <2>3, Zenon
<1>8. ASSUME NEW k \in Kickers, KickEnd(k)
      PROVE  [Contract!Next]_(Contract!vars)
  <2>1. User' = User /\ Live' = Live
    BY <1>8, Zenon DEF KickEnd, mapVars
  <2>2. Target' = [Target EXCEPT ![k] = {}]
    BY <1>0, <1>8, Zenon DEF KickEnd, mapVars, Registered
  <2>3. Target[k] \subseteq cancelled
    BY <1>8, Zenon DEF KickEnd, IInv, KickInv
  <2>4. Contract!EndKick(k)
    BY <1>8, <2>1, <2>2, <2>3, Zenon DEF Contract!EndKick, KickEnd, sweepVars
  <2> QED BY <2>4, Zenon DEF Contract!Next
<1>9. ASSUME CancelAllNextShard
      PROVE  [Contract!Next]_(Contract!vars)
  <2>1. User' = User /\ Live' = Live /\ Target' = Target
    BY <1>9, Zenon DEF CancelAllNextShard, mapVars, kickVars, Registered
  <2>2. Stopping' = TRUE
    BY <1>9 DEF CancelAllNextShard, IInv, TypeOK
  <2>3. Contract!BeginStop \/ UNCHANGED Contract!vars
    BY <1>9, <2>1, <2>2, Zenon DEF Contract!BeginStop, CancelAllNextShard, kickVars
  <2> QED BY <2>3, Zenon DEF Contract!Next
<1>10. ASSUME NEW id \in ConnIds, CancelAllVisit(id)
       PROVE  [Contract!Next]_(Contract!vars)
  <2>1. User' = User /\ Live' = Live /\ Target' = Target
    BY <1>10, Zenon DEF CancelAllVisit, mapVars, kickVars, Registered
  <2>2. Stopping
    BY <1>10 DEF CancelAllVisit, IInv, TypeOK, SweepInv
  <2>3. Contract!Cancel(id)
    BY <1>10, <2>1, <2>2, Zenon DEF Contract!Cancel, CancelAllVisit, kickVars
  <2> QED BY <2>3, Zenon DEF Contract!Next
<1>11. CASE UNCHANGED cmVars
  BY <1>11, Zenon DEF Contract!vars, cmVars, mapVars, kickVars, sweepVars, Registered
<1> QED
  BY <1>1, <1>2, <1>3, <1>4, <1>5, <1>6, <1>7, <1>8, <1>9, <1>10, <1>11, Zenon
  DEF CMNext, RegisterPublish

\* The registry implements the kick contract: its two maps, its guards and its
\* shard-by-shard iteration are invisible to a caller that only relies on
\* single-step register and unregister and on complete kicks.
THEOREM ImplementsContract == CMSpec => ContractSpec
<1>1. CMInit => Contract!Init
  BY Zenon DEF CMInit, Contract!Init, Opened
<1> QED BY <1>1, StepSimulation, InductiveInvariant, PTL DEF CMSpec, ContractSpec, Contract!Spec
=============================================================================
