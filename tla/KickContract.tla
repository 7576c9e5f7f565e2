---------------------------- MODULE KickContract ----------------------------
(***************************************************************************)
(* What the registry promises to the code that kicks users: register and   *)
(* unregister are single steps, and a kick does not return before every    *)
(* connection of the user that was open when it began is cancelled or      *)
(* closed.  ConnectionManager implements this (ContractSpec there).        *)
(***************************************************************************)
CONSTANTS Ids, Users, NoUser, Kickers

VARIABLES user,      \* id -> the user it was opened for, NoUser before that
          live,      \* open connections
          cancelled, \* connections that were told to stop
          active,    \* kicker -> user it is kicking
          target,    \* kicker -> connections it has to cancel before it ends
          stopping   \* cancel_all has begun

vars == <<user, live, cancelled, active, target, stopping>>

Init ==
    /\ user = [id \in Ids |-> NoUser]
    /\ live = {}
    /\ cancelled = {}
    /\ active = [k \in Kickers |-> NoUser]
    /\ target = [k \in Kickers |-> {}]
    /\ stopping = FALSE

Open(id, u) ==
    /\ user[id] = NoUser
    /\ user' = [user EXCEPT ![id] = u]
    /\ live' = live \cup {id}
    /\ UNCHANGED <<cancelled, active, target, stopping>>

Close(id) ==
    /\ id \in live
    /\ live' = live \ {id}
    /\ target' = [k \in Kickers |-> target[k] \ {id}]
    /\ UNCHANGED <<user, cancelled, active, stopping>>

BeginKick(k, u) ==
    /\ active[k] = NoUser
    /\ active' = [active EXCEPT ![k] = u]
    /\ target' = [target EXCEPT ![k] = {id \in live : user[id] = u}]
    /\ UNCHANGED <<user, live, cancelled, stopping>>

Cancel(id) ==
    /\ stopping \/ \E k \in Kickers : id \in target[k]
    /\ cancelled' = cancelled \cup {id}
    /\ UNCHANGED <<user, live, active, target, stopping>>

EndKick(k) ==
    /\ active[k] # NoUser
    /\ target[k] \subseteq cancelled
    /\ active' = [active EXCEPT ![k] = NoUser]
    /\ target' = [target EXCEPT ![k] = {}]
    /\ UNCHANGED <<user, live, cancelled, stopping>>

BeginStop ==
    /\ stopping' = TRUE
    /\ UNCHANGED <<user, live, cancelled, active, target>>

Next ==
    \/ \E id \in Ids, u \in Users : Open(id, u)
    \/ \E id \in Ids : Close(id) \/ Cancel(id)
    \/ \E k \in Kickers, u \in Users : BeginKick(k, u)
    \/ \E k \in Kickers : EndKick(k)
    \/ BeginStop

Spec == Init /\ [][Next]_vars
=============================================================================
