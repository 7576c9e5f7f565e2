------------------------------- MODULE Process -------------------------------
(***************************************************************************)
(* The whole process: start-up, the HTTP/3 accept loop when the panel says *)
(* udp or pingora when it says tcp, and the shutdown.  The accept loop     *)
(* lives inside the server future: it begins when the backend has bound    *)
(* its port, it returns when the listener ends, and it is dropped when     *)
(* main's select! goes on without it.                                      *)
(***************************************************************************)
EXTENDS Lifecycle, Accept

vars == <<cmVars, startVars, mainVars, acceptVars>>

Init == StartInit /\ LifeInit /\ AcceptInit

ServerStarts ==
    /\ BackendStarts
    /\ IF network = "udp" /\ backend' = "serving" THEN Listen ELSE UNCHANGED acceptVars

ServerReturns ==
    /\ BackendReturns
    /\ IF network = "udp" THEN ListenerCloses ELSE UNCHANGED acceptVars

ServerDropped ==
    /\ SelectReturns
    /\ IF network = "udp" /\ loop # "off" THEN DropServer ELSE UNCHANGED acceptVars

Main == \/ (Starts \/ MainStep) /\ UNCHANGED acceptVars
        \/ ServerStarts \/ ServerDropped

Accepting == Running /\ Loop /\ UNCHANGED <<cmVars, startVars, mainVars>>

Next ==
    \/ Main \/ Accepting \/ ServerReturns
    \/ Running /\ Clients /\ UNCHANGED <<cmVars, startVars, mainVars>>
    \/ /\ \/ Environment \/ InstallHandlers \/ Signal \/ KilledLate \/ Aborted
          \/ BackendGrace \/ DrainDeadline \/ Tasks \/ UserSync
       /\ UNCHANGED acceptVars

Spec == Init /\ [][Next]_vars

\* main, the signal task and the accept loop are polled whenever they can go on (the
\* panel calls have their own timeouts), and the drain deadline passes.  Nothing
\* is assumed of tunnels and clients.
Fairness ==
    /\ WF_vars(Main)
    /\ WF_vars(InstallHandlers /\ UNCHANGED acceptVars)
    /\ WF_vars(DrainDeadline /\ UNCHANGED acceptVars)
    /\ WF_vars(Accepting)

FairSpec == Spec /\ Fairness
=============================================================================
