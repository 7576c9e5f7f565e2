------------------------------- MODULE MCRelay -------------------------------
(* Relay for TLC; a relay that has ended stays ended.                       *)
EXTENDS Relay

Ended == turn = "ended" /\ UNCHANGED vars

MCSpec == Init /\ [][Next \/ Ended]_vars
MCFairSpec == MCSpec /\ Fairness
=============================================================================
