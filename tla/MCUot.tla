-------------------------------- MODULE MCUot --------------------------------
(* Uot for TLC; a call that returned is over.                               *)
EXTENDS Uot

Over == stage = "returned" /\ UNCHANGED vars

MCSpec == Init /\ [][Next \/ Over]_vars
MCFairSpec == MCSpec /\ Fairness
=============================================================================
