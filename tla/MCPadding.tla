------------------------------ MODULE MCPadding ------------------------------
(* Padding for TLC; a stream whose end was reported is over.                *)
EXTENDS Padding

Over == eof /\ UNCHANGED vars

MCSpec == Init /\ [][Next \/ Over]_vars
MCFairSpec == MCSpec /\ Fairness
=============================================================================
