----------------------------- MODULE MCDatagram ------------------------------
(* Datagram and DgramBuffer for TLC.  They share no state, so a behaviour   *)
(* is one of the socket's or one of the buffer's.                           *)
EXTENDS Datagram, DgramBuffer

VARIABLE part  \* the component this behaviour is about

MCInit ==
    \/ part = "socket" /\ SockInit /\ buf = Empty
    \/ /\ part = "buffer" /\ BufInit
       /\ SockInit /\ dir = "recv" /\ impl = "mmsg"

MCNext ==
    \/ part = "socket" /\ SockNext /\ UNCHANGED <<buf, part>>
    \/ part = "buffer" /\ BufNext /\ UNCHANGED <<sockVars, part>>

MCSpec == MCInit /\ [][MCNext]_<<sockVars, buf, part>> /\ SockFairness
=============================================================================
