----------------------------- MODULE ByteStream -----------------------------
(***************************************************************************)
(* What a transport promises to the two ends of one direction: a byte      *)
(* stream that can be closed, and that may break.  A byte is its position  *)
(* in what the sender has written.                                         *)
(***************************************************************************)
EXTENDS Naturals, Sequences

CONSTANT MaxChunk  \* bytes one call can move

VARIABLES sent,      \* bytes the sender's writes have accepted
          received,  \* bytes the receiver's reads have returned
          closed,    \* the sender has closed, or the transport broke
          broken,    \* bytes accepted may be missing
          eof        \* the receiver was told the end of the stream

vars == <<sent, received, closed, broken, eof>>

Init ==
    /\ sent = 0
    /\ received = <<>>
    /\ closed = FALSE
    /\ broken = FALSE
    /\ eof = FALSE

Send(n) ==
    /\ ~closed
    /\ sent' = sent + n
    /\ UNCHANGED <<received, closed, broken, eof>>

Receive(n) ==
    /\ ~eof
    /\ Len(received) + n <= sent
    /\ received' = received \o [i \in 1..n |-> Len(received) + i]
    /\ UNCHANGED <<sent, closed, broken, eof>>

\* The last n bytes may come with the close; closing twice changes nothing.
Close(n) ==
    /\ closed => n = 0
    /\ sent' = sent + n
    /\ closed' = TRUE
    /\ UNCHANGED <<received, broken, eof>>

\* Also after the close: bytes may still be on their way.
Break ==
    /\ ~broken
    /\ closed' = TRUE
    /\ broken' = TRUE
    /\ UNCHANGED <<sent, received, eof>>

\* Without a break, the end is reported only after the last byte.
Eof ==
    /\ closed
    /\ broken \/ Len(received) = sent
    /\ eof' = TRUE
    /\ UNCHANGED <<sent, received, closed, broken>>

Next ==
    \/ \E n \in 1..MaxChunk : Send(n) \/ Receive(n)
    \/ \E n \in 0..MaxChunk : Close(n)
    \/ Break \/ Eof

Spec == Init /\ [][Next]_vars
=============================================================================
