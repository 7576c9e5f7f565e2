----------------------------- MODULE MCTransports -----------------------------
(* The two transports under a tunnel for TLC: the session bridge over       *)
(* pingora, or the stream adapters over the QUIC driver.                    *)
EXTENDS SessionBridge, H3Stream

VARIABLE part  \* the transport of this behaviour

allVars == <<vars, h3Vars, part>>

\* Nothing is left to happen; the driver and its peer may fall silent.
Over == at = "done" /\ tunnel = "dropped" /\ UNCHANGED allVars
Silent == part = "h3" /\ UNCHANGED allVars

\* Uploads go on without end: the bytes the tunnel has read are forgotten and the
\* others renumbered, so MaxBytes bounds what is under way, not what is sent.
Renumber ==
    LET n == Len(got)
        Shifted(s) == [i \in DOMAIN s |-> s[i] - n]
    IN /\ n > 0
       /\ got' = <<>>
       /\ sent' = sent - n
       /\ body' = Shifted(body)
       /\ up' = Shifted(up)
       /\ chunk' = IF at = "upload" THEN Shifted(chunk) ELSE chunk
       /\ UNCHANGED <<at, up_eof, down_eof, client, received, ended, upShut, down,
                      tunnel, made, gotEof>>

MCInit == Init /\ H3Init /\ part \in {"bridge", "h3"}

MCNext ==
    \/ part = "bridge" /\ (Next \/ Renumber) /\ UNCHANGED <<h3Vars, part>>
    \/ part = "h3" /\ H3Next /\ UNCHANGED <<vars, part>>
    \/ Over \/ Silent

MCFairSpec == MCInit /\ [][MCNext]_allVars /\ (part = "bridge" => Fairness)
=============================================================================
