---------------------------- MODULE SessionBridge ----------------------------
(***************************************************************************)
(* run_session_bridge (src/transport/pingora_session.rs) as process_h2     *)
(* (src/handler.rs) uses it: one task moves body bytes between the HTTP/2  *)
(* session and one half of a duplex pair, the tunnel task works on the     *)
(* other half.  A loop iteration polls the upload first (biased); the      *)
(* branch that is ready then runs to its end, so a blocked write of one    *)
(* direction keeps the bridge from the other.                              *)
(*                                                                         *)
(* A byte is its position in what the client or the tunnel sends.  Writes  *)
(* proceed byte by byte.                                                   *)
(***************************************************************************)
EXTENDS Integers, Sequences

CONSTANTS BRIDGE_BUF,  \* the read buffer of the bridge
          Capacity,    \* of each direction of the duplex pair
          MaxBytes     \* bound on the bytes sent by either side

ASSUME BridgeAssumption ==
    /\ BRIDGE_BUF \in Nat \ {0}
    /\ Capacity \in Nat /\ Capacity >= BRIDGE_BUF
    /\ MaxBytes \in Nat

VARIABLES at,       \* the bridge: "pollUp", "pollDown", "upload", "download", "end", "done"
          up_eof, down_eof,
          chunk,    \* the rest of what the running branch has to write
          body,     \* sent by the client, not yet read by the bridge
          client,   \* the client's side of the stream: "open", "eof", "reset"
          sent,     \* bytes the client sent
          received, \* bytes the client received
          ended,    \* the response was ended with END_STREAM
          up,       \* the duplex, towards the tunnel
          upShut,   \* that direction is shut down
          down,     \* the duplex, towards the client
          tunnel,   \* the tunnel's half: "open", "shut" (writing), "dropped"
          made,     \* bytes the tunnel wrote
          got,      \* bytes the tunnel read
          gotEof    \* the tunnel read the end of file

bridgeVars == <<at, up_eof, down_eof, chunk>>
clientVars == <<body, client, sent, received, ended>>
duplexVars == <<up, upShut, down>>
tunnelVars == <<tunnel, made, got, gotEof>>
vars == <<bridgeVars, clientVars, duplexVars, tunnelVars>>

\* The first n bytes of a stream.
Bytes(n) == [i \in 1..n |-> i]

Init ==
    /\ at = "pollUp"
    /\ up_eof = FALSE /\ down_eof = FALSE
    /\ chunk = <<>>
    /\ body = <<>> /\ client = "open" /\ sent = 0
    /\ received = <<>> /\ ended = FALSE
    /\ up = <<>> /\ upShut = FALSE /\ down = <<>>
    /\ tunnel = "open" /\ made = 0 /\ got = <<>> /\ gotEof = FALSE

\* The loop's condition, after a branch: back to select!, or the end.
Loop(u, d) ==
    /\ up_eof' = u
    /\ down_eof' = d
    /\ at' = IF u /\ d THEN "done" ELSE "pollUp"

-----------------------------------------------------------------------------
(* The upload branch                                                        *)

\* read_body_or_idle has a chunk: any part of what the client has sent.
UploadChunk(n) ==
    /\ at = "pollUp" /\ ~up_eof
    /\ n \in 1..Len(body)
    /\ chunk' = SubSeq(body, 1, n)
    /\ body' = SubSeq(body, n + 1, Len(body))
    /\ at' = "upload"
    /\ UNCHANGED <<up_eof, down_eof, client, sent, received, ended, duplexVars, tunnelVars>>

\* Faulty variant: an error of the session is read again.
UploadEndsOnEofOnly ==
    /\ at = "pollUp" /\ ~up_eof
    /\ client = "reset" \/ (client = "eof" /\ body = <<>>)
    /\ body' = <<>>
    /\ upShut' = TRUE
    /\ Loop(client = "eof", down_eof)
    /\ UNCHANGED <<chunk, client, sent, received, ended, up, down, tunnelVars>>

\* The client ended the request body, or reset the stream, in which case what was
\* not read is gone: the duplex is shut down.
UploadEnds ==
    /\ at = "pollUp" /\ ~up_eof
    /\ client = "reset" \/ (client = "eof" /\ body = <<>>)
    /\ body' = <<>>
    /\ upShut' = TRUE
    /\ Loop(TRUE, down_eof)
    /\ UNCHANGED <<chunk, client, sent, received, ended, up, down, tunnelVars>>

\* The branch is Pending, or disabled.
UploadPending ==
    /\ at = "pollUp"
    /\ up_eof \/ (body = <<>> /\ client = "open")
    /\ at' = "pollDown"
    /\ UNCHANGED <<up_eof, down_eof, chunk, clientVars, duplexVars, tunnelVars>>

\* io_write.write_all: waits for room in the duplex.
UploadWrites ==
    /\ at = "upload" /\ tunnel # "dropped"
    /\ Len(up) < Capacity
    /\ up' = Append(up, Head(chunk))
    /\ chunk' = Tail(chunk)
    /\ IF Len(chunk) = 1 THEN Loop(up_eof, down_eof) ELSE UNCHANGED <<at, up_eof, down_eof>>
    /\ UNCHANGED <<clientVars, upShut, down, tunnelVars>>

\* Faulty variant: the write is tried again.
UploadFailsRetried ==
    /\ at = "upload" /\ tunnel = "dropped"
    /\ UNCHANGED vars

\* The tunnel has dropped its half: the write fails.
UploadFails ==
    /\ at = "upload" /\ tunnel = "dropped"
    /\ chunk' = <<>>
    /\ Loop(TRUE, down_eof)
    /\ UNCHANGED <<clientVars, duplexVars, tunnelVars>>

-----------------------------------------------------------------------------
(* The download branch                                                      *)

\* io_read.read returns what the duplex holds, as far as read_buf goes.
DownloadChunk ==
    /\ at = "pollDown" /\ ~down_eof
    /\ down # <<>>
    /\ LET n == IF Len(down) < BRIDGE_BUF THEN Len(down) ELSE BRIDGE_BUF
       IN /\ chunk' = SubSeq(down, 1, n)
          /\ down' = SubSeq(down, n + 1, Len(down))
    /\ at' = "download"
    /\ UNCHANGED <<up_eof, down_eof, clientVars, up, upShut, tunnelVars>>

\* Faulty variant: looks at the tunnel's half before what it left in the duplex.
DownloadEofEager ==
    /\ at = "pollDown" /\ ~down_eof
    /\ tunnel # "open"
    /\ at' = "end"
    /\ UNCHANGED <<up_eof, down_eof, chunk, clientVars, duplexVars, tunnelVars>>

\* The tunnel has shut down or dropped its half and the duplex is empty.
DownloadEof ==
    /\ at = "pollDown" /\ ~down_eof
    /\ down = <<>> /\ tunnel # "open"
    /\ at' = "end"
    /\ UNCHANGED <<up_eof, down_eof, chunk, clientVars, duplexVars, tunnelVars>>

\* The branch is Pending, or disabled: the task waits for either to wake it.
DownloadPending ==
    /\ at = "pollDown"
    /\ down_eof \/ (down = <<>> /\ tunnel = "open")
    /\ at' = "pollUp"
    /\ UNCHANGED <<up_eof, down_eof, chunk, clientVars, duplexVars, tunnelVars>>

\* write_response_body(Some(chunk), false): the client takes a byte.
ClientTakes ==
    /\ at = "download" /\ client # "reset"
    /\ received' = Append(received, Head(chunk))
    /\ chunk' = Tail(chunk)
    /\ IF Len(chunk) = 1 THEN Loop(up_eof, down_eof) ELSE UNCHANGED <<at, up_eof, down_eof>>
    /\ UNCHANGED <<body, client, sent, ended, duplexVars, tunnelVars>>

DownloadFails ==
    /\ at = "download" /\ client = "reset"
    /\ chunk' = <<>>
    /\ Loop(up_eof, TRUE)
    /\ UNCHANGED <<clientVars, duplexVars, tunnelVars>>

\* write_response_body(None, true), whose error is ignored.
ResponseEnds ==
    /\ at = "end"
    /\ ended' = (client # "reset")
    /\ Loop(up_eof, TRUE)
    /\ UNCHANGED <<chunk, body, client, sent, received, duplexVars, tunnelVars>>

-----------------------------------------------------------------------------
(* The client and the tunnel                                                *)

ClientSends ==
    /\ client = "open" /\ sent < MaxBytes
    /\ sent' = sent + 1
    /\ body' = Append(body, sent')
    /\ UNCHANGED <<bridgeVars, client, received, ended, duplexVars, tunnelVars>>

ClientEnds ==
    /\ client = "open"
    /\ client' = "eof"
    /\ UNCHANGED <<bridgeVars, body, sent, received, ended, duplexVars, tunnelVars>>

ClientResets ==
    /\ client # "reset"
    /\ client' = "reset"
    /\ UNCHANGED <<bridgeVars, body, sent, received, ended, duplexVars, tunnelVars>>

TunnelReads ==
    /\ tunnel # "dropped" /\ up # <<>>
    /\ got' = Append(got, Head(up))
    /\ up' = Tail(up)
    /\ UNCHANGED <<bridgeVars, clientVars, upShut, down, tunnel, made, gotEof>>

\* The bridge shut the duplex down, or returned and dropped its half.
TunnelReadsEof ==
    /\ tunnel # "dropped" /\ up = <<>>
    /\ upShut \/ at = "done"
    /\ ~gotEof
    /\ gotEof' = TRUE
    /\ UNCHANGED <<bridgeVars, clientVars, duplexVars, tunnel, made, got>>

TunnelWrites ==
    /\ tunnel = "open" /\ at # "done"
    /\ Len(down) < Capacity /\ made < MaxBytes
    /\ made' = made + 1
    /\ down' = Append(down, made')
    /\ UNCHANGED <<bridgeVars, clientVars, up, upShut, tunnel, got, gotEof>>

TunnelShutsDown ==
    /\ tunnel = "open"
    /\ tunnel' = "shut"
    /\ UNCHANGED <<bridgeVars, clientVars, duplexVars, made, got, gotEof>>

\* process_tunnel returns, for whatever reason, and drops its half; what it had
\* not read is gone, what it had written stays in the duplex.
TunnelDrops ==
    /\ tunnel # "dropped"
    /\ tunnel' = "dropped"
    /\ up' = <<>>
    /\ UNCHANGED <<bridgeVars, clientVars, upShut, down, made, got, gotEof>>

Upload == (\E n \in 1..MaxBytes : UploadChunk(n)) \/ UploadEnds \/ UploadPending
              \/ UploadWrites \/ UploadFails
Download == DownloadChunk \/ DownloadEof \/ DownloadPending \/ DownloadFails \/ ResponseEnds
Client == ClientSends \/ ClientEnds \/ ClientResets
Tunnel == TunnelReads \/ TunnelReadsEof \/ TunnelWrites \/ TunnelShutsDown \/ TunnelDrops

Next == Upload \/ Download \/ ClientTakes \/ Client \/ Tunnel

Spec == Init /\ [][Next]_vars

\* The task is polled when it can go on and the client takes what it is sent.
\* Nothing makes the tunnel read (its origin may stop taking) nor the client pause.
Fairness ==
    /\ WF_vars(Upload)
    /\ WF_vars(Download)
    /\ WF_vars(ClientTakes)

FairSpec == Spec /\ Fairness

-----------------------------------------------------------------------------
(* Properties                                                               *)

\* The tunnel reads what the client sent and the client receives what the tunnel
\* wrote, each in order and without a gap.  The tunnel sees the end of file only
\* after all of it, unless the client reset the stream; the response ends only after
\* all of it, also when process_tunnel has dropped its half with bytes still in the
\* duplex (pingora_session.rs:43-81).
BridgeFaithful ==
    /\ \E n \in 0..sent : got \o up = Bytes(n)
    /\ gotEof /\ client # "reset" => got = Bytes(sent)
    /\ \E n \in 0..made : received = Bytes(n)
    /\ ended => received = Bytes(made)

\* The relay keeps taking uploads: the duplex does not stay full for ever.
TunnelTakes == []<>(Len(up) < Capacity \/ tunnel = "dropped")

\* The client pauses: from some point on it sends nothing more.
ClientPauses == <>[][~ClientSends]_vars

\* Every byte the tunnel wrote reaches the client, or the client has reset the
\* stream, on two conditions that pingora_session.rs:41-81 needs.  The select is
\* biased, so the client has to pause: uploads that are always ready keep the
\* downloads from being polled.  And the upload is written inline, so the relay has to
\* keep taking: an upload that waits for room keeps them waiting with it.
DownloadFlows ==
    TunnelTakes /\ ClientPauses =>
        \A i \in 1..MaxBytes : (made >= i) ~> (Len(received) >= i \/ client = "reset")

\* Once the tunnel is gone and the client has ended its side, the bridge returns.
BridgeEnds == (tunnel = "dropped" /\ client # "open") ~> at = "done"
=============================================================================
