--------------------------------- MODULE Uot ---------------------------------
(***************************************************************************)
(* The body of a UDP-over-TCP tunnel, handle_uot_stream (src/uot.rs): the  *)
(* request of version 2, then the input loop (client to UDP) and the       *)
(* output loop (UDP to client), joined, with the tunnel's cancel token and *)
(* an inner token by which one loop stops the other.  The output loop      *)
(* writes through the padded transport, which accepts a framed write at    *)
(* once and may keep it until it is called again.                          *)
(*                                                                         *)
(* A step is what happens between two awaits.  A packet for the client is  *)
(* the sequence of its writes; a cut inside a write is a cut before it.    *)
(***************************************************************************)
EXTENDS Integers, Sequences, FiniteSets, SequencesExt

CONSTANTS PADDING_FRAMES,
          MaxPackets,   \* bound on the packets sent to UDP
          MaxDatagrams  \* bound on the datagrams received from UDP

ASSUME UotAssumption ==
    /\ PADDING_FRAMES \in Nat
    /\ MaxPackets \in Nat
    /\ MaxDatagrams \in Nat

VARIABLES version, is_connect,
          stage,     \* of the call: "request", "resolve", "bind", "loops", "returned"
          cancel,    \* the tunnel's token is cancelled
          inner,     \* the inner token is cancelled
          input,     \* the input loop: "address", "resolve", "payload", "sending", "stopped"
          sent,      \* packets sent to UDP, which record_upload has counted
          output,    \* the output loop: "receiving", "writing", "closing", "stopped"
          datagrams, \* the datagrams received: TRUE for an empty one
          todo,      \* writes of the current packet not yet accepted
          counted,   \* packets record_download has counted
          frames,    \* write_frames_done of the padded transport
          held,      \* the write accepted into write_pending
          wire,      \* the writes that reached the client's stream
          fin,       \* that stream was shut down
          broken     \* that stream is gone: the client left

inputVars  == <<input, sent>>
writerVars == <<frames, held, wire, fin>>
outputVars == <<output, datagrams, todo, counted, writerVars>>
vars == <<version, is_connect, stage, cancel, inner, inputVars, outputVars, broken>>

-----------------------------------------------------------------------------
(* Packets for the client                                                   *)

\* write_uot_packet: the address of the sender unless the socket is connected,
\* the length, and the data (an empty datagram has none to write).
Packet(i, empty) ==
    (IF is_connect THEN <<>> ELSE <<<<i, "type">>, <<i, "ip">>, <<i, "port">>>>)
        \o <<<<i, "len">>>>
        \o (IF empty THEN <<>> ELSE <<<<i, "data">>>>)

\* The packets of the first n datagrams, in order.
Packets(n) == FlattenSeq([i \in 1..n |-> Packet(i, datagrams[i])])

Init ==
    /\ version \in {"V1", "V2"}
    /\ is_connect = FALSE
    /\ stage = IF version = "V2" THEN "request" ELSE "bind"
    /\ cancel = FALSE
    /\ inner = FALSE
    /\ input = "address"
    /\ sent = 0
    /\ output = "receiving"
    /\ datagrams = <<>>
    /\ todo = <<>>
    /\ counted = 0
    /\ frames = 0
    /\ held = <<>>
    /\ wire = <<>>
    /\ fin = FALSE
    /\ broken = FALSE

-----------------------------------------------------------------------------
(* The request                                                              *)

\* is_connect and an address, which is resolved when the socket shall be connected
\* to it.  The tokens are not looked at.
ReadRequest(connect) ==
    /\ stage = "request"
    /\ is_connect' = connect
    /\ stage' = IF connect THEN "resolve" ELSE "bind"
    /\ UNCHANGED <<version, cancel, inner, inputVars, outputVars, broken>>

ResolveRequest ==
    /\ stage = "resolve"
    /\ stage' = "bind"
    /\ UNCHANGED <<version, is_connect, cancel, inner, inputVars, outputVars, broken>>

\* A packet of a connected socket begins with its length.
Begin == IF is_connect THEN "payload" ELSE "address"

\* The socket is bound, connected if asked for, and the loops begin.
Bind ==
    /\ stage = "bind"
    /\ stage' = "loops"
    /\ input' = Begin
    /\ UNCHANGED <<version, is_connect, cancel, inner, sent, outputVars, broken>>

\* The end of the stream, an unknown address type, a name that is not UTF-8 or
\* does not resolve, a socket that cannot be bound: the call fails.
RequestFails ==
    /\ stage \in {"request", "resolve", "bind"}
    /\ stage' = "returned"
    /\ UNCHANGED <<version, is_connect, cancel, inner, inputVars, outputVars, broken>>

-----------------------------------------------------------------------------
(* The input loop                                                           *)

InputLoop == stage = "loops" /\ input # "stopped"

ReadAddress ==
    /\ InputLoop /\ input = "address"
    /\ input' = "resolve"
    /\ UNCHANGED <<version, is_connect, stage, cancel, inner, sent, outputVars, broken>>

ResolveAddress ==
    /\ InputLoop /\ input = "resolve"
    /\ input' = "payload"
    /\ UNCHANGED <<version, is_connect, stage, cancel, inner, sent, outputVars, broken>>

\* The length and the payload; an empty packet is skipped.
ReadPayload(empty) ==
    /\ InputLoop /\ input = "payload"
    /\ sent < MaxPackets
    /\ input' = IF empty THEN Begin ELSE "sending"
    /\ UNCHANGED <<version, is_connect, stage, cancel, inner, sent, outputVars, broken>>

\* A datagram that was sent is counted; the loop reads the next packet.
InputSends ==
    /\ InputLoop /\ input = "sending"
    /\ sent' = sent + 1
    /\ input' = Begin
    /\ UNCHANGED <<version, is_connect, stage, cancel, inner, outputVars, broken>>

\* Faulty variant: the other loop is not told.
InputFailsSilently ==
    /\ InputLoop
    /\ input' = "stopped"
    /\ UNCHANGED <<version, is_connect, stage, cancel, inner, sent, outputVars, broken>>

\* Reading, resolving or sending fails, or the client's stream ends.
InputFails ==
    /\ InputLoop
    /\ inner' = TRUE
    /\ input' = "stopped"
    /\ UNCHANGED <<version, is_connect, stage, cancel, sent, outputVars, broken>>

\* A token is cancelled: the packet being read or sent is dropped.
InputStops ==
    /\ InputLoop
    /\ cancel \/ inner
    /\ inner' = TRUE
    /\ input' = "stopped"
    /\ UNCHANGED <<version, is_connect, stage, cancel, sent, outputVars, broken>>

-----------------------------------------------------------------------------
(* The output loop                                                          *)

\* recv_from returns a datagram, and write_uot_packet begins.
OutputReceives(empty) ==
    /\ stage = "loops" /\ output = "receiving"
    /\ Len(datagrams) < MaxDatagrams
    /\ datagrams' = Append(datagrams, empty)
    /\ todo' = Packet(Len(datagrams) + 1, empty)
    /\ output' = "writing"
    /\ UNCHANGED <<version, is_connect, stage, cancel, inner, inputVars, counted, writerVars, broken>>

OutputFails ==
    /\ stage = "loops" /\ output = "receiving"
    /\ inner' = TRUE
    /\ output' = "closing"
    /\ UNCHANGED <<version, is_connect, stage, cancel, inputVars,
                   datagrams, todo, counted, writerVars, broken>>

\* What the transport still holds goes out, before a write or the shutdown.
DrainHeld ==
    /\ output \in {"writing", "closing"} /\ ~broken
    /\ held # <<>>
    /\ wire' = wire \o held
    /\ held' = <<>>
    /\ UNCHANGED <<version, is_connect, stage, cancel, inner, inputVars,
                   output, datagrams, todo, counted, frames, fin, broken>>

\* The transport accepts the next write of the packet: a framed one goes out or
\* is held, later ones go out.  After the last one the packet is counted.
WriteAccepts(hold) ==
    /\ output = "writing" /\ ~broken
    /\ held = <<>>
    /\ hold => frames < PADDING_FRAMES
    /\ IF hold THEN held' = <<Head(todo)>> /\ UNCHANGED wire
               ELSE wire' = Append(wire, Head(todo)) /\ UNCHANGED held
    /\ frames' = IF frames < PADDING_FRAMES THEN frames + 1 ELSE frames
    /\ todo' = Tail(todo)
    /\ IF Len(todo) = 1 THEN output' = "receiving" /\ counted' = counted + 1
                        ELSE UNCHANGED <<output, counted>>
    /\ UNCHANGED <<version, is_connect, stage, cancel, inner, inputVars, datagrams, fin, broken>>

\* Faulty variant: a datagram is counted although its packet was not written.
WriteFailsCounted ==
    /\ output = "writing" /\ broken
    /\ inner' = TRUE
    /\ output' = "closing"
    /\ counted' = counted + 1
    /\ UNCHANGED <<version, is_connect, stage, cancel, inputVars, datagrams, todo, writerVars, broken>>

WriteFails ==
    /\ output = "writing" /\ broken
    /\ inner' = TRUE
    /\ output' = "closing"
    /\ UNCHANGED <<version, is_connect, stage, cancel, inputVars,
                   datagrams, todo, counted, writerVars, broken>>

\* Faulty variant: the tokens are looked at between the writes of a packet.
OutputStopsMidPacket ==
    /\ stage = "loops" /\ output \in {"receiving", "writing"}
    /\ cancel \/ inner
    /\ inner' = TRUE
    /\ output' = "closing"
    /\ UNCHANGED <<version, is_connect, stage, cancel, inputVars,
                   datagrams, todo, counted, writerVars, broken>>

\* A token is cancelled; the tokens are looked at only between packets.
OutputStops ==
    /\ stage = "loops" /\ output = "receiving"
    /\ cancel \/ inner
    /\ inner' = TRUE
    /\ output' = "closing"
    /\ UNCHANGED <<version, is_connect, stage, cancel, inputVars,
                   datagrams, todo, counted, writerVars, broken>>

\* h2_writer.shutdown(): what is held goes out first.
Close ==
    /\ output = "closing" /\ ~broken /\ held = <<>>
    /\ fin' = TRUE
    /\ output' = "stopped"
    /\ UNCHANGED <<version, is_connect, stage, cancel, inner, inputVars,
                   datagrams, todo, counted, frames, held, wire, broken>>

\* The shutdown fails or takes longer than UOT_SHUTDOWN_TIMEOUT.
CloseGivesUp ==
    /\ output = "closing"
    /\ output' = "stopped"
    /\ UNCHANGED <<version, is_connect, stage, cancel, inner, inputVars,
                   datagrams, todo, counted, writerVars, broken>>

\* join!: both loops have ended.
Return ==
    /\ stage = "loops" /\ input = "stopped" /\ output = "stopped"
    /\ stage' = "returned"
    /\ UNCHANGED <<version, is_connect, cancel, inner, inputVars, outputVars, broken>>

-----------------------------------------------------------------------------
(* The environment                                                          *)

\* The user is kicked, or the server shuts down.
Cancel ==
    /\ ~cancel
    /\ cancel' = TRUE
    /\ UNCHANGED <<version, is_connect, stage, inner, inputVars, outputVars, broken>>

\* The client leaves: its stream fails in both directions.
ClientLeaves ==
    /\ ~broken /\ stage # "returned"
    /\ broken' = TRUE
    /\ UNCHANGED <<version, is_connect, stage, cancel, inner, inputVars, outputVars>>

Request ==
    \/ \E connect \in BOOLEAN : ReadRequest(connect)
    \/ ResolveRequest \/ Bind \/ RequestFails
Input ==
    \/ ReadAddress \/ ResolveAddress
    \/ \E empty \in BOOLEAN : ReadPayload(empty)
    \/ InputSends \/ InputFails \/ InputStops
\* A write or a shutdown that waits for the client to take bytes.
ClientTakes == DrainHeld \/ \E hold \in BOOLEAN : WriteAccepts(hold)
Output ==
    \/ \E empty \in BOOLEAN : OutputReceives(empty)
    \/ OutputFails \/ WriteFails \/ OutputStops \/ Close \/ CloseGivesUp

Next == Request \/ Input \/ Output \/ ClientTakes \/ Return \/ Cancel \/ ClientLeaves

Spec == Init /\ [][Next]_vars

\* A loop whose token is cancelled is woken; select! polls its branches in random
\* order, so datagrams that keep coming do not hide the token for ever.  The
\* shutdown has a timeout, a write to a stream that is gone fails, and the client
\* goes on reading until it leaves.
Fairness ==
    /\ WF_vars(InputStops)
    /\ SF_vars(OutputStops)
    /\ WF_vars(WriteFails)
    /\ WF_vars(CloseGivesUp)
    /\ WF_vars(Return)
    /\ WF_vars(ClientTakes)

FairSpec == Spec /\ Fairness

-----------------------------------------------------------------------------
(* Properties                                                               *)

\* The client's stream carries the packets of the datagrams in the order they
\* were received, without a gap: what reached it, what the padded transport
\* holds and what is still to be written are together exactly those packets.
\* record_download has counted those that were accepted whole (uot.rs:286-312).
DownloadExact ==
    /\ wire \o held \o todo = Packets(Len(datagrams))
    /\ counted = Len(datagrams) - (IF todo = <<>> THEN 0 ELSE 1)

\* "cancel is not checked mid-write (intentional: avoids partial frames)": a
\* stream that is closed with a FIN ends after a whole packet, and everything
\* that was counted is in it, the write held by the padded transport included,
\* whether the loop ended by an error, the client or a kick (uot.rs:291-317).
FinEndsPacket ==
    fin => /\ held = <<>>
           /\ wire = Packets(counted)

\* When one loop ends or the tunnel is kicked, the other loop ends and the call
\* returns, so that the guard unregisters the connection (uot.rs:233-320).  It
\* takes a client that reads or leaves.
OneStopsBoth ==
    (stage = "loops" /\ (cancel \/ input = "stopped" \/ output \in {"closing", "stopped"}))
        ~> stage = "returned"
=============================================================================
