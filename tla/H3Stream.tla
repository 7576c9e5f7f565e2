------------------------------ MODULE H3Stream -------------------------------
(***************************************************************************)
(* H3StreamReader and H3StreamWriter (src/transport/quiche_stream.rs): a   *)
(* tunnel's AsyncRead and AsyncWrite over the two frame channels that the  *)
(* QUIC driver keeps for a stream.  The driver is external: it enqueues    *)
(* what the client sends, delivers to the client what is enqueued, and may *)
(* go away with the connection.                                            *)
(*                                                                         *)
(* A byte is its position in its direction.  Each call of the adapters is  *)
(* a step; a call that is Pending changes nothing.                         *)
(***************************************************************************)
EXTENDS Integers, Sequences

CONSTANTS H3Bytes,   \* bound on the bytes of either direction
          MaxChunk,  \* bytes of a frame, and of a buffer given to poll_read
          MaxFrames, \* capacity of each channel
          MaxIdle    \* bound on the frames that carry no byte, per direction

ASSUME H3Assumption ==
    /\ H3Bytes \in Nat
    /\ MaxChunk \in Nat \ {0}
    /\ MaxFrames \in Nat \ {0}
    /\ MaxIdle \in Nat

VARIABLES recv,   \* the inbound channel
          rbuf,   \* H3StreamReader's buf, the rest of a frame
          rfin,   \* H3StreamReader's fin, the client's FIN was seen
          upSent, \* bytes the driver has enqueued
          upFin,  \* the driver enqueued the FIN
          upGone, \* the driver dropped its sender without a FIN
          upGot,  \* bytes poll_read has returned
          upEof,  \* poll_read returned no byte
          upIdle  \* frames without a byte so far

VARIABLES send,     \* the outbound channel
          written,  \* bytes poll_write has accepted
          shut,     \* poll_shutdown has enqueued a FIN
          gone,     \* the driver dropped its receiver, or the writer was dropped
          downGot,  \* bytes the client received
          downEof,  \* the client received the FIN
          downIdle  \* frames without a byte so far

readVars  == <<recv, rbuf, rfin, upSent, upFin, upGone, upGot, upEof, upIdle>>
writeVars == <<send, written, shut, gone, downGot, downEof, downIdle>>
h3Vars == <<readVars, writeVars>>

\* n bytes after the first k.
Chunk(k, n) == [i \in 1..n |-> k + i]
Body(data, f) == [type |-> "Body", data |-> data, fin |-> f]
Datagram == [type |-> "Datagram", data |-> <<>>, fin |-> FALSE]

H3Init ==
    /\ recv = <<>> /\ rbuf = <<>> /\ rfin = FALSE
    /\ upSent = 0 /\ upFin = FALSE /\ upGone = FALSE
    /\ upGot = <<>> /\ upEof = FALSE /\ upIdle = 0
    /\ send = <<>> /\ written = 0 /\ shut = FALSE /\ gone = FALSE
    /\ downGot = <<>> /\ downEof = FALSE /\ downIdle = 0

-----------------------------------------------------------------------------
(* The driver's side of the inbound channel                                 *)

\* A part of the client's data, possibly empty, possibly with the FIN.
DriverBody(n, f) ==
    /\ ~upFin /\ ~upGone
    /\ Len(recv) < MaxFrames
    /\ upSent + n <= H3Bytes
    /\ upIdle' = IF n = 0 /\ ~f THEN upIdle + 1 ELSE upIdle
    /\ upIdle' <= MaxIdle
    /\ recv' = Append(recv, Body(Chunk(upSent, n), f))
    /\ upSent' = upSent + n
    /\ upFin' = f
    /\ UNCHANGED <<rbuf, rfin, upGone, upGot, upEof, writeVars>>

DriverDatagram ==
    /\ ~upGone /\ Len(recv) < MaxFrames
    /\ upIdle < MaxIdle
    /\ upIdle' = upIdle + 1
    /\ recv' = Append(recv, Datagram)
    /\ UNCHANGED <<rbuf, rfin, upSent, upFin, upGone, upGot, upEof, writeVars>>

DriverDropsSender ==
    /\ ~upFin /\ ~upGone
    /\ upGone' = TRUE
    /\ UNCHANGED <<recv, rbuf, rfin, upSent, upFin, upGot, upEof, upIdle, writeVars>>

-----------------------------------------------------------------------------
(* H3StreamReader::poll_read                                                *)

\* The next frame is fetched only when rbuf is used up and there was no FIN.
\* Datagrams and empty bodies are skipped within the call.
PullFrame ==
    /\ rbuf = <<>> /\ ~rfin
    /\ recv # <<>>
    /\ recv' = Tail(recv)
    /\ rfin' = Head(recv).fin
    /\ rbuf' = Head(recv).data
    /\ UNCHANGED <<upSent, upFin, upGone, upGot, upEof, upIdle, writeVars>>

\* Faulty variant: the part that did not fit is dropped.
ReadBufDropsRest(remaining) ==
    LET len == IF Len(rbuf) < remaining THEN Len(rbuf) ELSE remaining
    IN /\ rbuf # <<>>
       /\ upGot' = upGot \o SubSeq(rbuf, 1, len)
       /\ rbuf' = <<>>
       /\ UNCHANGED <<recv, rfin, upSent, upFin, upGone, upEof, upIdle, writeVars>>

\* As much of rbuf as the caller has room for.
ReadBuf(remaining) ==
    LET len == IF Len(rbuf) < remaining THEN Len(rbuf) ELSE remaining
    IN /\ rbuf # <<>>
       /\ upGot' = upGot \o SubSeq(rbuf, 1, len)
       /\ rbuf' = SubSeq(rbuf, len + 1, Len(rbuf))
       /\ UNCHANGED <<recv, rfin, upSent, upFin, upGone, upEof, upIdle, writeVars>>

\* The FIN was seen, or the channel is empty and its sender gone.
PollReadEof ==
    /\ rbuf = <<>>
    /\ rfin \/ (upGone /\ recv = <<>>)
    /\ upEof' = TRUE
    /\ UNCHANGED <<recv, rbuf, rfin, upSent, upFin, upGone, upGot, upIdle, writeVars>>

-----------------------------------------------------------------------------
(* H3StreamWriter                                                           *)

\* A frame is enqueued once a slot is reserved; the whole buffer is accepted, an
\* empty one makes an empty frame.  Nobody writes after a shutdown.
PollWrite(n) ==
    /\ ~shut /\ ~gone
    /\ Len(send) < MaxFrames
    /\ written + n <= H3Bytes
    /\ downIdle' = IF n = 0 THEN downIdle + 1 ELSE downIdle
    /\ downIdle' <= MaxIdle
    /\ send' = Append(send, Body(Chunk(written, n), FALSE))
    /\ written' = written + n
    /\ UNCHANGED <<readVars, shut, gone, downGot, downEof>>

\* Faulty variant: the FIN overtakes what is queued.
PollShutdownOvertakes ==
    /\ ~gone
    /\ Len(send) < MaxFrames
    /\ send' = <<Body(<<>>, TRUE)>> \o send
    /\ downIdle' = IF shut THEN downIdle + 1 ELSE downIdle
    /\ downIdle' <= MaxIdle
    /\ shut' = TRUE
    /\ UNCHANGED <<readVars, written, gone, downGot, downEof>>

\* A FIN is enqueued behind the data.  A relay that has half-closed and is then
\* kicked shuts down twice, and enqueues a second one.
PollShutdown ==
    /\ ~gone
    /\ Len(send) < MaxFrames
    /\ send' = Append(send, Body(<<>>, TRUE))
    /\ downIdle' = IF shut THEN downIdle + 1 ELSE downIdle
    /\ downIdle' <= MaxIdle
    /\ shut' = TRUE
    /\ UNCHANGED <<readVars, written, gone, downGot, downEof>>

\* The driver delivers a frame; after a FIN there is nothing to deliver.
DriverDelivers ==
    /\ ~gone /\ send # <<>>
    /\ send' = Tail(send)
    /\ downGot' = IF downEof THEN downGot ELSE downGot \o Head(send).data
    /\ downEof' = (downEof \/ Head(send).fin)
    /\ UNCHANGED <<readVars, written, shut, gone, downIdle>>

\* The connection ends, or the writer is dropped without a shutdown.
WriterGone ==
    /\ ~gone
    /\ gone' = TRUE
    /\ UNCHANGED <<readVars, send, written, shut, downGot, downEof, downIdle>>

Read == PullFrame \/ PollReadEof \/ \E n \in 1..MaxChunk : ReadBuf(n)
Write == PollShutdown \/ \E n \in 0..MaxChunk : PollWrite(n)
Driver ==
    \/ \E n \in 0..MaxChunk, f \in BOOLEAN : DriverBody(n, f)
    \/ DriverDatagram \/ DriverDropsSender \/ DriverDelivers \/ WriterGone

H3Next == Read \/ Write \/ Driver

H3Spec == H3Init /\ [][H3Next]_h3Vars

-----------------------------------------------------------------------------
(* Properties                                                               *)

Up == INSTANCE ByteStream WITH
    sent <- upSent, received <- upGot, closed <- upFin \/ upGone, broken <- upGone, eof <- upEof

\* What the tunnel reads is a byte stream: frames that are empty, larger than the
\* caller's buffer, or carry the FIN together with data lose nothing, and only a
\* driver that goes away without a FIN can cut the stream short
\* (quiche_stream.rs:50-90).
UploadIsStream == Up!Spec

Down == INSTANCE ByteStream WITH
    sent <- written, received <- downGot, closed <- shut \/ gone, broken <- gone, eof <- downEof

\* What the tunnel writes reaches the client as a byte stream whose FIN comes after
\* the last byte, also when the writer is shut down twice
\* (quiche_stream.rs:115-166).
DownloadIsStream == Down!Spec
=============================================================================
