------------------------------- MODULE Padding -------------------------------
(***************************************************************************)
(* One direction of NaivePaddedTransport (src/transport/padding.rs): the   *)
(* AsyncWrite half frames its first PADDING_FRAMES writes and then passes  *)
(* bytes through, the AsyncRead half undoes that.                          *)
(*                                                                         *)
(* A step is one call of poll_read or poll_write on the inner stream,      *)
(* which moves any part of what it is given; a call that is Pending        *)
(* changes nothing.  A byte of the wire carries a value, as a header byte  *)
(* would be read, and a payload byte its position in the payload.          *)
(***************************************************************************)
EXTENDS Integers, Sequences

CONSTANTS PADDING_FRAMES,
          Radix,     \* values of a byte: 256
          MaxBytes,  \* bound on the payload
          MaxChunk   \* the largest buffer passed to poll_write and poll_read

ASSUME PaddingAssumption ==
    /\ PADDING_FRAMES \in Nat
    /\ Radix \in Nat \ {0, 1}
    /\ MaxBytes \in Nat
    /\ MaxChunk \in Nat \ {0}

\* The largest length the u16 of the header can hold.
MAX_PADDED_PAYLOAD == Radix * Radix - 1

VARIABLES write_frames_done, write_pending, write_pending_off,
          read_frames_done, read_hdr, read_data_rem, read_skip_rem, read_pending_skip

VARIABLES written,  \* payload bytes poll_write has accepted
          wire,     \* the inner stream
          fin,      \* the inner stream was shut down or broke
          broken,   \* it broke
          decoded,  \* payload bytes poll_read has returned
          eof       \* poll_read returned no byte

writeVars == <<write_frames_done, write_pending, write_pending_off, written>>
readVars  == <<read_frames_done, read_hdr, read_data_rem, read_skip_rem,
               read_pending_skip, decoded>>
vars      == <<writeVars, readVars, wire, fin, broken, eof>>

Header(v) == [val |-> v, byte |-> 0]
Payload(i) == [val |-> i % Radix, byte |-> i]
Pad == [val |-> 0, byte |-> 0]

Init ==
    /\ write_frames_done = 0
    /\ write_pending = <<>>
    /\ write_pending_off = 0
    /\ written = 0
    /\ read_frames_done = 0
    /\ read_hdr = <<>>
    /\ read_data_rem = 0
    /\ read_skip_rem = 0
    /\ read_pending_skip = 0
    /\ decoded = <<>>
    /\ wire = <<>>
    /\ fin = FALSE
    /\ broken = FALSE
    /\ eof = FALSE

Least(a, b) == IF a < b THEN a ELSE b

\* The next n payload bytes the caller has.
Chunk(n) == [i \in 1..n |-> Payload(written + i)]

-----------------------------------------------------------------------------
(* poll_write, poll_flush, poll_shutdown                                    *)

\* Faulty variant: a partial write clears the rest of the frame.
DrainPendingDropsTail(n) ==
    /\ ~fin
    /\ n \in 1..(Len(write_pending) - write_pending_off)
    /\ wire' = wire \o SubSeq(write_pending, write_pending_off + 1, write_pending_off + n)
    /\ write_pending' = <<>>
    /\ write_pending_off' = 0
    /\ UNCHANGED <<write_frames_done, written, readVars, fin, broken, eof>>

\* The loop that precedes a write, a flush or a shutdown: an accepted part of
\* write_pending goes out, and the last part clears it.
DrainPending(n) ==
    /\ ~fin
    /\ n \in 1..(Len(write_pending) - write_pending_off)
    /\ wire' = wire \o SubSeq(write_pending, write_pending_off + 1, write_pending_off + n)
    /\ IF write_pending_off + n = Len(write_pending)
       THEN write_pending' = <<>> /\ write_pending_off' = 0
       ELSE write_pending_off' = write_pending_off + n /\ UNCHANGED write_pending
    /\ UNCHANGED <<write_frames_done, written, readVars, fin, broken, eof>>

\* [u16 data_len BE][u8 pad_size][data][padding]
Frame(data_len, pad_size) ==
    <<Header(data_len \div Radix), Header(data_len % Radix), Header(pad_size)>>
        \o Chunk(data_len) \o [i \in 1..pad_size |-> Pad]

\* The frame is built and written at once as far as the inner stream takes it
\* (n = 0: Pending, or zero bytes); the caller is told data_len.  An empty
\* buffer makes a frame without data.
WriteFrame(len, pad_size, n) ==
    LET data_len == Least(len, MAX_PADDED_PAYLOAD)
        frame == Frame(data_len, pad_size)
    IN /\ ~fin
       /\ write_pending = <<>>
       /\ write_frames_done < PADDING_FRAMES
       /\ written + data_len <= MaxBytes
       /\ n \in 0..Len(frame)
       /\ wire' = wire \o SubSeq(frame, 1, n)
       /\ IF n = Len(frame)
          THEN UNCHANGED <<write_pending, write_pending_off>>
          ELSE write_pending' = frame /\ write_pending_off' = n
       /\ write_frames_done' = write_frames_done + 1
       /\ written' = written + data_len
       /\ UNCHANGED <<readVars, fin, broken, eof>>

WriteRaw(n) ==
    /\ ~fin
    /\ write_pending = <<>>
    /\ write_frames_done = PADDING_FRAMES
    /\ written + n <= MaxBytes
    /\ wire' = wire \o Chunk(n)
    /\ written' = written + n
    /\ UNCHANGED <<write_frames_done, write_pending, write_pending_off, readVars, fin, broken, eof>>

\* Faulty variant: does not wait for write_pending.
ShutdownUndrained ==
    /\ ~fin
    /\ fin' = TRUE
    /\ UNCHANGED <<writeVars, readVars, wire, broken, eof>>

Shutdown ==
    /\ ~fin
    /\ write_pending = <<>>
    /\ fin' = TRUE
    /\ UNCHANGED <<writeVars, readVars, wire, broken, eof>>

\* The inner stream fails a write, or is dropped by its owner.
Break ==
    /\ ~fin
    /\ fin' = TRUE
    /\ broken' = TRUE
    /\ UNCHANGED <<writeVars, readVars, wire, eof>>

-----------------------------------------------------------------------------
(* poll_read: the phases in the order the loop tries them.                  *)

\* The inner poll_read returns n bytes into a buffer with room for limit.
Inner(n, limit) ==
    /\ ~eof
    /\ n \in 1..Least(limit, Len(wire))
    /\ wire' = SubSeq(wire, n + 1, Len(wire))

Bytes(n) == [i \in 1..n |-> wire[i].byte]

\* Phase 1, limited to the frame; its last byte starts the skipping.
ReadData(n) ==
    /\ read_data_rem > 0
    /\ Inner(n, Least(MaxChunk, read_data_rem))
    /\ decoded' = decoded \o Bytes(n)
    /\ read_data_rem' = read_data_rem - n
    /\ IF n = read_data_rem
       THEN read_skip_rem' = read_pending_skip /\ read_pending_skip' = 0
       ELSE UNCHANGED <<read_skip_rem, read_pending_skip>>
    /\ UNCHANGED <<writeVars, read_frames_done, read_hdr, fin, broken, eof>>

\* Phase 2: the scratch buffer is as large as any padding.
ReadSkip(n) ==
    /\ read_data_rem = 0
    /\ read_skip_rem > 0
    /\ Inner(n, read_skip_rem)
    /\ read_skip_rem' = read_skip_rem - n
    /\ UNCHANGED <<writeVars, read_frames_done, read_hdr, read_data_rem, read_pending_skip,
                   decoded, fin, broken, eof>>

\* Phase 3.
ReadRaw(n) ==
    /\ read_data_rem = 0 /\ read_skip_rem = 0
    /\ read_frames_done = PADDING_FRAMES
    /\ Inner(n, MaxChunk)
    /\ decoded' = decoded \o Bytes(n)
    /\ UNCHANGED <<writeVars, read_frames_done, read_hdr, read_data_rem, read_skip_rem,
                   read_pending_skip, fin, broken, eof>>

\* Faulty variant: the length is read little-endian.
ReadHeaderLittleEndian(n) ==
    LET hdr == read_hdr \o [i \in 1..n |-> wire[i].val]
        data_size == hdr[2] * Radix + hdr[1]
    IN /\ read_data_rem = 0 /\ read_skip_rem = 0
       /\ read_frames_done < PADDING_FRAMES
       /\ Inner(n, 3 - Len(read_hdr))
       /\ IF Len(hdr) < 3
          THEN /\ read_hdr' = hdr
               /\ UNCHANGED <<read_frames_done, read_data_rem, read_skip_rem, read_pending_skip>>
          ELSE /\ read_hdr' = <<>>
               /\ read_frames_done' = read_frames_done + 1
               /\ read_data_rem' = data_size
               /\ read_skip_rem' = IF data_size = 0 THEN hdr[3] ELSE 0
               /\ read_pending_skip' = IF data_size = 0 THEN 0 ELSE hdr[3]
       /\ UNCHANGED <<writeVars, decoded, fin, broken, eof>>

\* Phase 4: the third byte completes the header, which is parsed at once; a
\* frame without data goes straight to skipping its padding.
ReadHeader(n) ==
    LET hdr == read_hdr \o [i \in 1..n |-> wire[i].val]
        data_size == hdr[1] * Radix + hdr[2]
    IN /\ read_data_rem = 0 /\ read_skip_rem = 0
       /\ read_frames_done < PADDING_FRAMES
       /\ Inner(n, 3 - Len(read_hdr))
       /\ IF Len(hdr) < 3
          THEN /\ read_hdr' = hdr
               /\ UNCHANGED <<read_frames_done, read_data_rem, read_skip_rem, read_pending_skip>>
          ELSE /\ read_hdr' = <<>>
               /\ read_frames_done' = read_frames_done + 1
               /\ read_data_rem' = data_size
               /\ read_skip_rem' = IF data_size = 0 THEN hdr[3] ELSE 0
               /\ read_pending_skip' = IF data_size = 0 THEN 0 ELSE hdr[3]
       /\ UNCHANGED <<writeVars, decoded, fin, broken, eof>>

\* The inner stream ends, in whatever phase: an ordinary end of file.
ReadEof ==
    /\ fin
    /\ wire = <<>>
    /\ eof' = TRUE
    /\ UNCHANGED <<writeVars, readVars, wire, fin, broken>>

-----------------------------------------------------------------------------
Write ==
    \/ \E n \in 1..(3 + MAX_PADDED_PAYLOAD + Radix) : DrainPending(n)
    \/ \E len \in 0..MaxChunk, pad_size \in 0..(Radix - 1), n \in 0..(3 + MaxChunk + Radix) :
          WriteFrame(len, pad_size, n)
    \/ \E n \in 1..MaxChunk : WriteRaw(n)
    \/ Shutdown \/ Break

Read ==
    \/ \E n \in 1..MaxChunk : ReadData(n) \/ ReadRaw(n)
    \/ \E n \in 1..Radix : ReadSkip(n)
    \/ \E n \in 1..3 : ReadHeader(n)
    \/ ReadEof

Next == Write \/ Read

Spec == Init /\ [][Next]_vars

\* The reader is polled while there is something to read, and the writer's
\* owner keeps flushing what it accepted.
Fairness ==
    /\ WF_vars(Read)
    /\ WF_vars(\E n \in 1..(3 + MAX_PADDED_PAYLOAD + Radix) : DrainPending(n))

FairSpec == Spec /\ Fairness

-----------------------------------------------------------------------------
Stream == INSTANCE ByteStream WITH
    sent <- written, received <- decoded, closed <- fin

\* Framing is invisible: whatever the sizes of the writes and reads, and
\* wherever the inner stream cuts a frame, the two halves together are a byte
\* stream; without a break the end is reported after the last payload byte.
ByteStreamSpec == Stream!Spec

\* Both halves leave the padding at the same byte of the wire: the reader
\* passes through only what was written raw, and never takes padding or a
\* header for payload.
InStep ==
    /\ read_frames_done <= write_frames_done
    /\ \A i \in 1..Len(decoded) : decoded[i] = i
    /\ read_data_rem <= written - Len(decoded)

\* Every accepted payload byte comes out at the other end, unless the inner
\* stream breaks: none waits in write_pending or in a half-read header.
AllDecoded ==
    \A k \in 1..MaxBytes : written >= k ~> (Len(decoded) >= k \/ broken)
=============================================================================
