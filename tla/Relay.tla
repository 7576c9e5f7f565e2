-------------------------------- MODULE Relay --------------------------------
(***************************************************************************)
(* copy_bidirectional_with_stats (src/core/relay.rs): two                  *)
(* DirectionalBuffers polled one after the other by one future, an idle    *)
(* timer, and the byte counts recorded when the future ends.               *)
(*                                                                         *)
(* A step is one call of the reader, the writer or the timer, each of      *)
(* which may answer anything its contract allows.  Time passes only while  *)
(* the future is parked between two polls.  A byte is the position it has  *)
(* in what its reader delivers.                                            *)
(***************************************************************************)
EXTENDS Integers, Sequences

CONSTANTS BufSize,      \* buffer_size: length of buf
          MaxBytes,     \* bound on what each reader delivers
          IdleWindow,   \* conn_idle_timeout, in ticks
          TicksPerSec,  \* ticks in a second
          SuppressUp    \* suppress_a_to_b_shutdown

ASSUME RelayAssumption ==
    /\ BufSize \in Nat \ {0}
    /\ MaxBytes \in Nat
    /\ IdleWindow \in Nat
    /\ TicksPerSec \in Nat \ {0}
    /\ SuppressUp \in BOOLEAN

\* idle_timeout_secs keeps the whole seconds of the configured window.
IdleTimeout == TicksPerSec * (IdleWindow \div TicksPerSec)

\* a_to_b carries the client's bytes to the origin, b_to_a the origin's back.
Dirs == {"a_to_b", "b_to_a"}

VARIABLES buf,            \* direction -> buf[..cap]
          pos,            \* direction -> bytes of buf already written
          amt,            \* direction -> bytes_transferred
          read_done,      \* direction -> the reader is not polled any more
          shutdown_done,  \* direction -> is_done
          turn,           \* "parked", the direction in poll_copy, "check", "ended"
          drained,        \* poll_copy is past the write loop and the flush
          before,         \* bytes_transferred of both when the poll began
          quiet,          \* ticks since idle_sleep was armed
          termination,    \* RelayTermination, "none" while running
          recorded        \* direction -> bytes given to the StatsCollector

\* The world, and history.
VARIABLES src,        \* direction -> bytes the reader has delivered
          readEnd,    \* direction -> how the reader ended: "open", "eof", "error"
          delivered,  \* direction -> bytes the writer has accepted
          fin,        \* direction -> the writer was shut down
          sinceByte   \* ticks since a writer last accepted a byte

copyVars  == <<buf, pos, amt, read_done, shutdown_done>>
worldVars == <<src, readEnd, delivered, fin>>
timeVars  == <<quiet, sinceByte>>
endVars   == <<termination, recorded>>
vars      == <<copyVars, worldVars, timeVars, endVars, turn, drained, before>>

RelayTypeOK ==
    /\ buf \in [Dirs -> Seq(Nat)] /\ delivered \in [Dirs -> Seq(Nat)]
    /\ pos \in [Dirs -> Nat] /\ src \in [Dirs -> Nat]
    /\ amt \in [Dirs -> Nat] /\ before \in [Dirs -> Nat] /\ recorded \in [Dirs -> Nat]
    /\ read_done \in [Dirs -> BOOLEAN] /\ shutdown_done \in [Dirs -> BOOLEAN]
    /\ fin \in [Dirs -> BOOLEAN]
    /\ readEnd \in [Dirs -> {"open", "eof", "error"}]
    /\ turn \in Dirs \cup {"parked", "check", "ended"}
    /\ drained \in BOOLEAN
    /\ quiet \in 0..IdleTimeout /\ sinceByte \in 0..IdleWindow
    /\ termination \in {"none", "Completed", "IdleTimeout", "Error"}

Init ==
    /\ buf = [d \in Dirs |-> <<>>]
    /\ pos = [d \in Dirs |-> 0]
    /\ amt = [d \in Dirs |-> 0]
    /\ read_done = [d \in Dirs |-> FALSE]
    /\ shutdown_done = [d \in Dirs |-> FALSE]
    /\ turn = "parked"
    /\ drained = FALSE
    /\ before = amt
    /\ quiet = 0
    /\ termination = "none"
    /\ recorded = [d \in Dirs |-> 0]
    /\ src = [d \in Dirs |-> 0]
    /\ readEnd = [d \in Dirs |-> "open"]
    /\ delivered = [d \in Dirs |-> <<>>]
    /\ fin = [d \in Dirs |-> FALSE]
    /\ sinceByte = 0

\* The next n bytes of the reader of d.
Fresh(d, n) == [i \in 1..n |-> src[d] + i]

Unwritten(d) == SubSeq(buf[d], pos[d] + 1, Len(buf[d]))

\* poll_copy of d returned without an error; a finished direction is skipped.
LeaveCopy(d) ==
    /\ turn' = IF d = "a_to_b" /\ ~shutdown_done["b_to_a"] THEN "b_to_a" ELSE "check"
    /\ drained' = FALSE

\* Faulty variant: an error returns before the counts are recorded.
EndOnErrorUnrecorded(why) ==
    /\ termination' = why
    /\ recorded' = IF why = "Error" THEN recorded ELSE amt
    /\ turn' = "ended"

\* The future is over; the counts so far go to the collector.
End(why) ==
    /\ termination' = why
    /\ recorded' = amt
    /\ turn' = "ended"

-----------------------------------------------------------------------------
(* DirectionalBuffer::poll_copy, one reader or writer call at a time.       *)

WriteAccepts(d, n) ==
    /\ turn = d /\ ~drained
    /\ n \in 1..(Len(buf[d]) - pos[d])
    /\ delivered' = [delivered EXCEPT ![d] = @ \o SubSeq(buf[d], pos[d] + 1, pos[d] + n)]
    /\ pos' = [pos EXCEPT ![d] = @ + n]
    /\ amt' = [amt EXCEPT ![d] = @ + n]
    /\ sinceByte' = 0
    /\ UNCHANGED <<buf, read_done, shutdown_done, src, readEnd, fin, quiet,
                   endVars, turn, drained, before>>

\* The writer errs or accepts zero bytes.
WriteFails(d) ==
    /\ turn = d /\ ~drained
    /\ pos[d] < Len(buf[d])
    /\ End("Error")
    /\ UNCHANGED <<copyVars, worldVars, timeVars, drained, before>>

\* Faulty variant: the bytes read ahead are put over the written part.
WritePendingOverwrites(d) ==
    /\ turn = d /\ ~drained
    /\ pos[d] < Len(buf[d])
    /\ \/ UNCHANGED <<buf, pos, read_done, src, readEnd>>
       \/ /\ ~read_done[d] /\ Len(buf[d]) < BufSize
          /\ \/ \E n \in 1..(BufSize - Len(buf[d])) :
                   /\ src[d] + n <= MaxBytes
                   /\ buf' = [buf EXCEPT ![d] = Fresh(d, n)]
                   /\ pos' = [pos EXCEPT ![d] = 0]
                   /\ src' = [src EXCEPT ![d] = @ + n]
                   /\ UNCHANGED <<read_done, readEnd>>
             \/ \E why \in {"eof", "error"} :
                   /\ read_done' = [read_done EXCEPT ![d] = TRUE]
                   /\ readEnd' = [readEnd EXCEPT ![d] = why]
                   /\ UNCHANGED <<buf, pos, src>>
    /\ LeaveCopy(d)
    /\ UNCHANGED <<amt, shutdown_done, delivered, fin, timeVars, endVars, before>>

\* The writer is not ready: with room behind cap the reader is polled once more;
\* its end of file and its errors both just set read_done.
WritePending(d) ==
    /\ turn = d /\ ~drained
    /\ pos[d] < Len(buf[d])
    /\ \/ UNCHANGED <<buf, read_done, src, readEnd>>
       \/ /\ ~read_done[d] /\ Len(buf[d]) < BufSize
          /\ \/ \E n \in 1..(BufSize - Len(buf[d])) :
                   /\ src[d] + n <= MaxBytes
                   /\ buf' = [buf EXCEPT ![d] = @ \o Fresh(d, n)]
                   /\ src' = [src EXCEPT ![d] = @ + n]
                   /\ UNCHANGED <<read_done, readEnd>>
             \/ \E why \in {"eof", "error"} :
                   /\ read_done' = [read_done EXCEPT ![d] = TRUE]
                   /\ readEnd' = [readEnd EXCEPT ![d] = why]
                   /\ UNCHANGED <<buf, src>>
    /\ LeaveCopy(d)
    /\ UNCHANGED <<pos, amt, shutdown_done, delivered, fin, timeVars, endVars, before>>

\* Everything is written: poll_flush, whose Pending is ignored.
Flush(d) ==
    /\ turn = d /\ ~drained
    /\ pos[d] = Len(buf[d])
    /\ \/ drained' = TRUE /\ UNCHANGED <<endVars, turn>>
       \/ End("Error") /\ UNCHANGED drained
    /\ UNCHANGED <<copyVars, worldVars, timeVars, before>>

\* The reader is done: poll_shutdown on the writer, its result ignored.
Shutdown(d) ==
    /\ turn = d /\ drained
    /\ read_done[d]
    /\ \/ /\ shutdown_done' = [shutdown_done EXCEPT ![d] = TRUE]
          /\ \/ ~(SuppressUp /\ d = "a_to_b") /\ fin' = [fin EXCEPT ![d] = TRUE]
             \/ UNCHANGED fin
       \/ /\ ~(SuppressUp /\ d = "a_to_b")
          /\ UNCHANGED <<shutdown_done, fin>>
    /\ LeaveCopy(d)
    /\ UNCHANGED <<buf, pos, amt, read_done, src, readEnd, delivered, timeVars, endVars, before>>

\* The buffer is refilled from its start.
ReadFills(d, n) ==
    /\ turn = d /\ drained
    /\ ~read_done[d]
    /\ src[d] + n <= MaxBytes
    /\ buf' = [buf EXCEPT ![d] = Fresh(d, n)]
    /\ pos' = [pos EXCEPT ![d] = 0]
    /\ src' = [src EXCEPT ![d] = @ + n]
    /\ drained' = FALSE
    /\ UNCHANGED <<amt, read_done, shutdown_done, readEnd, delivered, fin, timeVars,
                   endVars, turn, before>>

ReadEof(d) ==
    /\ turn = d /\ drained
    /\ ~read_done[d]
    /\ read_done' = [read_done EXCEPT ![d] = TRUE]
    /\ readEnd' = [readEnd EXCEPT ![d] = "eof"]
    /\ drained' = FALSE
    /\ UNCHANGED <<buf, pos, amt, shutdown_done, src, delivered, fin, timeVars, endVars,
                   turn, before>>

ReadPending(d) ==
    /\ turn = d /\ drained
    /\ ~read_done[d]
    /\ LeaveCopy(d)
    /\ UNCHANGED <<copyVars, worldVars, timeVars, endVars, before>>

ReadFails(d) ==
    /\ turn = d /\ drained
    /\ ~read_done[d]
    /\ readEnd' = [readEnd EXCEPT ![d] = "error"]
    /\ End("Error")
    /\ UNCHANGED <<copyVars, src, delivered, fin, timeVars, drained, before>>

-----------------------------------------------------------------------------
(* The poll_fn around the two copies.                                       *)

\* A wake-up by a reader, a writer or the timer.
PollBegin ==
    /\ turn = "parked"
    /\ before' = amt
    /\ turn' = IF ~shutdown_done["a_to_b"] THEN "a_to_b" ELSE "b_to_a"
    /\ UNCHANGED <<copyVars, worldVars, timeVars, endVars, drained>>

Progress == \E d \in Dirs : amt[d] > before[d]

\* Faulty variant: only upload bytes re-arm the timer.
PollCheckUpOnly ==
    LET now == IF amt["a_to_b"] > before["a_to_b"] THEN 0 ELSE quiet
    IN /\ turn = "check"
       /\ quiet' = now
       /\ IF \A d \in Dirs : shutdown_done[d] THEN End("Completed")
          ELSE IF now >= IdleTimeout THEN End("IdleTimeout")
          ELSE turn' = "parked" /\ UNCHANGED endVars
       /\ UNCHANGED <<copyVars, worldVars, sinceByte, drained, before>>

\* Faulty variant: every poll re-arms the timer.
PollCheckAlwaysResets ==
    /\ turn = "check"
    /\ quiet' = 0
    /\ IF \A d \in Dirs : shutdown_done[d] THEN End("Completed")
       ELSE turn' = "parked" /\ UNCHANGED endVars
    /\ UNCHANGED <<copyVars, worldVars, sinceByte, drained, before>>

\* Bytes in either direction re-arm the timer; both directions done wins over
\* an expired timer.
PollCheck ==
    LET now == IF Progress THEN 0 ELSE quiet
    IN /\ turn = "check"
       /\ quiet' = now
       /\ IF \A d \in Dirs : shutdown_done[d] THEN End("Completed")
          ELSE IF now >= IdleTimeout THEN End("IdleTimeout")
          ELSE turn' = "parked" /\ UNCHANGED endVars
       /\ UNCHANGED <<copyVars, worldVars, sinceByte, drained, before>>

Tick ==
    /\ turn = "parked"
    /\ quiet < IdleTimeout
    /\ quiet' = quiet + 1
    /\ sinceByte' = IF sinceByte < IdleWindow THEN sinceByte + 1 ELSE IdleWindow
    /\ UNCHANGED <<copyVars, worldVars, endVars, turn, drained, before>>

Copy(d) ==
    \/ \E n \in 1..BufSize : WriteAccepts(d, n) \/ ReadFills(d, n)
    \/ WriteFails(d) \/ WritePending(d)
    \/ Flush(d) \/ Shutdown(d)
    \/ ReadEof(d) \/ ReadPending(d) \/ ReadFails(d)

Next == (\E d \in Dirs : Copy(d)) \/ PollBegin \/ PollCheck \/ Tick

Spec == Init /\ [][Next]_vars

\* The runtime finishes a poll it began, polls again after a wake-up (the timer
\* wakes the task when it expires), and time passes however often the task is
\* polled.  Readers and writers may
\* stay pending for ever.
Fairness ==
    /\ WF_vars((\E d \in Dirs : Copy(d)) \/ PollCheck)
    /\ WF_vars(PollBegin /\ quiet >= IdleTimeout)
    /\ SF_vars(Tick)

FairSpec == Spec /\ Fairness

-----------------------------------------------------------------------------
\* What a writer accepted, followed by what is still in buf, is exactly what the
\* reader delivered, in order: no byte is lost, repeated or reordered by the
\* refill from the start, the append behind cap and the partial writes.  A
\* half-close reaches the other side only after all of it, also when end of file
\* was read ahead of a pending write (relay.rs poll_copy).
StreamIntact ==
    \A d \in Dirs :
        /\ delivered[d] \o Unwritten(d) = [i \in 1..src[d] |-> i]
        /\ fin[d] \/ shutdown_done[d] => readEnd[d] # "open" /\ Len(delivered[d]) = src[d]

\* However the relay ends (completed, timed out, failed in either direction),
\* the collector got what the writers accepted, and not before the end.
StatsExact ==
    \A d \in Dirs : recorded[d] = IF termination = "none" THEN 0 ELSE Len(delivered[d])

\* The idle timer fires only when no direction moved a byte for the whole
\* timeout: a long one-sided transfer is never cut, and neither is one whose other
\* direction was half-closed, since uplink_only_secs and downlink_only_secs arm
\* nothing (relay.rs:201-207, 238-257).
IdleMeansSilent ==
    termination = "IdleTimeout" => sinceByte >= IdleTimeout

\* The window the operator configured: the idle timeout "fires only when BOTH relay
\* directions have gone silent for the full window" (config.rs:136-137).  The code
\* rounds the window down to whole seconds first (config.rs:405-407).
SilentForFullWindow ==
    termination = "IdleTimeout" => sinceByte >= IdleWindow

\* Readers deliver finitely many bytes here, so from some point on both sides
\* are silent: the relay then ends by itself, whatever is left pending.
SilentRelayEnds == <>(turn = "ended")
=============================================================================
