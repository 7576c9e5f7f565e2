----------------------------- MODULE StreamProofs ----------------------------
(***************************************************************************)
(* Proofs about the byte streams of a tunnel: the relay, which copies      *)
(* between two of them, and the HTTP/3 adapters, which make one each way   *)
(* out of channels of frames.                                              *)
(***************************************************************************)
EXTENDS Relay, H3Stream, SequenceTheorems, TLAPS

\* q is the stream from its first byte on, and b continues it behind position p.
InOrder(q, b, p) ==
    /\ p <= Len(b)
    /\ \A i \in 1..Len(q) : q[i] = i
    /\ \A i \in 1..Len(b) : i > p => b[i] = Len(q) + (i - p)

Stream(n) == [i \in 1..n |-> i]

\* One direction: the writer has the first bytes, buf[pos..] holds the next ones
\* up to the last one read, and a direction that is shut down has nothing left.
CopyOK(d) ==
    /\ InOrder(delivered[d], buf[d], pos[d])
    /\ amt[d] = Len(delivered[d])
    /\ src[d] = Len(delivered[d]) + (Len(buf[d]) - pos[d])
    /\ shutdown_done[d] \/ fin[d] => read_done[d] /\ pos[d] = Len(buf[d])
    /\ read_done[d] => readEnd[d] # "open"
    /\ turn = d /\ drained => pos[d] = Len(buf[d])

\* The timer is never ahead of the silence, except in a poll that moved a byte and
\* has not re-armed it yet.
TimeInv ==
    /\ \A d \in Dirs : before[d] <= amt[d]
    /\ turn # "ended" => quiet <= sinceByte \/ (turn # "parked" /\ Progress)
    /\ IdleMeansSilent

\* The counts are handed over once, when the future is over; a poll starts each
\* direction with its write loop.
EndInv ==
    /\ turn \in {"parked", "check"} => ~drained
    /\ termination = "none" <=> turn # "ended"
    /\ \A d \in Dirs : recorded[d] = IF turn = "ended" THEN amt[d] ELSE 0

RelayInv == RelayTypeOK /\ (\A d \in Dirs : CopyOK(d)) /\ TimeInv /\ EndInv

\* Rounding the idle window down to whole seconds never lengthens it.
LEMMA WholeSeconds == IdleTimeout \in Nat /\ IdleWindow \in Nat /\ IdleTimeout <= IdleWindow
<1> DEFINE q == IdleWindow \div TicksPerSec
<1>1. q \in Nat /\ TicksPerSec * q <= IdleWindow /\ TicksPerSec * q \in Nat
  BY RelayAssumption
<1> QED
  BY <1>1, RelayAssumption, Zenon DEF IdleTimeout

\* The bytes a read brings are the next ones of the source.
LEMMA FreshBytes ==
    ASSUME RelayTypeOK, NEW d \in Dirs, NEW n \in Nat
    PROVE  /\ Fresh(d, n) \in Seq(Nat)
           /\ Len(Fresh(d, n)) = n
           /\ \A i \in 1..n : Fresh(d, n)[i] = src[d] + i
<1>1. src[d] \in Nat
  BY Zenon DEF RelayTypeOK
<1>2. \A i \in 1..n : src[d] + i \in Nat
  BY <1>1
<1>3. Fresh(d, n) \in [1..n -> Nat]
  BY <1>2, Zenon DEF Fresh
<1>4. Fresh(d, n) \in Seq(Nat) /\ Len(Fresh(d, n)) = n
  BY <1>3
<1> QED
  BY <1>4, Zenon DEF Fresh

\* A relay that has just begun has moved nothing.
LEMMA InitOK == Init => RelayInv
<1> SUFFICES ASSUME Init PROVE RelayInv
  BY Zenon
<1>1. RelayTypeOK
  <2>1. <<>> \in Seq(Nat)
    OBVIOUS
  <2>2. 0 \in 0..IdleTimeout /\ 0 \in 0..IdleWindow /\ 0 \in Nat
    BY WholeSeconds
  <2> QED
    BY <2>1, <2>2, Zenon DEF Init, RelayTypeOK
<1>2. \A d \in Dirs : CopyOK(d)
  BY DEF Init, CopyOK, InOrder
<1>3. TimeInv /\ EndInv
  BY DEF Init, TimeInv, EndInv, IdleMeansSilent, Progress
<1> QED
  BY <1>1, <1>2, <1>3, Zenon DEF RelayInv

\* Bytes that go from the buffer to the end of what was written.
LEMMA Handover ==
    ASSUME NEW q \in Seq(Nat), NEW b \in Seq(Nat), NEW p \in Nat, NEW n \in Nat,
           InOrder(q, b, p), p + n <= Len(b)
    PROVE  /\ q \o SubSeq(b, p + 1, p + n) \in Seq(Nat)
           /\ Len(q \o SubSeq(b, p + 1, p + n)) = Len(q) + n
           /\ InOrder(q \o SubSeq(b, p + 1, p + n), b, p + n)
<1>0. Len(b) \in Nat /\ Len(q) \in Nat
  OBVIOUS
<1>1. PICK s \in Seq(Nat) : s = SubSeq(b, p + 1, p + n) /\ Len(s) = n
  <2>1. SubSeq(b, p + 1, p + n) \in Seq(Nat) /\ Len(SubSeq(b, p + 1, p + n)) = n
    BY <1>0
  <2> QED
    BY <2>1, Zenon
<1>2. \A i \in 1..n : s[i] = b[p + i]
  BY <1>0, <1>1
<1> DEFINE r == q \o s
<1>3. r \in Seq(Nat) /\ Len(r) = Len(q) + n
  <2>1. q \o s \in Seq(Nat) /\ Len(q \o s) = Len(q) + Len(s)
    OBVIOUS
  <2> QED
    BY <2>1, <1>1, Zenon
<1>4. \A i \in 1..Len(r) : r[i] = IF i <= Len(q) THEN q[i] ELSE s[i - Len(q)]
  BY <1>0, <1>1
<1> USE DEF InOrder
<1>5. ASSUME NEW i \in 1..Len(r) PROVE r[i] = i
  <2>1. CASE i <= Len(q)
    <3>1. i \in 1..Len(q)
      BY <2>1, <1>0, <1>3
    <3> QED
      BY <2>1, <3>1, <1>4, Zenon
  <2>2. CASE i > Len(q)
    <3> DEFINE k == i - Len(q)
    <3>1. k \in 1..n /\ i = Len(q) + k /\ ~(i <= Len(q))
      BY <2>2, <1>0, <1>3
    <3>2. p + k \in 1..Len(b) /\ p + k > p /\ (p + k) - p = k
      BY <3>1, <1>0, SMTT(20)
    <3>3. r[i] = s[k] /\ s[k] = b[p + k]
      BY <3>1, <1>2, <1>4, Zenon
    <3>4. b[p + k] = Len(q) + ((p + k) - p)
      BY <3>2, Zenon
    <3> QED
      BY <3>1, <3>2, <3>3, <3>4, Zenon
  <2> QED
    BY <2>1, <2>2, <1>0, <1>3, SMTT(20)
<1>6. ASSUME NEW i \in 1..Len(b), i > p + n PROVE b[i] = Len(r) + (i - (p + n))
  <2>1. i > p /\ Len(q) + (i - p) = (Len(q) + n) + (i - (p + n))
    BY <1>6, <1>0
  <2>2. b[i] = Len(q) + (i - p)
    BY <2>1, Zenon
  <2> QED
    BY <2>1, <2>2, <1>3, Zenon
<1> QED
  BY <1>0, <1>1, <1>3, <1>5, <1>6, Zenon

\* Bytes read ahead, appended to the buffer.
LEMMA Appended ==
    ASSUME NEW q \in Seq(Nat), NEW b \in Seq(Nat), NEW p \in Nat, NEW f \in Seq(Nat),
           InOrder(q, b, p),
           \A i \in 1..Len(f) : f[i] = (Len(q) + (Len(b) - p)) + i
    PROVE  b \o f \in Seq(Nat) /\ Len(b \o f) = Len(b) + Len(f) /\ InOrder(q, b \o f, p)
<1> DEFINE r == b \o f
<1> USE DEF InOrder
<1>0. Len(b) \in Nat /\ Len(f) \in Nat /\ Len(q) \in Nat
  OBVIOUS
<1>1. r \in Seq(Nat) /\ Len(r) = Len(b) + Len(f)
  OBVIOUS
<1>2. \A i \in 1..Len(r) : r[i] = IF i <= Len(b) THEN b[i] ELSE f[i - Len(b)]
  OBVIOUS
<1>3. ASSUME NEW i \in 1..Len(r), i > p PROVE r[i] = Len(q) + (i - p)
  <2>1. CASE i <= Len(b)
    <3>1. i \in 1..Len(b)
      BY <2>1, <1>0, <1>1
    <3> QED
      BY <2>1, <3>1, <1>2, <1>3, Zenon
  <2>2. CASE i > Len(b)
    <3> DEFINE k == i - Len(b)
    <3>1. k \in 1..Len(f) /\ ~(i <= Len(b)) /\ (Len(q) + (Len(b) - p)) + k = Len(q) + (i - p)
      BY <2>2, <1>0, <1>1
    <3>2. r[i] = f[k]
      BY <3>1, <1>2, Zenon
    <3> QED
      BY <3>1, <3>2, Zenon
  <2> QED
    BY <2>1, <2>2, <1>0, <1>1
<1> QED
  BY <1>0, <1>1, <1>3

\* The buffer refilled from its start, once all of it was written.
LEMMA Refilled ==
    ASSUME NEW q \in Seq(Nat), NEW b \in Seq(Nat), InOrder(q, b, Len(b)), NEW f \in Seq(Nat),
           \A i \in 1..Len(f) : f[i] = Len(q) + i
    PROVE  InOrder(q, f, 0)
  BY DEF InOrder

\* What is written and what is left make the stream.
LEMMA Whole ==
    ASSUME NEW q \in Seq(Nat), NEW b \in Seq(Nat), NEW p \in Nat, InOrder(q, b, p)
    PROVE  q \o SubSeq(b, p + 1, Len(b)) = Stream(Len(q) + (Len(b) - p))
<1> DEFINE n == Len(b) - p
           r == q \o SubSeq(b, p + 1, p + n)
<1>1. n \in Nat /\ p + n = Len(b)
  BY DEF InOrder
<1> HIDE DEF n
<1>2. r \in Seq(Nat) /\ Len(r) = Len(q) + n /\ InOrder(r, b, p + n)
  BY <1>1, Handover, SMTT(20)
<1>3. r = [i \in 1..Len(r) |-> r[i]] /\ \A i \in 1..Len(r) : r[i] = i
  BY <1>2, LenProperties, Zenon DEF InOrder
<1>4. r = [i \in 1..(Len(q) + n) |-> i]
  BY <1>2, <1>3, Zenon
<1> QED
  BY <1>1, <1>4, Zenon DEF n, Stream

-----------------------------------------------------------------------------
(* The steps.                                                               *)

\* The types of one direction's copy buffer, as the step lemmas use them.
LEMMA Typed ==
    ASSUME RelayInv, NEW d \in Dirs
    PROVE  /\ buf[d] \in Seq(Nat) /\ delivered[d] \in Seq(Nat)
           /\ pos[d] \in Nat /\ amt[d] \in Nat /\ src[d] \in Nat /\ before[d] \in Nat
           /\ Len(buf[d]) \in Nat /\ Len(delivered[d]) \in Nat
           /\ CopyOK(d) /\ d # "parked" /\ d # "ended" /\ d # "check"
<1>1. /\ buf[d] \in Seq(Nat) /\ delivered[d] \in Seq(Nat)
      /\ pos[d] \in Nat /\ amt[d] \in Nat /\ src[d] \in Nat /\ before[d] \in Nat /\ CopyOK(d)
  BY Zenon DEF RelayInv, RelayTypeOK
<1>2. Len(buf[d]) \in Nat /\ Len(delivered[d]) \in Nat
  BY <1>1, LenProperties, Zenon
<1>3. d # "parked" /\ d # "ended" /\ d # "check"
  BY DEF Dirs
<1> QED
  BY <1>1, <1>2, <1>3, Zenon

\* A writer takes n more bytes of buf: they move from the one to the other.
LEMMA AcceptsOK ==
    ASSUME RelayInv, NEW d \in Dirs, NEW n \in Nat, WriteAccepts(d, n)
    PROVE  RelayInv'
<1>0. /\ buf[d] \in Seq(Nat) /\ delivered[d] \in Seq(Nat)
      /\ pos[d] \in Nat /\ amt[d] \in Nat /\ src[d] \in Nat /\ before[d] \in Nat
      /\ Len(buf[d]) \in Nat /\ Len(delivered[d]) \in Nat
      /\ CopyOK(d) /\ InOrder(delivered[d], buf[d], pos[d])
  BY Typed, Zenon DEF CopyOK
<1>1. n > 0 /\ pos[d] + n <= Len(buf[d]) /\ turn = d /\ ~drained
  BY Typed DEF WriteAccepts
<1>a. delivered'[d] = delivered[d] \o SubSeq(buf[d], pos[d] + 1, pos[d] + n)
  BY Zenon DEF RelayInv, RelayTypeOK, WriteAccepts
<1>2. pos'[d] = pos[d] + n /\ amt'[d] = amt[d] + n
  BY Zenon DEF RelayInv, RelayTypeOK, WriteAccepts
<1>3. /\ delivered'[d] \in Seq(Nat) /\ Len(delivered'[d]) = Len(delivered[d]) + n
      /\ InOrder(delivered'[d], buf[d], pos'[d])
  <2> DEFINE q == delivered[d]
             b == buf[d]
             p == pos[d]
  <2>1. q \in Seq(Nat) /\ b \in Seq(Nat) /\ p \in Nat /\ InOrder(q, b, p) /\ p + n <= Len(b)
    BY <1>0, <1>1, Zenon
  <2>2. delivered'[d] = q \o SubSeq(b, p + 1, p + n) /\ pos'[d] = p + n
    BY <1>a, <1>2, Zenon
  <2> HIDE DEF q, b, p
  <2>3. /\ q \o SubSeq(b, p + 1, p + n) \in Seq(Nat)
        /\ Len(q \o SubSeq(b, p + 1, p + n)) = Len(q) + n
        /\ InOrder(q \o SubSeq(b, p + 1, p + n), b, p + n)
    BY <2>1, Handover, Zenon
  <2> QED
    BY <2>2, <2>3, Zenon DEF q, b
<1>4. RelayTypeOK'
  <2>1. delivered' \in [Dirs -> Seq(Nat)]
    <3>1. delivered' = [delivered EXCEPT ![d] = delivered'[d]] /\ delivered \in [Dirs -> Seq(Nat)]
      BY <1>a, Zenon DEF RelayInv, RelayTypeOK, WriteAccepts
    <3> QED
      BY <1>3, <3>1, Zenon
  <2>2. pos' \in [Dirs -> Nat] /\ amt' \in [Dirs -> Nat]
    <3>1. pos[d] + n \in Nat /\ amt[d] + n \in Nat
      BY <1>0, SMTT(20)
    <3> QED
      BY <3>1, Zenon DEF RelayInv, RelayTypeOK, WriteAccepts
  <2>3. sinceByte' \in 0..IdleWindow
    BY WholeSeconds DEF WriteAccepts
  <2> QED
    BY <2>1, <2>2, <2>3, Zenon DEF RelayInv, RelayTypeOK, WriteAccepts, endVars
<1>5. CopyOK(d)'
  <2>1. /\ src[d] = Len(delivered[d]) + (Len(buf[d]) - pos[d]) /\ amt[d] = Len(delivered[d])
        /\ shutdown_done[d] \/ fin[d] => read_done[d] /\ pos[d] = Len(buf[d])
        /\ read_done[d] => readEnd[d] # "open"
    BY <1>0, Zenon DEF CopyOK
  <2>2. src[d] = Len(delivered'[d]) + (Len(buf[d]) - pos'[d]) /\ amt'[d] = Len(delivered'[d])
    BY <2>1, <1>0, <1>2, <1>3, SMTT(20)
  <2>3. ~shutdown_done[d] /\ ~fin[d]
    BY <2>1, <1>0, <1>1, SMTT(20)
  <2>4. UNCHANGED <<buf, src, read_done, readEnd, shutdown_done, fin, turn, drained>>
    BY Zenon DEF WriteAccepts
  <2> QED
    BY <2>1, <2>2, <2>3, <2>4, <1>1, <1>3, Zenon DEF CopyOK
<1>6. ASSUME NEW e \in Dirs, e # d PROVE CopyOK(e)'
  <2>1. delivered'[e] = delivered[e] /\ pos'[e] = pos[e] /\ amt'[e] = amt[e]
    BY <1>6, Zenon DEF RelayInv, RelayTypeOK, WriteAccepts
  <2> QED
    BY <2>1, Typed, Zenon DEF CopyOK, WriteAccepts
<1>7. TimeInv'
  <2>1. before[d] < amt'[d] /\ Progress'
    <3>1. before[d] <= amt[d] /\ before' = before
      BY Zenon DEF RelayInv, TimeInv, WriteAccepts
    <3> QED
      BY <3>1, <1>0, <1>1, <1>2, SMTT(20) DEF Progress
  <2>2. \A e \in Dirs : before'[e] <= amt'[e]
    BY <2>1, Typed, SMTT(20) DEF RelayInv, RelayTypeOK, TimeInv, WriteAccepts
  <2>3. turn' # "parked" /\ turn' # "ended" /\ termination' # "IdleTimeout"
    BY <1>1, Typed, Zenon DEF RelayInv, EndInv, WriteAccepts, endVars
  <2> QED
    BY <2>1, <2>2, <2>3, Zenon DEF TimeInv, IdleMeansSilent
<1>8. EndInv'
  BY <1>1, Typed, Zenon DEF RelayInv, EndInv, WriteAccepts, endVars
<1> QED
  BY <1>4, <1>5, <1>6, <1>7, <1>8, Zenon DEF RelayInv

\* An error in a reader or a writer: nothing moves, the counts are handed over.
LEMMA FailsOK ==
    ASSUME RelayInv, turn # "ended", End("Error"),
           UNCHANGED <<copyVars, src, delivered, fin, timeVars, drained, before>>,
           readEnd' \in [Dirs -> {"open", "eof", "error"}],
           \A d \in Dirs : read_done[d] => readEnd'[d] # "open"
    PROVE  RelayInv'
<1>1. RelayTypeOK'
  BY Zenon DEF RelayInv, RelayTypeOK, End, copyVars, timeVars
<1>2. ASSUME NEW d \in Dirs PROVE CopyOK(d)'
  BY <1>2, Typed, Zenon DEF CopyOK, End, copyVars
<1>3. TimeInv'
  BY Zenon DEF RelayInv, TimeInv, IdleMeansSilent, End, copyVars, timeVars
<1>4. EndInv'
  BY Zenon DEF RelayInv, EndInv, End, copyVars
<1> QED
  BY <1>1, <1>2, <1>3, <1>4, Zenon DEF RelayInv

\* A step inside a poll that writes nothing leaves the timer and the end alone.
LEMMA WithinPoll ==
    ASSUME RelayInv, turn \in Dirs, turn' \in Dirs \cup {"check"},
           drained' => turn' \in Dirs, UNCHANGED <<amt, before, timeVars, endVars>>
    PROVE  TimeInv' /\ EndInv'
<1>1. /\ turn # "ended" /\ turn # "parked" /\ turn' # "ended" /\ turn' # "parked"
      /\ turn' = "check" => ~drained'
  BY Zenon DEF Dirs
<1>2. Progress' = Progress
  BY Zenon DEF Progress
<1> QED
  BY <1>1, <1>2, Zenon DEF RelayInv, TimeInv, EndInv, IdleMeansSilent, timeVars, endVars

\* Where a copy that has left its loop hands the turn.
LEMMA LeavesTo ==
    ASSUME NEW d \in Dirs, LeaveCopy(d)
    PROVE  turn' \in Dirs \cup {"check"} /\ turn' \in Dirs \cup {"parked", "check", "ended"}
           /\ drained' = FALSE
  BY Zenon DEF LeaveCopy, Dirs

\* Bytes that arrive in d while the writer has taken none: appended to buf, or put
\* into an empty one.
LEMMA ArrivesOK ==
    ASSUME RelayInv, NEW d \in Dirs, NEW n \in Nat, NEW b \in Seq(Nat), NEW p \in Nat,
           turn = d, turn' \in Dirs \cup {"check"}, drained' = FALSE, ~read_done[d],
           buf' = [buf EXCEPT ![d] = b], pos' = [pos EXCEPT ![d] = p],
           src' = [src EXCEPT ![d] = @ + n],
           InOrder(delivered[d], b, p), src[d] + n = Len(delivered[d]) + (Len(b) - p),
           UNCHANGED <<amt, read_done, shutdown_done, readEnd, delivered, fin, timeVars,
                       endVars, before>>
    PROVE  RelayInv'
<1>0. /\ buf[d] \in Seq(Nat) /\ delivered[d] \in Seq(Nat) /\ pos[d] \in Nat /\ src[d] \in Nat
      /\ Len(buf[d]) \in Nat /\ Len(delivered[d]) \in Nat /\ Len(b) \in Nat /\ CopyOK(d)
  BY Typed
<1>1. buf'[d] = b /\ pos'[d] = p /\ src'[d] = src[d] + n
  BY Zenon DEF RelayInv, RelayTypeOK
<1>2. RelayTypeOK'
  <2>1. buf' \in [Dirs -> Seq(Nat)] /\ pos' \in [Dirs -> Nat]
    BY Zenon DEF RelayInv, RelayTypeOK
  <2>2. src' \in [Dirs -> Nat]
    <3>1. src[d] + n \in Nat
      BY <1>0, SMTT(20)
    <3> QED
      BY <3>1, Zenon DEF RelayInv, RelayTypeOK
  <2>3. turn' \in Dirs \cup {"parked", "check", "ended"} /\ drained' \in BOOLEAN
    BY Zenon
  <2> QED
    BY <2>1, <2>2, <2>3, Zenon DEF RelayInv, RelayTypeOK, timeVars, endVars
<1>3. CopyOK(d)'
  <2>1. ~shutdown_done[d] /\ ~fin[d]
    BY <1>0, Zenon DEF CopyOK
  <2>2. src'[d] = Len(delivered[d]) + (Len(b) - p)
    BY <1>1, Zenon
  <2> QED
    BY <2>1, <2>2, <1>1, Typed, Zenon DEF CopyOK
<1>4. ASSUME NEW e \in Dirs, e # d PROVE CopyOK(e)'
  <2>1. buf'[e] = buf[e] /\ pos'[e] = pos[e] /\ src'[e] = src[e]
    BY <1>4, Zenon DEF RelayInv, RelayTypeOK
  <2> QED
    BY <2>1, Typed, Zenon DEF CopyOK
<1>5. TimeInv' /\ EndInv'
  BY WithinPoll, Zenon
<1> QED
  BY <1>2, <1>3, <1>4, <1>5, Zenon DEF RelayInv

\* A step inside a poll that moves no byte: it may find the reader's end, shut the
\* writer down, or go on to the next direction.
LEMMA QuietOK ==
    ASSUME RelayInv, NEW d \in Dirs, turn = d, turn' \in Dirs \cup {"check"}, drained' \in BOOLEAN,
           UNCHANGED <<buf, pos, amt, src, delivered, timeVars, endVars, before>>,
           NEW r \in BOOLEAN, read_done' = [read_done EXCEPT ![d] = r],
           NEW x \in {"open", "eof", "error"}, readEnd' = [readEnd EXCEPT ![d] = x],
           NEW h \in BOOLEAN, shutdown_done' = [shutdown_done EXCEPT ![d] = h],
           NEW f \in BOOLEAN, fin' = [fin EXCEPT ![d] = f],
           r => x # "open",
           h \/ f => r /\ pos[d] = Len(buf[d]),
           drained' => turn' = d /\ pos[d] = Len(buf[d])
    PROVE  RelayInv'
<1>1. RelayTypeOK'
  <2>1. /\ read_done' \in [Dirs -> BOOLEAN] /\ shutdown_done' \in [Dirs -> BOOLEAN]
        /\ fin' \in [Dirs -> BOOLEAN] /\ readEnd' \in [Dirs -> {"open", "eof", "error"}]
    BY Zenon DEF RelayInv, RelayTypeOK
  <2>2. turn' \in Dirs \cup {"parked", "check", "ended"}
    BY Zenon
  <2> QED
    BY <2>1, <2>2, Zenon DEF RelayInv, RelayTypeOK, timeVars, endVars
<1>2. read_done'[d] = r /\ readEnd'[d] = x /\ shutdown_done'[d] = h /\ fin'[d] = f
  BY Zenon DEF RelayInv, RelayTypeOK
<1>3. CopyOK(d)'
  BY <1>2, Typed, Zenon DEF CopyOK
<1>4. ASSUME NEW e \in Dirs, e # d PROVE CopyOK(e)'
  <2>1. /\ read_done'[e] = read_done[e] /\ readEnd'[e] = readEnd[e]
        /\ shutdown_done'[e] = shutdown_done[e] /\ fin'[e] = fin[e]
    BY <1>4, Zenon DEF RelayInv, RelayTypeOK
  <2> QED
    BY <2>1, <1>4, Typed, Zenon DEF CopyOK
<1>5. TimeInv' /\ EndInv'
  BY WithinPoll, Zenon
<1> QED
  BY <1>1, <1>3, <1>4, <1>5, Zenon DEF RelayInv

\* A write that is not ready keeps the invariant.
LEMMA PendingOK ==
    ASSUME RelayInv, NEW d \in Dirs, WritePending(d)
    PROVE  RelayInv'
<1>0. /\ buf[d] \in Seq(Nat) /\ delivered[d] \in Seq(Nat) /\ pos[d] \in Nat /\ src[d] \in Nat
      /\ Len(buf[d]) \in Nat /\ Len(delivered[d]) \in Nat
      /\ CopyOK(d) /\ InOrder(delivered[d], buf[d], pos[d])
      /\ src[d] = Len(delivered[d]) + (Len(buf[d]) - pos[d])
  BY Typed, Zenon DEF CopyOK
<1>1. /\ turn = d /\ turn' \in Dirs \cup {"check"} /\ drained' = FALSE /\ BufSize \in Nat
      /\ UNCHANGED <<pos, amt, shutdown_done, delivered, fin, timeVars, endVars, before>>
  BY LeavesTo, RelayAssumption, Zenon DEF WritePending
<1>2. CASE UNCHANGED <<buf, read_done, src, readEnd>>
  <2>1. /\ read_done' = [read_done EXCEPT ![d] = read_done[d]]
        /\ readEnd' = [readEnd EXCEPT ![d] = readEnd[d]]
        /\ shutdown_done' = [shutdown_done EXCEPT ![d] = shutdown_done[d]]
        /\ fin' = [fin EXCEPT ![d] = fin[d]]
        /\ read_done[d] \in BOOLEAN /\ shutdown_done[d] \in BOOLEAN /\ fin[d] \in BOOLEAN
        /\ readEnd[d] \in {"open", "eof", "error"}
    BY <1>1, <1>2, Zenon DEF RelayInv, RelayTypeOK
  <2>2. /\ read_done[d] => readEnd[d] # "open"
        /\ shutdown_done[d] \/ fin[d] => read_done[d] /\ pos[d] = Len(buf[d])
    BY <1>0, Zenon DEF CopyOK
  <2> QED
    BY <2>1, <2>2, <1>1, <1>2, QuietOK, Zenon
<1>3. ASSUME NEW n \in 1..(BufSize - Len(buf[d])), ~read_done[d],
             buf' = [buf EXCEPT ![d] = @ \o Fresh(d, n)], src' = [src EXCEPT ![d] = @ + n],
             UNCHANGED <<read_done, readEnd>>
      PROVE  RelayInv'
  <2>0. n \in Nat
    BY <1>0, <1>1
  <2>1. PICK f \in Seq(Nat) :
           f = Fresh(d, n) /\ Len(f) = n /\ \A i \in 1..n : f[i] = src[d] + i
    BY <2>0, FreshBytes, Zenon DEF RelayInv
  <2> DEFINE b == buf[d] \o f
  <2>2. \A i \in 1..Len(f) : f[i] = (Len(delivered[d]) + (Len(buf[d]) - pos[d])) + i
    BY <2>1, <1>0, Zenon
  <2>a. b \in Seq(Nat) /\ Len(b) = Len(buf[d]) + Len(f) /\ InOrder(delivered[d], b, pos[d])
    BY <2>2, <1>0, Appended, Zenon
  <2>4. buf' = [buf EXCEPT ![d] = b] /\ pos' = [pos EXCEPT ![d] = pos[d]]
    BY <2>1, <1>1, <1>3, Zenon DEF RelayInv, RelayTypeOK
  <2> HIDE DEF b
  <2>b. Len(b) = Len(buf[d]) + n
    BY <2>1, <2>a, Zenon
  <2>3. src[d] + n = Len(delivered[d]) + (Len(b) - pos[d])
    <3> DEFINE l == Len(delivered[d])  k == Len(buf[d])  p == pos[d]  s == src[d]  m == Len(b)
    <3>1. l \in Nat /\ k \in Nat /\ p \in Nat /\ s \in Nat /\ s = l + (k - p) /\ m = k + n
      BY <1>0, <2>b, Zenon
    <3> HIDE DEF l, k, p, s, m
    <3>2. s + n = l + (m - p)
      BY <2>0, <3>1, SMTT(20)
    <3> QED
      BY <3>2, Zenon DEF l, p, s, m
  <2> QED
    BY <2>0, <2>a, <2>3, <2>4, <1>0, <1>1, <1>3, ArrivesOK, Zenon
<1>4. ASSUME NEW x \in {"eof", "error"}, ~read_done[d],
             read_done' = [read_done EXCEPT ![d] = TRUE], readEnd' = [readEnd EXCEPT ![d] = x],
             UNCHANGED <<buf, src>>
      PROVE  RelayInv'
  <2>1. ~shutdown_done[d] /\ ~fin[d]
    BY <1>0, <1>4, Zenon DEF CopyOK
  <2>2. /\ shutdown_done' = [shutdown_done EXCEPT ![d] = FALSE]
        /\ fin' = [fin EXCEPT ![d] = FALSE]
    BY <2>1, <1>1, Zenon DEF RelayInv, RelayTypeOK
  <2> QED
    BY <2>2, <1>1, <1>4, QuietOK, Zenon
<1> QED
  BY <1>2, <1>3, <1>4, Zenon DEF WritePending

\* A read into the empty copy buffer keeps the invariant.
LEMMA FillsOK ==
    ASSUME RelayInv, NEW d \in Dirs, NEW n \in Nat, ReadFills(d, n)
    PROVE  RelayInv'
<1>0. /\ buf[d] \in Seq(Nat) /\ delivered[d] \in Seq(Nat) /\ pos[d] \in Nat /\ src[d] \in Nat
      /\ Len(buf[d]) \in Nat /\ Len(delivered[d]) \in Nat /\ CopyOK(d)
  BY Typed, Zenon
<1>1. /\ turn = d /\ turn' \in Dirs \cup {"check"} /\ drained' = FALSE /\ ~read_done[d]
      /\ UNCHANGED <<amt, read_done, shutdown_done, readEnd, delivered, fin, timeVars, endVars,
                     before>>
  BY Zenon DEF ReadFills
<1>2. src[d] = Len(delivered[d]) /\ InOrder(delivered[d], buf[d], Len(buf[d]))
  <2>1. pos[d] = Len(buf[d])
    BY <1>0, Zenon DEF CopyOK, ReadFills
  <2> QED
    BY <2>1, <1>0 DEF CopyOK
<1>3. PICK f \in Seq(Nat) : f = Fresh(d, n) /\ Len(f) = n /\ \A i \in 1..n : f[i] = src[d] + i
  BY FreshBytes, Zenon DEF RelayInv
<1>4. InOrder(delivered[d], f, 0)
  <2>1. \A i \in 1..Len(f) : f[i] = Len(delivered[d]) + i
    BY <1>2, <1>3, Zenon
  <2> QED
    BY <2>1, <1>0, <1>2, Refilled, Zenon
<1>5. src[d] + n = Len(delivered[d]) + (Len(f) - 0)
  BY <1>0, <1>2, <1>3
<1>6. /\ buf' = [buf EXCEPT ![d] = f] /\ pos' = [pos EXCEPT ![d] = 0]
      /\ src' = [src EXCEPT ![d] = @ + n]
  BY <1>3, Zenon DEF ReadFills
<1> QED
  BY <1>1, <1>4, <1>5, <1>6, ArrivesOK, Zenon

\* The rest of poll_copy.
LEMMA CopyStepOK ==
    ASSUME RelayInv, NEW d \in Dirs,
           Flush(d) \/ Shutdown(d) \/ ReadEof(d) \/ ReadPending(d) \/ ReadFails(d) \/ WriteFails(d)
    PROVE  RelayInv'
<1>0. /\ read_done[d] \in BOOLEAN /\ shutdown_done[d] \in BOOLEAN /\ fin[d] \in BOOLEAN
      /\ readEnd[d] \in {"open", "eof", "error"}
      /\ read_done = [read_done EXCEPT ![d] = read_done[d]]
      /\ readEnd = [readEnd EXCEPT ![d] = readEnd[d]]
      /\ shutdown_done = [shutdown_done EXCEPT ![d] = shutdown_done[d]]
      /\ fin = [fin EXCEPT ![d] = fin[d]]
  BY Zenon DEF RelayInv, RelayTypeOK
<1>1. /\ read_done[d] => readEnd[d] # "open"
      /\ shutdown_done[d] \/ fin[d] => read_done[d] /\ pos[d] = Len(buf[d])
      /\ turn = d /\ drained => pos[d] = Len(buf[d])
      /\ d # "ended"
  BY Typed, Zenon DEF CopyOK
<1>2. CASE Flush(d) /\ drained' = TRUE /\ UNCHANGED <<endVars, turn>>
  BY <1>0, <1>1, <1>2, QuietOK, Zenon DEF Flush, copyVars, worldVars
<1>3. CASE Shutdown(d)
  <2>1. turn' \in Dirs \cup {"check"} /\ drained' = FALSE
    BY <1>3, LeavesTo, Zenon DEF Shutdown
  <2>2. PICK h \in BOOLEAN, f \in BOOLEAN :
           shutdown_done' = [shutdown_done EXCEPT ![d] = h] /\ fin' = [fin EXCEPT ![d] = f]
    BY <1>0, <1>3, Zenon DEF Shutdown
  <2> QED
    BY <2>1, <2>2, <1>0, <1>1, <1>3, QuietOK, Zenon DEF Shutdown
<1>4. CASE ReadEof(d)
  BY <1>0, <1>1, <1>4, QuietOK, Zenon DEF ReadEof
<1>5. CASE ReadPending(d)
  <2>1. turn' \in Dirs \cup {"check"} /\ drained' = FALSE
    BY <1>5, LeavesTo, Zenon DEF ReadPending
  <2> QED
    BY <2>1, <1>0, <1>1, <1>5, QuietOK, Zenon DEF ReadPending, copyVars, worldVars
<1>6. CASE End("Error") /\ (Flush(d) \/ WriteFails(d)) /\ UNCHANGED drained
  <2>1. turn # "ended" /\ UNCHANGED <<copyVars, worldVars, timeVars, drained, before>>
    BY <1>1, <1>6, Zenon DEF Flush, WriteFails
  <2>2. /\ readEnd' \in [Dirs -> {"open", "eof", "error"}]
        /\ \A e \in Dirs : read_done[e] => readEnd'[e] # "open"
    BY <2>1, Typed, Zenon DEF worldVars, CopyOK, RelayInv, RelayTypeOK
  <2> QED
    BY <2>1, <2>2, <1>6, FailsOK, Zenon DEF worldVars
<1>7. CASE ReadFails(d)
  <2>1. /\ turn # "ended" /\ End("Error")
        /\ UNCHANGED <<copyVars, src, delivered, fin, timeVars, drained, before>>
    BY <1>1, <1>7, Zenon DEF ReadFails
  <2>2. /\ readEnd' \in [Dirs -> {"open", "eof", "error"}]
        /\ \A e \in Dirs : read_done[e] => readEnd'[e] # "open"
    BY <1>7, Typed, Zenon DEF ReadFails, CopyOK, RelayInv, RelayTypeOK
  <2> QED
    BY <2>1, <2>2, FailsOK, Zenon
<1> QED
  BY <1>2, <1>3, <1>4, <1>5, <1>6, <1>7, Zenon DEF Flush, WriteFails

\* The poll around the copies, and time.
LEMMA PollStepOK ==
    ASSUME RelayInv, PollBegin \/ PollCheck \/ Tick
    PROVE  RelayInv'
<1>0. /\ IdleTimeout \in Nat /\ IdleWindow \in Nat /\ IdleTimeout <= IdleWindow
      /\ quiet \in 0..IdleTimeout /\ sinceByte \in 0..IdleWindow
  BY WholeSeconds, Zenon DEF RelayInv, RelayTypeOK
<1>1. CASE PollBegin
  <2>1. RelayTypeOK'
    BY <1>1, Zenon
        DEF PollBegin, RelayInv, RelayTypeOK, copyVars, worldVars, timeVars, endVars, Dirs
  <2>2. turn = "parked" /\ turn' # "parked" /\ turn' # "ended"
    BY <1>1, Zenon DEF PollBegin
  <2>3. ~drained'
    BY <1>1, Zenon DEF PollBegin, RelayInv, EndInv
  <2>4. ASSUME NEW d \in Dirs PROVE CopyOK(d)'
    BY <2>3, <1>1, Typed, Zenon DEF PollBegin, CopyOK, copyVars, worldVars
  <2>5. TimeInv'
    BY <2>2, <1>1, <1>0 DEF PollBegin, RelayInv, RelayTypeOK, TimeInv, IdleMeansSilent, copyVars,
                            timeVars, endVars
  <2>6. EndInv'
    BY <2>2, <2>3, <1>1, Zenon DEF PollBegin, RelayInv, EndInv, copyVars, endVars
  <2> QED
    BY <2>1, <2>4, <2>5, <2>6, Zenon DEF RelayInv
<1>2. CASE Tick
  <2>1. quiet' \in 0..IdleTimeout /\ sinceByte' \in 0..IdleWindow
    BY <1>0, <1>2 DEF Tick
  <2>2. RelayTypeOK'
    BY <2>1, <1>2, Zenon DEF Tick, RelayInv, RelayTypeOK, copyVars, worldVars, endVars
  <2>3. ASSUME NEW d \in Dirs PROVE CopyOK(d)'
    BY <1>2, Typed, Zenon DEF Tick, CopyOK, copyVars, worldVars
  <2>4. quiet' <= sinceByte' /\ turn # "ended"
    BY <1>0, <1>2 DEF Tick, RelayInv, TimeInv
  <2>5. TimeInv' /\ EndInv'
    BY <2>4, <1>2, Zenon
        DEF Tick, RelayInv, TimeInv, EndInv, IdleMeansSilent, Progress, copyVars, endVars
  <2> QED
    BY <2>2, <2>3, <2>5, Zenon DEF RelayInv
<1>3. CASE PollCheck
  <2> DEFINE now == IF Progress THEN 0 ELSE quiet
  <2>1. /\ now \in 0..IdleTimeout /\ turn = "check" /\ quiet' = now /\ ~drained'
        /\ now <= sinceByte
        /\ UNCHANGED <<copyVars, worldVars, sinceByte, drained, before>>
    BY <1>0, <1>3 DEF PollCheck, RelayInv, TimeInv, EndInv
  <2>2. CASE turn' = "parked" /\ UNCHANGED endVars
    <3>1. RelayTypeOK'
      BY <2>1, <2>2, Zenon DEF RelayInv, RelayTypeOK, copyVars, worldVars, endVars
    <3>2. TimeInv' /\ EndInv'
      BY <2>1, <2>2, Zenon DEF RelayInv, TimeInv, EndInv, IdleMeansSilent, copyVars, endVars
    <3>3. ASSUME NEW d \in Dirs PROVE CopyOK(d)'
      BY <2>1, Typed, Zenon DEF CopyOK, copyVars, worldVars
    <3> QED
      BY <3>1, <3>2, <3>3, Zenon DEF RelayInv
  <2>3. ASSUME NEW why \in {"Completed", "IdleTimeout"}, End(why),
               why = "IdleTimeout" => now >= IdleTimeout
        PROVE  RelayInv'
    <3>1. RelayTypeOK'
      BY <2>1, <2>3, Zenon DEF RelayInv, RelayTypeOK, End, copyVars, worldVars
    <3>2. TimeInv'
      BY <2>1, <2>3, <1>0 DEF RelayInv, TimeInv, IdleMeansSilent, End, copyVars
    <3>3. EndInv'
      BY <2>1, <2>3, Zenon DEF RelayInv, EndInv, End, copyVars
    <3>4. ASSUME NEW d \in Dirs PROVE CopyOK(d)'
      BY <2>1, Typed, Zenon DEF CopyOK, copyVars, worldVars
    <3> QED
      BY <3>1, <3>2, <3>3, <3>4, Zenon DEF RelayInv
  <2> QED
    BY <2>2, <2>3, <1>3, Zenon DEF PollCheck
<1> QED
  BY <1>1, <1>2, <1>3, Zenon

\* Every step keeps the invariant.
LEMMA StepOK == RelayInv /\ [Next]_vars => RelayInv'
<1> SUFFICES ASSUME RelayInv, [Next]_vars PROVE RelayInv'
  BY Zenon
<1>1. ASSUME NEW d \in Dirs, NEW n \in 1..BufSize, WriteAccepts(d, n) \/ ReadFills(d, n)
      PROVE  RelayInv'
  BY <1>1, RelayAssumption, AcceptsOK, FillsOK
<1>2. ASSUME NEW d \in Dirs, WritePending(d) PROVE RelayInv'
  BY <1>2, PendingOK, Zenon
<1>3. ASSUME NEW d \in Dirs,
             Flush(d) \/ Shutdown(d) \/ ReadEof(d) \/ ReadPending(d) \/ ReadFails(d) \/ WriteFails(d)
      PROVE  RelayInv'
  BY <1>3, CopyStepOK, Zenon
<1>4. CASE PollBegin \/ PollCheck \/ Tick
  BY <1>4, PollStepOK, Zenon
<1>5. CASE UNCHANGED vars
  BY <1>5, Zenon
     DEF vars, copyVars, worldVars, timeVars, endVars, RelayInv, RelayTypeOK, CopyOK, TimeInv,
              EndInv, IdleMeansSilent, Progress
<1> QED
  BY <1>1, <1>2, <1>3, <1>4, <1>5, Zenon DEF Next, Copy

\* Every byte the reader of a direction delivered is with the writer or in buf, in
\* order, and a half-close follows the last of them: whatever the buffer size, the
\* sizes of the reads and the partial writes (relay.rs poll_copy).
THEOREM RelayKeepsStream == Spec => []StreamIntact
<1>1. RelayInv => StreamIntact
  <2> SUFFICES ASSUME RelayInv, NEW d \in Dirs
               PROVE  /\ delivered[d] \o Unwritten(d) = [i \in 1..src[d] |-> i]
                      /\ fin[d] \/ shutdown_done[d] =>
                            readEnd[d] # "open" /\ Len(delivered[d]) = src[d]
    BY Zenon DEF StreamIntact
  <2>1. delivered[d] \o Unwritten(d) = [i \in 1..src[d] |-> i]
    <3>1. /\ buf[d] \in Seq(Nat) /\ delivered[d] \in Seq(Nat) /\ pos[d] \in Nat
          /\ InOrder(delivered[d], buf[d], pos[d])
          /\ src[d] = Len(delivered[d]) + (Len(buf[d]) - pos[d])
      BY Typed, Zenon DEF CopyOK
    <3>2. delivered[d] \o SubSeq(buf[d], pos[d] + 1, Len(buf[d]))
            = Stream(Len(delivered[d]) + (Len(buf[d]) - pos[d]))
      BY <3>1, Whole, Zenon
    <3> QED
      BY <3>1, <3>2, Zenon DEF Unwritten, Stream
  <2>2. fin[d] \/ shutdown_done[d] => readEnd[d] # "open" /\ Len(delivered[d]) = src[d]
    BY Typed DEF CopyOK
  <2> QED
    BY <2>1, <2>2, Zenon
<1> QED
  BY <1>1, InitOK, StepOK, PTL DEF Spec

\* The collector is given what the writers accepted, once, however the relay ends
\* (relay.rs:264-274).
THEOREM RelayCountsExact == Spec => []StatsExact
<1>1. RelayInv => StatsExact
  BY Typed, Zenon DEF RelayInv, EndInv, StatsExact, CopyOK
<1> QED
  BY <1>1, InitOK, StepOK, PTL DEF Spec

\* The timer cuts only a relay that was silent in both directions for the whole
\* seconds of the window, whatever the window and the interleaving of polls and time
\* (relay.rs:238-257).
THEOREM RelayCutsOnlySilent == Spec => []IdleMeansSilent
<1>1. RelayInv => IdleMeansSilent
  BY Zenon DEF RelayInv, TimeInv
<1> QED
  BY <1>1, InitOK, StepOK, PTL DEF Spec

-----------------------------------------------------------------------------
(* Frames in a channel: Chunk(k, n) is the n bytes after the first k        *)

\* A run of n bytes is a sequence of length n.
LEMMA ChunkType ==
    ASSUME NEW k \in Nat, NEW n \in Nat
    PROVE  Chunk(k, n) \in Seq(Nat) /\ Len(Chunk(k, n)) = n /\ (n = 0 <=> Chunk(k, n) = <<>>)
<1>1. Chunk(k, n) \in Seq(Nat) /\ Len(Chunk(k, n)) = n
  BY DEF Chunk
<1>2. \A s \in Seq(Nat) : Len(s) = 0 <=> s = <<>>
  OBVIOUS
<1> QED
  BY <1>1, <1>2, Zenon

\* A chunk falls into a chunk and the one after it.
LEMMA ChunkSplits ==
    ASSUME NEW k \in Nat, NEW m \in Nat, NEW n \in 0..m
    PROVE  /\ SubSeq(Chunk(k, m), 1, n) = Chunk(k, n)
           /\ SubSeq(Chunk(k, m), n + 1, m) = Chunk(k + n, m - n)
BY DEF Chunk

\* Delivering n bytes adds n to the length.
LEMMA ChunkAppended ==
    ASSUME NEW s \in Seq(Nat), NEW k \in Nat, NEW n \in Nat
    PROVE  /\ s \o Chunk(k, n) \in Seq(Nat)
           /\ Len(s \o Chunk(k, n)) = Len(s) + n
           /\ n = 0 => s \o Chunk(k, n) = s
<1>1. Chunk(k, n) \in Seq(Nat) /\ Len(Chunk(k, n)) = n /\ (n = 0 => Chunk(k, n) = <<>>)
  BY ChunkType, Zenon
<1>2. \A t \in Seq(Nat) : /\ s \o t \in Seq(Nat) /\ Len(s \o t) = Len(s) + Len(t)
                          /\ t = <<>> => s \o t = s
  OBVIOUS
<1> QED
  BY <1>1, <1>2, Zenon

Frames == [type : {"Body", "Datagram"}, data : Seq(Nat), fin : BOOLEAN]

\* co gives the place in the stream at which each frame of the channel q begins: they
\* follow each other from one place to the other, and nothing follows a FIN.
Laid(q, co, from, to) ==
    /\ co \in [1..(Len(q) + 1) -> Nat]
    /\ co[1] = from /\ co[Len(q) + 1] = to
    /\ \A i \in 1..Len(q) :
           /\ co[i] <= co[i + 1] /\ co[i + 1] <= co[i] + MaxChunk /\ co[i + 1] <= to
           /\ q[i].data = Chunk(co[i], co[i + 1] - co[i])
           /\ q[i].fin => co[i + 1] = to

\* The frames of q carry the bytes of the stream from one place to another.
Carried(q, from, to) == \E co : Laid(q, co, from, to)

\* An empty channel carries nothing.
LEMMA CarriedNone ==
    ASSUME NEW k \in Nat, NEW to \in Nat
    PROVE  Carried(<<>>, k, to) <=> k = to
<1>1. Len(<<>>) = 0
  BY Zenon
<1>2. ASSUME k = to PROVE Carried(<<>>, k, to)
  <2> DEFINE co == [i \in 1..1 |-> k]
  <2>1. Laid(<<>>, co, k, to)
    BY <1>1, <1>2 DEF Laid
  <2> HIDE DEF co
  <2> QED
    BY <2>1, Zenon DEF Carried
<1>3. ASSUME Carried(<<>>, k, to) PROVE k = to
  BY <1>1, <1>3 DEF Carried, Laid
<1> QED
  BY <1>2, <1>3, Zenon

\* A frame is appended that carries the next n bytes; it is empty behind a FIN.
LEMMA CarriedAppend ==
    ASSUME NEW q \in Seq(Frames), NEW f \in Frames, NEW from \in Nat, NEW to \in Nat,
           NEW n \in 0..MaxChunk, Carried(q, from, to), f.data = Chunk(to, n),
           n = 0 \/ \A i \in 1..Len(q) : ~q[i].fin
    PROVE  Carried(Append(q, f), from, to + n)
<1> DEFINE l == Len(q)
           p == Append(q, f)
<1>0. MaxChunk \in Nat /\ n \in Nat /\ n <= MaxChunk
  BY H3Assumption
<1>1. PICK co : Laid(q, co, from, to)
  BY Zenon DEF Carried
<1>2. l \in Nat /\ Len(p) = l + 1 /\ p[l + 1] = f /\ \A i \in 1..l : p[i] = q[i]
  OBVIOUS
<1> DEFINE d == [i \in 1..(l + 2) |-> IF i <= l + 1 THEN co[i] ELSE to + n]
<1>3. /\ co \in [1..(l + 1) -> Nat] /\ co[1] = from /\ co[l + 1] = to
      /\ \A i \in 1..l : /\ co[i] <= co[i + 1] /\ co[i + 1] <= co[i] + MaxChunk /\ co[i + 1] <= to
                         /\ q[i].data = Chunk(co[i], co[i + 1] - co[i])
                         /\ q[i].fin => co[i + 1] = to
  BY <1>1, Zenon DEF Laid
<1> HIDE DEF l, p
<1>4. d \in [1..(l + 2) -> Nat] /\ d[l + 2] = to + n /\ \A i \in 1..(l + 1) : d[i] = co[i]
  BY <1>0, <1>2, <1>3, SMTT(20)
<1> HIDE DEF d
<1>5. d[1] = from /\ d[l + 1] = to
  BY <1>2, <1>3, <1>4, SMTT(20)
<1>6. ASSUME NEW i \in 1..(l + 1)
      PROVE  /\ d[i] <= d[i + 1] /\ d[i + 1] <= d[i] + MaxChunk /\ d[i + 1] <= to + n
             /\ p[i].data = Chunk(d[i], d[i + 1] - d[i])
             /\ p[i].fin => d[i + 1] = to + n
  <2>1. CASE i = l + 1
    <3>1. d[i] = to /\ d[i + 1] = to + n /\ p[i] = f /\ (to + n) - to = n
      BY <1>0, <1>2, <1>4, <1>5, <2>1
    <3> QED
      BY <1>0, <3>1
  <2>2. CASE i # l + 1
    <3>1. i \in 1..l /\ i + 1 \in 1..(l + 1)
      BY <1>2, <2>2
    <3>2. d[i] = co[i] /\ d[i + 1] = co[i + 1] /\ p[i] = q[i]
      BY <1>2, <1>4, <3>1, Zenon
    <3>3. q[i].fin => n = 0 /\ to + n = to
      BY <3>1 DEF l
    <3>4. co[i] \in Nat /\ co[i + 1] \in Nat
      BY <1>2, <1>3, <3>1, Zenon
    <3>5. co[i + 1] <= to /\ to <= to + n
      BY <1>0, <1>3, <3>1, SMTT(20)
    <3>6. d[i + 1] <= to + n
      BY <1>0, <3>2, <3>4, <3>5, SMTT(20)
    <3> QED
      BY <1>3, <3>1, <3>2, <3>3, <3>6, Zenon
  <2> QED
    BY <2>1, <2>2, Zenon
<1>7. Len(p) + 1 = l + 2
  BY <1>2, SMTT(20)
<1>8. Laid(p, d, from, to + n)
  BY <1>2, <1>4, <1>5, <1>6, <1>7, Zenon DEF Laid
<1> QED
  BY <1>8, Zenon DEF Carried, p

\* The frame at the front carries the first bytes, and its FIN the last.
LEMMA CarriedTail ==
    ASSUME NEW q \in Seq(Frames), q # <<>>, NEW from \in Nat, NEW to \in Nat, Carried(q, from, to)
    PROVE  \E n \in 0..MaxChunk :
               /\ Head(q).data = Chunk(from, n) /\ from + n <= to
               /\ Head(q).fin => from + n = to
               /\ Carried(Tail(q), from + n, to)
<1> DEFINE l == Len(q)
           p == Tail(q)
<1>0. MaxChunk \in Nat
  BY H3Assumption, Zenon
<1>1. PICK co : Laid(q, co, from, to)
  BY Zenon DEF Carried
<1>2. /\ l \in Nat /\ l >= 1 /\ Len(p) = l - 1 /\ Head(q) = q[1]
      /\ \A i \in 1..(l - 1) : p[i] = q[i + 1]
  OBVIOUS
<1>3. /\ co \in [1..(l + 1) -> Nat] /\ co[1] = from /\ co[l + 1] = to
      /\ \A i \in 1..l : /\ co[i] <= co[i + 1] /\ co[i + 1] <= co[i] + MaxChunk /\ co[i + 1] <= to
                         /\ q[i].data = Chunk(co[i], co[i + 1] - co[i])
                         /\ q[i].fin => co[i + 1] = to
  BY <1>1, Zenon DEF Laid
<1> DEFINE d == [i \in 1..l |-> co[i + 1]]
           n == co[2] - from
<1> HIDE DEF l, p
<1>4. d \in [1..l -> Nat] /\ \A i \in 1..l : d[i] = co[i + 1]
  <2>1. \A i \in 1..l : i + 1 \in 1..(l + 1)
    BY <1>2
  <2> QED
    BY <1>3, <2>1, Zenon
<1> HIDE DEF d
<1>5. n \in 0..MaxChunk /\ from + n = co[2] /\ 1 \in 1..l
  <2>1. 1 \in 1..l /\ 2 \in 1..(l + 1) /\ 1 + 1 = 2
    BY <1>2
  <2>2. co[2] \in Nat /\ from <= co[2] /\ co[2] <= from + MaxChunk
    BY <1>3, <2>1, Zenon
  <2> QED
    BY <1>0, <2>1, <2>2
<1> HIDE DEF n
<1>6. d[1] = from + n /\ d[l] = to
  BY <1>2, <1>3, <1>4, <1>5
<1>7. ASSUME NEW i \in 1..(l - 1)
      PROVE  /\ d[i] <= d[i + 1] /\ d[i + 1] <= d[i] + MaxChunk /\ d[i + 1] <= to
             /\ p[i].data = Chunk(d[i], d[i + 1] - d[i])
             /\ p[i].fin => d[i + 1] = to
  <2>1. i \in 1..l /\ i + 1 \in 1..l
    BY <1>2
  <2>2. d[i] = co[i + 1] /\ d[i + 1] = co[(i + 1) + 1] /\ p[i] = q[i + 1]
    BY <1>2, <1>4, <2>1, Zenon
  <2> QED
    BY <1>3, <2>1, <2>2, Zenon
<1>8. Len(p) + 1 = l
  BY <1>2
<1>9. Laid(p, d, from + n, to)
  BY <1>2, <1>4, <1>6, <1>7, <1>8, Zenon DEF Laid
<1>10. /\ Head(q).data = Chunk(from, n) /\ (Head(q).fin => from + n = to)
  <2>1. 1 + 1 = 2
    OBVIOUS
  <2>2. q[1].data = Chunk(from, co[2] - from) /\ (q[1].fin => co[2] = to)
    BY <1>3, <1>5, <2>1, Zenon
  <2> QED
    BY <1>2, <1>5, <2>2, Zenon DEF n
<1>11. from + n <= to
  BY <1>3, <1>5
<1>12. Carried(Tail(q), from + n, to)
  BY <1>9, Zenon DEF Carried, p
<1> QED
  BY <1>5, <1>10, <1>11, <1>12, Zenon

\* What is carried ends where it begins or later.
LEMMA CarriedOrder ==
    ASSUME NEW q \in Seq(Frames), NEW from \in Nat, NEW to \in Nat, Carried(q, from, to)
    PROVE  from <= to
<1>1. CASE q = <<>>
  BY <1>1, CarriedNone
<1>2. CASE q # <<>>
  <2>1. PICK n \in 0..MaxChunk : from + n <= to
    BY <1>2, CarriedTail, Zenon
  <2> QED
    BY <2>1, H3Assumption
<1> QED
  BY <1>1, <1>2, Zenon

-----------------------------------------------------------------------------
(* H3StreamReader is a byte stream                                          *)

\* What poll_read has returned, its rest of a frame and the channel make up the stream;
\* the FIN and the end of file come after its last byte.
UpInv ==
    /\ recv \in Seq(Frames) /\ rbuf \in Seq(Nat) /\ upGot \in Seq(Nat) /\ upSent \in Nat
    /\ rfin \in BOOLEAN /\ upFin \in BOOLEAN /\ upGone \in BOOLEAN /\ upEof \in BOOLEAN
    /\ rbuf = Chunk(Len(upGot), Len(rbuf))
    /\ Carried(recv, Len(upGot) + Len(rbuf), upSent)
    /\ rfin => upFin /\ Len(upGot) + Len(rbuf) = upSent
    /\ \A i \in 1..Len(recv) : recv[i].fin => upFin
    /\ upEof => rbuf = <<>> /\ (rfin \/ (upGone /\ recv = <<>>))

\* What a step has to be for the byte stream.
UpStep == UpInv' /\ (Up!Next \/ UNCHANGED Up!vars)

\* At the start both channels are empty.
LEMMA UpStart == H3Init => UpInv /\ Up!Init
<1> SUFFICES ASSUME H3Init PROVE UpInv /\ Up!Init
  BY Zenon
<1>1. recv = <<>> /\ rbuf = <<>> /\ upGot = <<>> /\ upSent = 0
      /\ rfin = FALSE /\ upFin = FALSE /\ upGone = FALSE /\ upEof = FALSE
  BY Zenon DEF H3Init
<1>2. Len(<<>>) = 0 /\ <<>> \in Seq(Frames) /\ <<>> \in Seq(Nat)
  OBVIOUS
<1>3. Chunk(0, 0) = <<>>
  BY ChunkType, Zenon
<1>4. Carried(<<>>, 0, 0)
  BY CarriedNone, Zenon
<1>5. UpInv
  <2>1. recv \in Seq(Frames) /\ rbuf \in Seq(Nat) /\ upGot \in Seq(Nat) /\ upSent \in Nat
    BY <1>1, <1>2, Zenon
  <2>2. Len(upGot) = 0 /\ Len(rbuf) = 0 /\ 0 + 0 = 0 /\ 1..Len(recv) = {}
    BY <1>1, <1>2
  <2>3. rbuf = Chunk(Len(upGot), Len(rbuf)) /\ Carried(recv, Len(upGot) + Len(rbuf), upSent)
    BY <1>1, <1>3, <1>4, <2>2, Zenon
  <2> QED
    BY <1>1, <2>1, <2>2, <2>3, Zenon DEF UpInv
<1>6. Up!Init
  BY <1>1, Zenon DEF Up!Init
<1> QED
  BY <1>5, <1>6, Zenon

\* Writing leaves the upload alone.
LEMMA UpUntouched == UpInv /\ UNCHANGED readVars => UpStep
<1> SUFFICES ASSUME UpInv, UNCHANGED readVars PROVE UpStep
  BY Zenon
<1>1. /\ recv' = recv /\ rbuf' = rbuf /\ rfin' = rfin /\ upSent' = upSent /\ upFin' = upFin
      /\ upGone' = upGone /\ upGot' = upGot /\ upEof' = upEof
  BY Zenon DEF readVars
<1>2. UpInv'
  BY <1>1, Zenon DEF UpInv
<1>3. UNCHANGED Up!vars
  BY <1>1, Zenon DEF Up!vars
<1> QED
  BY <1>2, <1>3, Zenon DEF UpStep

\* A frame of the driver is a Send, or a Close when it has the FIN.
LEMMA UpBody ==
    ASSUME UpInv, NEW n \in 0..MaxChunk, NEW f \in BOOLEAN, DriverBody(n, f)
    PROVE  UpStep
<1> DEFINE b == Body(Chunk(upSent, n), f)
<1>0. MaxChunk \in Nat /\ n \in Nat
  BY H3Assumption
<1>1. /\ ~upFin /\ ~upGone /\ upFin' = f /\ upGone' = upGone /\ upSent' = upSent + n
      /\ recv' = Append(recv, b)
      /\ rbuf' = rbuf /\ rfin' = rfin /\ upGot' = upGot /\ upEof' = upEof
  BY Zenon DEF DriverBody
<1>2. /\ recv \in Seq(Frames) /\ rbuf \in Seq(Nat) /\ upGot \in Seq(Nat) /\ upSent \in Nat
      /\ rfin \in BOOLEAN /\ upFin \in BOOLEAN /\ upGone \in BOOLEAN /\ upEof \in BOOLEAN
      /\ rbuf = Chunk(Len(upGot), Len(rbuf))
      /\ Carried(recv, Len(upGot) + Len(rbuf), upSent)
      /\ rfin => upFin
      /\ \A i \in 1..Len(recv) : recv[i].fin => upFin
      /\ upEof => rfin \/ upGone
  BY Zenon DEF UpInv
<1>3. Chunk(upSent, n) \in Seq(Nat)
  BY <1>0, <1>2, ChunkType, Zenon
<1>4. b \in Frames /\ b.data = Chunk(upSent, n) /\ b.fin = f
  BY <1>3, Zenon DEF Frames, Body
<1> HIDE DEF b
<1>5. \A i \in 1..Len(recv) : ~recv[i].fin
  BY <1>1, <1>2, Zenon
<1>6. Len(upGot) + Len(rbuf) \in Nat
  BY <1>2
<1>7. Carried(recv', Len(upGot) + Len(rbuf), upSent')
  BY <1>1, <1>2, <1>4, <1>5, <1>6, CarriedAppend, Zenon
<1>8. recv' \in Seq(Frames) /\ \A i \in 1..Len(recv') : recv'[i].fin => f
  BY <1>1, <1>2, <1>4, <1>5
<1>9. ~rfin /\ ~upEof /\ upSent' \in Nat
  BY <1>0, <1>1, <1>2
<1>10. UpInv'
  BY <1>1, <1>2, <1>7, <1>8, <1>9, Zenon DEF UpInv
<1>11. CASE f
  <2>1. Up!Close(n)
    BY <1>1, <1>11, Zenon DEF Up!Close
  <2> QED
    BY <1>10, <2>1, Zenon DEF UpStep, Up!Next
<1>12. CASE ~f /\ n # 0
  <2>1. Up!Send(n) /\ n \in 1..MaxChunk
    BY <1>0, <1>1, <1>12 DEF Up!Send
  <2> QED
    BY <1>10, <2>1, Zenon DEF UpStep, Up!Next
<1>13. CASE ~f /\ n = 0
  <2>1. UNCHANGED Up!vars
    BY <1>1, <1>2, <1>13 DEF Up!vars
  <2> QED
    BY <1>10, <2>1, Zenon DEF UpStep
<1> QED
  BY <1>11, <1>12, <1>13, Zenon

\* A datagram is not part of the stream.
LEMMA UpDatagram ==
    ASSUME UpInv, DriverDatagram
    PROVE  UpStep
<1>0. MaxChunk \in Nat /\ 0 \in 0..MaxChunk
  BY H3Assumption
<1>1. /\ ~upGone /\ recv' = Append(recv, Datagram) /\ upFin' = upFin /\ upGone' = upGone
      /\ upSent' = upSent /\ rbuf' = rbuf /\ rfin' = rfin /\ upGot' = upGot /\ upEof' = upEof
  BY Zenon DEF DriverDatagram
<1>2. /\ recv \in Seq(Frames) /\ rbuf \in Seq(Nat) /\ upGot \in Seq(Nat) /\ upSent \in Nat
      /\ Carried(recv, Len(upGot) + Len(rbuf), upSent)
      /\ \A i \in 1..Len(recv) : recv[i].fin => upFin
      /\ upEof => rfin
  BY <1>1, Zenon DEF UpInv
<1>3. <<>> \in Seq(Nat) /\ Chunk(upSent, 0) = <<>>
  BY <1>2, ChunkType, Zenon
<1>4. Datagram \in Frames /\ Datagram.data = Chunk(upSent, 0) /\ ~Datagram.fin
  BY <1>3, Zenon DEF Frames, Datagram
<1>5. Len(upGot) + Len(rbuf) \in Nat /\ upSent + 0 = upSent
  BY <1>2
<1>6. Carried(Append(recv, Datagram), Len(upGot) + Len(rbuf), upSent + 0)
  BY <1>0, <1>2, <1>4, <1>5, CarriedAppend, Zenon
<1>7. recv' \in Seq(Frames) /\ \A i \in 1..Len(recv') : recv'[i].fin => upFin
  BY <1>1, <1>2, <1>4
<1>8. UpInv'
  BY <1>1, <1>2, <1>5, <1>6, <1>7, Zenon DEF UpInv
<1>9. UNCHANGED Up!vars
  BY <1>1, Zenon DEF Up!vars
<1> QED
  BY <1>8, <1>9, Zenon DEF UpStep

\* Only a driver that goes away breaks the stream.
LEMMA UpDropped ==
    ASSUME UpInv, DriverDropsSender
    PROVE  UpStep
<1>1. /\ ~upFin /\ ~upGone /\ upGone' = TRUE /\ recv' = recv /\ upFin' = upFin
      /\ upSent' = upSent /\ rbuf' = rbuf /\ rfin' = rfin /\ upGot' = upGot /\ upEof' = upEof
  BY Zenon DEF DriverDropsSender
<1>2. UpInv'
  BY <1>1, Zenon DEF UpInv
<1>3. Up!Break
  BY <1>1, Zenon DEF Up!Break
<1> QED
  BY <1>2, <1>3, Zenon DEF UpStep, Up!Next

\* Fetching a frame moves nothing to the caller.
LEMMA UpPull ==
    ASSUME UpInv, PullFrame
    PROVE  UpStep
<1>1. /\ rbuf = <<>> /\ ~rfin /\ recv # <<>> /\ recv' = Tail(recv)
      /\ rfin' = Head(recv).fin /\ rbuf' = Head(recv).data /\ upFin' = upFin
      /\ upGone' = upGone /\ upSent' = upSent /\ upGot' = upGot /\ upEof' = upEof
  BY Zenon DEF PullFrame
<1>2. /\ recv \in Seq(Frames) /\ upGot \in Seq(Nat) /\ upSent \in Nat
      /\ Carried(recv, Len(upGot) + Len(rbuf), upSent)
      /\ \A i \in 1..Len(recv) : recv[i].fin => upFin
      /\ ~upEof
  BY <1>1, Zenon DEF UpInv
<1>3. Len(upGot) \in Nat /\ Len(upGot) + Len(rbuf) = Len(upGot)
  BY <1>1, <1>2
<1>4. PICK n \in 0..MaxChunk : /\ Head(recv).data = Chunk(Len(upGot), n)
                               /\ Head(recv).fin => Len(upGot) + n = upSent
                               /\ Carried(Tail(recv), Len(upGot) + n, upSent)
  BY <1>1, <1>2, <1>3, CarriedTail, Zenon
<1>5. n \in Nat
  BY H3Assumption
<1>6. Chunk(Len(upGot), n) \in Seq(Nat) /\ Len(Chunk(Len(upGot), n)) = n
  BY <1>3, <1>5, ChunkType, Zenon
<1>7. /\ Tail(recv) \in Seq(Frames) /\ 1 \in 1..Len(recv) /\ Head(recv) = recv[1]
      /\ \A i \in 1..Len(Tail(recv)) : i + 1 \in 1..Len(recv) /\ Tail(recv)[i] = recv[i + 1]
  BY <1>1, <1>2
<1>8. recv[1] \in Frames
  BY <1>2, <1>7
<1>9. Head(recv).fin \in BOOLEAN /\ (Head(recv).fin => upFin)
  BY <1>2, <1>7, <1>8, Zenon DEF Frames
<1>10. \A i \in 1..Len(recv') : recv'[i].fin => upFin
  BY <1>1, <1>2, <1>7, Zenon
<1>11. rbuf' \in Seq(Nat) /\ Len(rbuf') = n /\ rbuf' = Chunk(Len(upGot), Len(rbuf'))
  BY <1>1, <1>4, <1>6, Zenon
<1>12. UpInv'
  BY <1>1, <1>2, <1>4, <1>7, <1>9, <1>10, <1>11, Zenon DEF UpInv
<1>13. UNCHANGED Up!vars
  BY <1>1, Zenon DEF Up!vars
<1> QED
  BY <1>12, <1>13, Zenon DEF UpStep

\* A read that returns bytes is a Receive.
LEMMA UpRead ==
    ASSUME UpInv, NEW remaining \in 1..MaxChunk, ReadBuf(remaining)
    PROVE  UpStep
<1> DEFINE m == Len(rbuf)
           g == Len(upGot)
           n == IF m < remaining THEN m ELSE remaining
<1>1. /\ rbuf # <<>> /\ upGot' = upGot \o SubSeq(rbuf, 1, n) /\ rbuf' = SubSeq(rbuf, n + 1, m)
      /\ recv' = recv /\ rfin' = rfin /\ upFin' = upFin
      /\ upGone' = upGone /\ upSent' = upSent /\ upEof' = upEof
  BY Zenon DEF ReadBuf
<1>2. /\ recv \in Seq(Frames) /\ upGot \in Seq(Nat) /\ upSent \in Nat /\ rbuf \in Seq(Nat)
      /\ Carried(recv, g + m, upSent)
      /\ rbuf = Chunk(g, m)
      /\ rfin => upFin /\ g + m = upSent
      /\ ~upEof
  BY <1>1, Zenon DEF UpInv
<1>3. m \in Nat /\ m # 0 /\ g \in Nat
  BY <1>1, <1>2
<1>4. n \in 1..MaxChunk /\ n \in 0..m /\ n \in Nat
  BY <1>3, H3Assumption
<1> HIDE DEF m, g, n
<1>5. upGot' = upGot \o Chunk(g, n) /\ rbuf' = Chunk(g + n, m - n)
  BY <1>1, <1>2, <1>3, <1>4, ChunkSplits, Zenon
<1>6. upGot' \in Seq(Nat) /\ Len(upGot') = g + n
  BY <1>2, <1>3, <1>4, <1>5, ChunkAppended, Zenon DEF g
<1>7. m - n \in Nat /\ g + n \in Nat /\ (g + n) + (m - n) = g + m
  BY <1>3, <1>4
<1>8. rbuf' \in Seq(Nat) /\ Len(rbuf') = m - n
  BY <1>5, <1>7, ChunkType, Zenon
<1>9. UpInv'
  <2>1. rbuf' = Chunk(Len(upGot'), Len(rbuf')) /\ Len(upGot') + Len(rbuf') = g + m
    BY <1>5, <1>6, <1>7, <1>8, Zenon
  <2> QED
    BY <1>1, <1>2, <1>6, <1>8, <2>1, Zenon DEF UpInv
<1>10. g + m <= upSent
  BY <1>2, <1>3, CarriedOrder
<1>11. g + n <= upSent
  BY <1>2, <1>3, <1>4, <1>10
<1>12. Up!Receive(n)
  BY <1>1, <1>2, <1>5, <1>11, Zenon DEF Up!Receive, Chunk, g
<1> QED
  BY <1>4, <1>9, <1>12, Zenon DEF UpStep, Up!Next

\* The end of file comes after the last byte, or after a break.
LEMMA UpEnd ==
    ASSUME UpInv, PollReadEof
    PROVE  UpStep
<1>1. /\ rbuf = <<>> /\ (rfin \/ (upGone /\ recv = <<>>)) /\ upEof' = TRUE
      /\ recv' = recv /\ rbuf' = rbuf /\ rfin' = rfin /\ upFin' = upFin
      /\ upGone' = upGone /\ upSent' = upSent /\ upGot' = upGot
  BY Zenon DEF PollReadEof
<1>2. UpInv'
  BY <1>1, Zenon DEF UpInv
<1>3. rfin => upFin /\ Len(upGot) + Len(rbuf) = upSent
  BY Zenon DEF UpInv
<1>4. Len(upGot) + Len(rbuf) = Len(upGot)
  BY <1>1 DEF UpInv
<1>5. upFin \/ upGone
  BY <1>1, <1>3, Zenon
<1>6. upGone \/ Len(upGot) = upSent
  BY <1>1, <1>3, <1>4, Zenon
<1>7. Up!Eof
  BY <1>1, <1>5, <1>6, Zenon DEF Up!Eof
<1> QED
  BY <1>2, <1>7, Zenon DEF UpStep, Up!Next

\* Every step of the adapters is one of the upload's byte stream, or none.
LEMMA UpNext == UpInv /\ [H3Next]_h3Vars => UpStep
<1> SUFFICES ASSUME UpInv, [H3Next]_h3Vars PROVE UpStep
  BY Zenon
<1>1. CASE UNCHANGED readVars
  BY <1>1, UpUntouched, Zenon
<1>2. CASE Read
  BY <1>2, UpPull, UpRead, UpEnd, Zenon DEF Read
<1>3. CASE Write
  <2>1. UNCHANGED readVars
    BY <1>3, Zenon DEF Write, PollShutdown, PollWrite
  <2> QED
    BY <1>1, <2>1, Zenon
<1>4. CASE DriverDelivers \/ WriterGone
  <2>1. UNCHANGED readVars
    BY <1>4, Zenon DEF DriverDelivers, WriterGone
  <2> QED
    BY <1>1, <2>1, Zenon
<1>5. CASE Driver
  BY <1>4, <1>5, UpBody, UpDatagram, UpDropped, Zenon DEF Driver
<1> QED
  BY <1>1, <1>2, <1>3, <1>5, Zenon DEF H3Next, h3Vars

\* The reader implements the byte stream: every frame the driver enqueues is a Send, a
\* Close or nothing, every read a Receive or an Eof, whatever the frame and buffer
\* sizes (quiche_stream.rs:50-90).
THEOREM UploadIsByteStream == H3Spec => UploadIsStream
<1>1. H3Init => UpInv /\ Up!Init
  BY UpStart, Zenon
<1>2. UpInv /\ [H3Next]_h3Vars => UpInv' /\ [Up!Next]_Up!vars
  BY UpNext, Zenon DEF UpStep
<1> QED
  BY <1>1, <1>2, PTL DEF H3Spec, UploadIsStream, Up!Spec

-----------------------------------------------------------------------------
(* H3StreamWriter is a byte stream                                          *)

\* The same of what the client has received; a FIN carries no data.
DownInv ==
    /\ send \in Seq(Frames) /\ downGot \in Seq(Nat) /\ written \in Nat
    /\ shut \in BOOLEAN /\ gone \in BOOLEAN /\ downEof \in BOOLEAN
    /\ Carried(send, Len(downGot), written)
    /\ \A i \in 1..Len(send) : send[i].fin => shut /\ send[i].data = <<>>
    /\ downEof => shut /\ Len(downGot) = written

\* What a step has to be for the byte stream.
DownStep == DownInv' /\ (Down!Next \/ UNCHANGED Down!vars)

\* Nothing has been written at the start.
LEMMA DownStart == H3Init => DownInv /\ Down!Init
<1> SUFFICES ASSUME H3Init PROVE DownInv /\ Down!Init
  BY Zenon
<1>1. send = <<>> /\ downGot = <<>> /\ written = 0
      /\ shut = FALSE /\ gone = FALSE /\ downEof = FALSE
  BY Zenon DEF H3Init
<1>2. Len(<<>>) = 0 /\ <<>> \in Seq(Frames) /\ <<>> \in Seq(Nat)
  OBVIOUS
<1>3. Carried(<<>>, 0, 0)
  BY CarriedNone, Zenon
<1>4. send \in Seq(Frames) /\ downGot \in Seq(Nat) /\ written \in Nat
  BY <1>1, <1>2, Zenon
<1>5. Len(downGot) = 0 /\ 1..Len(send) = {}
  BY <1>1, <1>2
<1>6. Carried(send, Len(downGot), written)
  BY <1>1, <1>3, <1>5, Zenon
<1>7. DownInv
  BY <1>1, <1>4, <1>5, <1>6, Zenon DEF DownInv
<1>8. Down!Init
  BY <1>1, Zenon DEF Down!Init
<1> QED
  BY <1>7, <1>8, Zenon

\* Reading leaves the download alone.
LEMMA DownUntouched == DownInv /\ UNCHANGED writeVars => DownStep
<1> SUFFICES ASSUME DownInv, UNCHANGED writeVars PROVE DownStep
  BY Zenon
<1>1. /\ send' = send /\ written' = written /\ shut' = shut /\ gone' = gone
      /\ downGot' = downGot /\ downEof' = downEof
  BY Zenon DEF writeVars
<1>2. DownInv'
  BY <1>1, Zenon DEF DownInv
<1>3. UNCHANGED Down!vars
  BY <1>1, Zenon DEF Down!vars
<1> QED
  BY <1>2, <1>3, Zenon DEF DownStep

\* A write is a Send, an empty one nothing.
LEMMA DownWrite ==
    ASSUME DownInv, NEW n \in 0..MaxChunk, PollWrite(n)
    PROVE  DownStep
<1> DEFINE b == Body(Chunk(written, n), FALSE)
<1>0. MaxChunk \in Nat /\ n \in Nat
  BY H3Assumption
<1>1. /\ ~shut /\ ~gone /\ send' = Append(send, b) /\ written' = written + n
      /\ shut' = shut /\ gone' = gone /\ downGot' = downGot /\ downEof' = downEof
  BY Zenon DEF PollWrite
<1>2. /\ send \in Seq(Frames) /\ downGot \in Seq(Nat) /\ written \in Nat
      /\ Carried(send, Len(downGot), written)
      /\ ~downEof
  BY <1>1, Zenon DEF DownInv
<1>3. Chunk(written, n) \in Seq(Nat)
  BY <1>0, <1>2, ChunkType, Zenon
<1>4. b \in Frames /\ b.data = Chunk(written, n) /\ ~b.fin
  BY <1>3, Zenon DEF Frames, Body
<1> HIDE DEF b
<1>5. \A i \in 1..Len(send) : ~send[i].fin
  BY <1>1, Zenon DEF DownInv
<1>6. Len(downGot) \in Nat
  BY <1>2
<1>7. Carried(send', Len(downGot), written')
  BY <1>1, <1>2, <1>4, <1>5, <1>6, CarriedAppend, Zenon
<1>8. send' \in Seq(Frames) /\ \A i \in 1..Len(send') : ~send'[i].fin
  BY <1>1, <1>2, <1>4, <1>5, SMTT(20)
<1>9. DownInv'
  BY <1>0, <1>1, <1>2, <1>7, <1>8 DEF DownInv
<1>10. CASE n # 0
  <2>1. Down!Send(n) /\ n \in 1..MaxChunk
    BY <1>0, <1>1, <1>10 DEF Down!Send
  <2> QED
    BY <1>9, <2>1, Zenon DEF DownStep, Down!Next
<1>11. CASE n = 0
  <2>1. UNCHANGED Down!vars
    BY <1>1, <1>2, <1>11, SMTT(20) DEF Down!vars
  <2> QED
    BY <1>9, <2>1, Zenon DEF DownStep
<1> QED
  BY <1>10, <1>11, Zenon

\* A shutdown is a Close, also the second one.
LEMMA DownShut ==
    ASSUME DownInv, PollShutdown
    PROVE  DownStep
<1> DEFINE b == Body(<<>>, TRUE)
<1>0. MaxChunk \in Nat /\ 0 \in 0..MaxChunk
  BY H3Assumption
<1>1. /\ ~gone /\ send' = Append(send, b) /\ written' = written
      /\ shut' = TRUE /\ gone' = gone /\ downGot' = downGot /\ downEof' = downEof
  BY Zenon DEF PollShutdown
<1>2. /\ send \in Seq(Frames) /\ downGot \in Seq(Nat) /\ written \in Nat
      /\ Carried(send, Len(downGot), written)
      /\ \A i \in 1..Len(send) : send[i].fin => send[i].data = <<>>
  BY Zenon DEF DownInv
<1>3. <<>> \in Seq(Nat) /\ Chunk(written, 0) = <<>>
  BY <1>2, ChunkType, Zenon
<1>4. b \in Frames /\ b.data = <<>> /\ b.data = Chunk(written, 0)
  BY <1>3, Zenon DEF Frames, Body
<1> HIDE DEF b
<1>5. Len(downGot) \in Nat /\ written + 0 = written
  BY <1>2
<1>6. Carried(Append(send, b), Len(downGot), written + 0)
  BY <1>0, <1>2, <1>4, <1>5, CarriedAppend, Zenon
<1>7. send' \in Seq(Frames) /\ \A i \in 1..Len(send') : send'[i].fin => send'[i].data = <<>>
  BY <1>1, <1>2, <1>4
<1>8. DownInv'
  BY <1>1, <1>2, <1>5, <1>6, <1>7, Zenon DEF DownInv
<1>9. Down!Close(0)
  BY <1>1, <1>5, Zenon DEF Down!Close
<1> QED
  BY <1>0, <1>8, <1>9, Zenon DEF DownStep, Down!Next

\* A frame that is downGot is a Receive, the FIN an Eof.
LEMMA DownDelivers ==
    ASSUME DownInv, DriverDelivers
    PROVE  DownStep
<1> DEFINE g == Len(downGot)
<1>1. /\ ~gone /\ send # <<>> /\ send' = Tail(send)
      /\ downGot' = (IF downEof THEN downGot ELSE downGot \o Head(send).data)
      /\ downEof' = (downEof \/ Head(send).fin)
      /\ written' = written /\ shut' = shut /\ gone' = gone
  BY Zenon DEF DriverDelivers
<1>2. /\ send \in Seq(Frames) /\ downGot \in Seq(Nat) /\ written \in Nat
      /\ shut \in BOOLEAN /\ gone \in BOOLEAN /\ downEof \in BOOLEAN
      /\ Carried(send, g, written)
      /\ \A i \in 1..Len(send) : send[i].fin => shut /\ send[i].data = <<>>
      /\ downEof => shut /\ g = written
  BY Zenon DEF DownInv
<1>3. g \in Nat
  BY <1>2
<1>4. PICK n \in 0..MaxChunk : /\ Head(send).data = Chunk(g, n) /\ g + n <= written
                               /\ Head(send).fin => g + n = written
                               /\ Carried(Tail(send), g + n, written)
  BY <1>1, <1>2, <1>3, CarriedTail, Zenon
<1>5. n \in Nat /\ MaxChunk \in Nat
  BY H3Assumption, SMTT(20)
<1>6. /\ Tail(send) \in Seq(Frames) /\ 1 \in 1..Len(send) /\ Head(send) = send[1]
      /\ \A i \in 1..Len(Tail(send)) : i + 1 \in 1..Len(send) /\ Tail(send)[i] = send[i + 1]
  BY <1>1, <1>2
<1>7. send[1] \in Frames
  BY <1>2, <1>6
<1>8. Head(send).fin \in BOOLEAN /\ (Head(send).fin => shut /\ Head(send).data = <<>>)
  BY <1>2, <1>6, <1>7, Zenon DEF Frames
<1>9. Head(send).fin => n = 0
  BY <1>3, <1>4, <1>5, <1>8, ChunkType, Zenon
<1>10. /\ downGot \o Chunk(g, n) \in Seq(Nat) /\ Len(downGot \o Chunk(g, n)) = g + n
       /\ n = 0 => downGot \o Chunk(g, n) = downGot
  BY <1>2, <1>3, <1>5, ChunkAppended, Zenon
<1>11. \A i \in 1..Len(send') : send'[i].fin => shut /\ send'[i].data = <<>>
  BY <1>1, <1>2, <1>6, Zenon
<1> HIDE DEF g
<1>12. CASE downEof
  <2>1. n = 0 /\ g + n = g
    BY <1>2, <1>3, <1>4, <1>5, <1>12
  <2>2. downGot' = downGot /\ downEof' = downEof
    BY <1>1, <1>2, <1>12, Zenon
  <2>3. DownInv'
    BY <1>1, <1>2, <1>4, <1>6, <1>11, <2>1, <2>2, Zenon DEF DownInv, g
  <2>4. UNCHANGED Down!vars
    BY <1>1, <2>2, Zenon DEF Down!vars
  <2> QED
    BY <2>3, <2>4, Zenon DEF DownStep
<1>13. CASE ~downEof
  <2>1. downGot' = downGot \o Chunk(g, n) /\ downEof' = Head(send).fin
    BY <1>1, <1>4, <1>8, <1>13, Zenon
  <2>2. downGot' \in Seq(Nat) /\ Len(downGot') = g + n
    BY <1>10, <2>1, Zenon
  <2>3. DownInv'
    BY <1>1, <1>2, <1>4, <1>6, <1>8, <1>11, <2>1, <2>2, Zenon DEF DownInv
  <2>4. CASE Head(send).fin
    <3>1. downGot' = downGot /\ g = written /\ shut /\ downEof' = TRUE
      BY <1>3, <1>4, <1>8, <1>9, <1>10, <2>1, <2>4, SMTT(20)
    <3>2. Down!Eof
      BY <1>1, <3>1, Zenon DEF Down!Eof, g
    <3> QED
      BY <2>3, <3>2, Zenon DEF DownStep, Down!Next
  <2>5. CASE ~Head(send).fin /\ n = 0
    <3>1. downGot' = downGot /\ downEof' = downEof
      BY <1>2, <1>8, <1>10, <1>13, <2>1, <2>5, Zenon
    <3>2. UNCHANGED Down!vars
      BY <1>1, <3>1, Zenon DEF Down!vars
    <3> QED
      BY <2>3, <3>2, Zenon DEF DownStep
  <2>6. CASE ~Head(send).fin /\ n # 0
    <3>1. downEof' = downEof /\ n \in 1..MaxChunk
      BY <1>2, <1>5, <1>8, <1>13, <2>1, <2>6, SMTT(20)
    <3>2. Down!Receive(n)
      BY <1>1, <1>4, <1>13, <2>1, <3>1, Zenon DEF Down!Receive, Chunk, g
    <3> QED
      BY <2>3, <3>1, <3>2, Zenon DEF DownStep, Down!Next
  <2> QED
    BY <2>4, <2>5, <2>6, Zenon
<1> QED
  BY <1>2, <1>12, <1>13, Zenon

\* A writer that is gone breaks the stream.
LEMMA DownGone ==
    ASSUME DownInv, WriterGone
    PROVE  DownStep
<1>1. /\ ~gone /\ gone' = TRUE /\ send' = send /\ written' = written
      /\ shut' = shut /\ downGot' = downGot /\ downEof' = downEof
  BY Zenon DEF WriterGone
<1>2. DownInv'
  BY <1>1, Zenon DEF DownInv
<1>3. Down!Break
  BY <1>1, Zenon DEF Down!Break
<1> QED
  BY <1>2, <1>3, Zenon DEF DownStep, Down!Next

\* Every step of the adapters is one of the download's byte stream, or none.
LEMMA DownNext == DownInv /\ [H3Next]_h3Vars => DownStep
<1> SUFFICES ASSUME DownInv, [H3Next]_h3Vars PROVE DownStep
  BY Zenon
<1>1. CASE UNCHANGED writeVars
  BY <1>1, DownUntouched, Zenon
<1>2. CASE Write
  BY <1>2, DownShut, DownWrite, Zenon DEF Write
<1>3. CASE Read
  <2>1. UNCHANGED writeVars
    BY <1>3, Zenon DEF Read, PullFrame, PollReadEof, ReadBuf
  <2> QED
    BY <1>1, <2>1, Zenon
<1>4. CASE (\E n \in 0..MaxChunk, f \in BOOLEAN : DriverBody(n, f)) \/ DriverDatagram
               \/ DriverDropsSender
  <2>1. UNCHANGED writeVars
    BY <1>4, Zenon DEF DriverBody, DriverDatagram, DriverDropsSender
  <2> QED
    BY <1>1, <2>1, Zenon
<1>5. CASE Driver
  BY <1>4, <1>5, DownDelivers, DownGone, Zenon DEF Driver
<1> QED
  BY <1>1, <1>2, <1>3, <1>5, Zenon DEF H3Next, h3Vars

\* The writer implements the byte stream: every write is a Send, every shutdown a
\* Close, also the second one, and the client gets the FIN after the last byte
\* (quiche_stream.rs:115-166).
THEOREM DownloadIsByteStream == H3Spec => DownloadIsStream
<1>1. H3Init => DownInv /\ Down!Init
  BY DownStart, Zenon
<1>2. DownInv /\ [H3Next]_h3Vars => DownInv' /\ [Down!Next]_Down!vars
  BY DownNext, Zenon DEF DownStep
<1> QED
  BY <1>1, <1>2, PTL DEF H3Spec, DownloadIsStream, Down!Spec
=============================================================================
