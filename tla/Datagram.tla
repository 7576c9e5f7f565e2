------------------------------ MODULE Datagram -------------------------------
(***************************************************************************)
(* The batched socket calls of the vendored datagram-socket crate:         *)
(* recvmmsg and sendmmsg in chunks of MAX_MMSG under poll_recvmmsg! and    *)
(* poll_sendmmsg! ("mmsg", what UdpSocket and UnixDatagram use on Linux),  *)
(* the trait's one-by-one poll_recv_many and poll_send_many ("each") and   *)
(* RawPoolBufDatagramIo::poll_recv_datagrams ("pool").                     *)
(*                                                                         *)
(* A socket direction is used by one task.  A step is a system call, a     *)
(* look at tokio's readiness flag, or a step of the kernel or of tokio's   *)
(* driver, so datagrams, errors and readiness events arrive between any    *)
(* two of them.  A datagram is the index of its buffer in the batch.       *)
(***************************************************************************)
EXTENDS Integers, FiniteSets

CONSTANTS MAX_MMSG,   \* datagrams per system call
          MaxBatch,   \* bound on the length of bufs
          QueueCap    \* of the kernel's receive queue, or send buffer

ASSUME DatagramAssumption ==
    /\ MAX_MMSG \in Nat \ {0}
    /\ MaxBatch \in Nat \ {0}
    /\ QueueCap \in Nat \ {0}

VARIABLES dir,    \* "recv" or "send"
          impl,   \* the implementation of the batched call
          tries,  \* the call is try_send or try_send_many
          kern,   \* datagrams queued in the kernel, or free slots for them
          err,    \* the socket has a pending error
          event,  \* epoll has an event the driver did not deliver yet
          ready,  \* tokio's readiness flag
          fresh,  \* the driver set it after the call last looked
          waker,  \* the task is registered with the flag
          pc,     \* "idle", "poll", "io", "blocked", "waiting"
          want,   \* bufs.len()
          off,    \* start of the current chunk
          moved,  \* ret, sent or read
          used,   \* buffers that a system call filled or sent
          res     \* what the last call returned

world == <<dir, impl, tries>>
flags == <<ready, fresh, waker>>
call == <<want, off, moved, used>>
sockVars == <<world, kern, err, event, flags, pc, call, res>>

Idle(r) == pc' = "idle" /\ res' = r

SockInit ==
    /\ dir \in {"recv", "send"}
    /\ impl \in {"mmsg", "each"} \cup (IF dir = "recv" THEN {"pool"} ELSE {})
    /\ tries \in IF dir = "send" THEN BOOLEAN ELSE {FALSE}
    /\ kern = IF dir = "send" THEN QueueCap ELSE 0
    /\ event = (dir = "send")
    /\ err = FALSE /\ ready = FALSE /\ fresh = FALSE /\ waker = FALSE
    /\ pc = "idle" /\ want = 0 /\ off = 0 /\ moved = 0 /\ used = {}
    /\ res = [kind |-> "none", n |-> 0]

-----------------------------------------------------------------------------
(* The kernel and tokio's driver.                                           *)

\* A datagram is queued, or one that was sent leaves its slot.
KernelMoves ==
    /\ kern < QueueCap
    /\ kern' = kern + 1
    /\ event' = TRUE
    /\ UNCHANGED <<world, err, flags, pc, call, res>>

\* An ICMP error, say; a second one replaces the first.
KernelFails ==
    /\ err' = TRUE
    /\ event' = TRUE
    /\ UNCHANGED <<world, kern, flags, pc, call, res>>

Driver ==
    /\ event
    /\ event' = FALSE
    /\ ready' = TRUE /\ fresh' = TRUE /\ waker' = FALSE
    /\ pc' = IF pc = "waiting" /\ waker THEN "poll" ELSE pc
    /\ UNCHANGED <<world, kern, err, call, res>>

-----------------------------------------------------------------------------
(* A batched call.                                                          *)

Chunk == IF impl = "mmsg" THEN MAX_MMSG ELSE 1

Begin(n) ==
    /\ pc = "idle"
    /\ pc' = "poll"
    /\ want' = n /\ off' = 0 /\ moved' = 0 /\ used' = {}
    /\ UNCHANGED <<world, kern, err, event, flags, res>>

\* poll_recv_ready or poll_send_ready says Ready.
PollReady ==
    /\ pc = "poll" /\ ready
    /\ pc' = "io"
    /\ fresh' = FALSE
    /\ UNCHANGED <<world, kern, err, event, ready, waker, call, res>>

\* It says Pending and keeps the waker.  A loop that already moved datagrams
\* returns their number; now_or_never turns Pending into WouldBlock.
PollPending ==
    /\ pc = "poll" /\ ~ready
    /\ waker' = ~tries
    /\ \/ moved > 0 /\ Idle([kind |-> "ok", n |-> moved])
       \/ moved = 0 /\ tries /\ Idle([kind |-> "WouldBlock", n |-> 0])
       \/ moved = 0 /\ ~tries /\ pc' = "waiting" /\ UNCHANGED res
    /\ UNCHANGED <<world, kern, err, event, ready, fresh, call>>

\* Faulty variant: a short chunk does not end the loop over the chunks.
IoMovesOn(n) ==
    /\ pc = "io" /\ ~err
    /\ n \in 1..kern /\ n <= Chunk /\ off + n <= want
    /\ kern' = kern - n
    /\ used' = used \cup (off + 1)..(off + n)
    /\ moved' = moved + n
    /\ off' = off + Chunk
    /\ IF off' >= want
       THEN Idle([kind |-> "ok", n |-> moved'])
       ELSE /\ pc' = IF impl = "mmsg" THEN "io" ELSE "poll"
            /\ UNCHANGED res
    /\ UNCHANGED <<world, err, event, flags, want>>

\* The system call moves n datagrams of the chunk, perhaps fewer than it could.
\* The next chunk follows only a full one.
IoMoves(n) ==
    /\ pc = "io" /\ ~err
    /\ n \in 1..kern /\ n <= Chunk /\ off + n <= want
    /\ kern' = kern - n
    /\ used' = used \cup (off + 1)..(off + n)
    /\ moved' = moved + n
    /\ off' = off + Chunk
    /\ IF n < Chunk \/ off' >= want
       THEN Idle([kind |-> "ok", n |-> moved'])
       ELSE /\ pc' = IF impl = "mmsg" THEN "io" ELSE "poll"
            /\ UNCHANGED res
    /\ UNCHANGED <<world, err, event, flags, want>>

\* It fails with the socket's error, which is thereby gone.  After a full chunk
\* or a first datagram the count is returned instead, except by the trait's
\* poll_recv_many.
IoFails ==
    /\ pc = "io" /\ err
    /\ err' = FALSE
    /\ Idle(IF moved > 0 /\ ~(impl = "each" /\ dir = "recv")
            THEN [kind |-> "ok", n |-> moved]
            ELSE [kind |-> "error", n |-> 0])
    /\ UNCHANGED <<world, kern, event, flags, call>>

\* EAGAIN: after a full chunk the count is returned.
IoEmpty ==
    /\ pc = "io" /\ ~err /\ kern = 0
    /\ IF impl = "mmsg" /\ moved > 0
       THEN Idle([kind |-> "ok", n |-> moved])
       ELSE pc' = "blocked" /\ UNCHANGED res
    /\ UNCHANGED <<world, kern, err, event, flags, call>>

\* Faulty variant: WouldBlock from try_io is turned into Pending.
BlockedPending ==
    /\ pc = "blocked"
    /\ ready' = fresh
    /\ pc' = "waiting"
    /\ UNCHANGED <<world, kern, err, event, fresh, waker, call, res>>

\* try_io clears the flag unless the driver has set it again, and the loop looks
\* at it once more: that look registers the waker.
Blocked ==
    /\ pc = "blocked"
    /\ ready' = fresh
    /\ pc' = "poll"
    /\ UNCHANGED <<world, kern, err, event, fresh, waker, call, res>>

CallStep ==
    \/ PollReady \/ PollPending
    \/ \E n \in 1..MAX_MMSG : IoMoves(n)
    \/ IoFails \/ IoEmpty \/ Blocked

SockNext ==
    \/ KernelMoves \/ KernelFails \/ Driver
    \/ \E n \in 1..MaxBatch : Begin(n)
    \/ CallStep

SockSpec == SockInit /\ [][SockNext]_sockVars

\* The driver delivers the events it has, and a task that is not waiting runs.
SockFairness == WF_sockVars(Driver) /\ WF_sockVars(CallStep)

-----------------------------------------------------------------------------
\* A batched call that returns n has filled or sent exactly the first n buffers,
\* whatever chunk a short count, an error or an empty queue came in: a caller
\* that goes on at buffer n + 1 repeats no datagram and skips none.  A call that
\* returns an error has moved nothing, except the trait's poll_recv_many, which
\* drops what it read before the error.  Only a try call says WouldBlock.
ResultExact ==
    pc = "idle" =>
        /\ res.kind = "ok" => res.n > 0 /\ used = 1..res.n
        /\ res.kind = "error" => used = {} \/ (impl = "each" /\ dir = "recv")
        /\ res.kind = "WouldBlock" => tries /\ used = {}

\* No wake-up is lost between the empty answer, the clearing of the readiness
\* flag and the registration of the waker: a call returns once the kernel has a
\* datagram, or a slot, for it.
CallReturns == (pc # "idle" /\ kern > 0) ~> pc = "idle"
=============================================================================
