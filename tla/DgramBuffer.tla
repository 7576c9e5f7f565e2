----------------------------- MODULE DgramBuffer -----------------------------
(***************************************************************************)
(* DgramBuffer of the vendored datagram-socket crate: a vector with a      *)
(* cursor, the bytes before the cursor being headroom for prefixes.        *)
(* Callers' counts are of the size of buffers: the sums below are far from *)
(* the top of usize, where a release build wraps.                          *)
(***************************************************************************)
EXTENDS Integers, Sequences

CONSTANTS ByteVals,  \* byte values a caller writes
          MaxWrite,  \* bound on the bytes a caller writes at once
          MaxLen,    \* bound on the length of data
          WordBits   \* width of usize

\* The last conjunct is what Vec guarantees: its length is at most half of usize.
ASSUME BufferAssumption ==
    /\ ByteVals \subseteq Nat
    /\ MaxWrite \in Nat
    /\ MaxLen \in Nat /\ MaxLen >= MaxWrite
    /\ WordBits \in Nat
    /\ 2 * MaxLen < 2^WordBits

VARIABLE buf  \* [data, start]

Zeros(n) == [i \in 1..n |-> 0]
Payloads == UNION {[1..n -> ByteVals] : n \in 0..MaxWrite}
Shorter(m, n) == IF m < n THEN m ELSE n

\* new and clear, with_capacity_and_headroom, from_slice and From<Vec>,
\* from_vec_with_headroom.
Empty == [data |-> <<>>, start |-> 0]
with_headroom(h) == [data |-> Zeros(h), start |-> h]
from_vec_with_headroom(v, h) == [data |-> v, start |-> h]

len(b) == Len(b.data) - b.start
as_slice(b) == SubSeq(b.data, b.start + 1, Len(b.data))

truncate(b, count) ==
    [data  |-> SubSeq(b.data, 1, Shorter((b.start + count) % 2^WordBits, Len(b.data))),
     start |-> b.start]

advance(b, count) == [data |-> b.data, start |-> (b.start + count) % 2^WordBits]

try_add_prefix(b, prefix) ==
    LET start == b.start - Len(prefix)
    IN [data  |-> SubSeq(b.data, 1, start) \o prefix \o as_slice(b),
        start |-> start]

\* Faulty variant: the zeros are put before the old headroom, not over it.
splice_before(b, headroom) ==
    IF b.start >= headroom THEN b
    ELSE [data |-> Zeros(headroom) \o b.data, start |-> headroom]

splice_headroom(b, headroom) ==
    IF b.start >= headroom THEN b
    ELSE [data |-> Zeros(headroom) \o as_slice(b), start |-> headroom]

put(b, bytes) == [data |-> b.data \o bytes, start |-> b.start]

-----------------------------------------------------------------------------
BufInit ==
    \/ buf = Empty
    \/ \E h \in 1..MaxLen : buf = with_headroom(h)
    \/ \E v \in Payloads : \E h \in 0..Len(v) : buf = from_vec_with_headroom(v, h)

Truncate == \E count \in 0..MaxLen : buf' = truncate(buf, count)

\* More than len panics.
Advance == \E count \in 0..len(buf) : buf' = advance(buf, count)

\* Too little headroom is an error that changes nothing.
AddPrefix ==
    \E prefix \in Payloads :
        /\ buf.start >= Len(prefix)
        /\ buf' = try_add_prefix(buf, prefix)

Splice ==
    \E headroom \in 0..MaxLen :
        /\ headroom + len(buf) <= MaxLen
        /\ buf' = splice_headroom(buf, headroom)

Put ==
    \E bytes \in Payloads :
        /\ Len(buf.data) + Len(bytes) <= MaxLen
        /\ buf' = put(buf, bytes)

Clear == buf' = Empty

BufNext == Truncate \/ Advance \/ AddPrefix \/ Splice \/ Put \/ Clear

BufSpec == BufInit /\ [][BufNext]_buf

-----------------------------------------------------------------------------
\* What the crate's users rely on, stated without vector and cursor: the
\* readable bytes and the amount of headroom before them.
Steps(bytes, room, bytesAfter, roomAfter) ==
    \/ \E n \in 0..Len(bytes) : bytesAfter = SubSeq(bytes, 1, n) /\ roomAfter = room
    \/ \E n \in 0..Len(bytes) :
          /\ bytesAfter = SubSeq(bytes, n + 1, Len(bytes))
          /\ roomAfter = room + n
    \/ \E p \in Payloads :
          /\ Len(p) <= room
          /\ bytesAfter = p \o bytes /\ roomAfter = room - Len(p)
    \/ bytesAfter = bytes /\ roomAfter >= room
    \/ \E p \in Payloads : bytesAfter = bytes \o p /\ roomAfter = room
    \/ bytesAfter = <<>> /\ roomAfter = 0

\* Through any sequence of operations the readable bytes change only as each
\* operation says (a cut at the end, a consumed or added prefix, an appended
\* suffix) and never by what lies in the headroom; splice_headroom moves them
\* without touching them.
PayloadKept ==
    [][Steps(as_slice(buf), buf.start, as_slice(buf'), buf'.start)]_buf
=============================================================================
