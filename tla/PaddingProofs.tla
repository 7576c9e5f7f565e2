---------------------------- MODULE PaddingProofs ----------------------------
(***************************************************************************)
(* Theorems about Padding, for any number of frames, any radix of a byte,  *)
(* any sizes of writes and reads and any way the inner stream cuts them.   *)
(*                                                                         *)
(* The invariant says what is on its way from the writer to the reader.    *)
(* There are functions co and cp over the frames written: the first i      *)
(* frames are co[i] bytes of the wire, and carry cp[i] bytes of payload.   *)
(* After the last frame the payload follows raw.  The reader has taken the *)
(* first R bytes of all that; its phase tells where in a frame it is.      *)
(***************************************************************************)
EXTENDS Padding, SequenceTheorems, TLAPS

WireByte == [val : 0..(Radix - 1), byte : Nat]

\* What the writer has accepted and the reader has not taken.
Rest == wire \o SubSeq(write_pending, write_pending_off + 1, Len(write_pending))

\* Payload and padding of frame i + 1.
DataOf(cp, i) == cp[i+1] - cp[i]
PadOf(co, cp, i) == co[i+1] - co[i] - 3 - DataOf(cp, i)

Layout(co, cp, w) ==
    /\ co \in [0..w -> Nat]
    /\ cp \in [0..w -> Nat]
    /\ co[0] = 0
    /\ cp[0] = 0
    /\ \A i \in 0..w-1 : DataOf(cp, i) \in Nat /\ PadOf(co, cp, i) \in Nat
    /\ \A i, j \in 0..w : i <= j => co[i] <= co[j] /\ cp[i] <= cp[j]

\* Byte p of the wire, when rest follows byte R.
At(rest, R, p) == rest[p - R]

\* What follows byte R2 in rest2 is what follows it in rest, up to byte b.
SameUpTo(rest2, R2, rest, R, b) ==
    \A p \in Int : R2 < p /\ p <= b => At(rest2, R2, p) = At(rest, R, p)

\* The part of frame i + 1 that rest holds.
FrameAt(rest, R, co, cp, i) ==
    /\ R < co[i] + 1 => At(rest, R, co[i] + 1).val = DataOf(cp, i) \div Radix
    /\ R < co[i] + 2 => At(rest, R, co[i] + 2).val = DataOf(cp, i) % Radix
    /\ R < co[i] + 3 => At(rest, R, co[i] + 3).val = PadOf(co, cp, i)
    /\ \A x \in 1..DataOf(cp, i) :
          R < co[i] + 3 + x => At(rest, R, co[i] + 3 + x).byte = cp[i] + x

\* rest holds what follows byte R of w frames and the raw payload up to total.
Carries(rest, R, co, cp, w, total) ==
    /\ R + Len(rest) = co[w] + (total - cp[w])
    /\ \A i \in 0..w-1 : FrameAt(rest, R, co, cp, i)
    /\ \A x \in 1..(total - cp[w]) :
          R < co[w] + x => At(rest, R, co[w] + x).byte = cp[w] + x

\* All payload so far is in frames.
AllFramed(cp, w, total) == total = cp[w]

\* Where the reader is, after R bytes: inside the data of the last frame it has
\* the header of,
InData(R, co, cp) ==
    LET r == read_frames_done
    IN /\ r > 0
       /\ read_data_rem > 0
       /\ read_skip_rem = 0
       /\ read_hdr = <<>>
       /\ read_pending_skip = PadOf(co, cp, r - 1)
       /\ read_data_rem <= DataOf(cp, r - 1)
       /\ Len(decoded) = cp[r] - read_data_rem
       /\ R = co[r] - read_pending_skip - read_data_rem

\* inside its padding,
InPadding(R, co, cp) ==
    /\ read_data_rem = 0
    /\ read_pending_skip = 0
    /\ read_skip_rem > 0
    /\ read_hdr = <<>>
    /\ Len(decoded) = cp[read_frames_done]
    /\ R = co[read_frames_done] - read_skip_rem

\* before or inside the header of the next frame,
InHeader(R, co, cp) ==
    LET r == read_frames_done
    IN /\ r < PADDING_FRAMES
       /\ read_data_rem = 0
       /\ read_pending_skip = 0
       /\ read_skip_rem = 0
       /\ Len(decoded) = cp[r]
       /\ Len(read_hdr) < 3
       /\ R = co[r] + Len(read_hdr)
       /\ Len(read_hdr) > 0 => r < write_frames_done /\ read_hdr[1] = DataOf(cp, r) \div Radix
       /\ Len(read_hdr) > 1 => read_hdr[2] = DataOf(cp, r) % Radix

\* or past the last frame.
InRaw(R, co, cp) ==
    LET r == read_frames_done
    IN /\ r = PADDING_FRAMES
       /\ read_data_rem = 0
       /\ read_pending_skip = 0
       /\ read_skip_rem = 0
       /\ read_hdr = <<>>
       /\ Len(decoded) >= cp[r]
       /\ R = co[r] + (Len(decoded) - cp[r])

ReaderAt(R, co, cp) ==
    /\ read_frames_done <= write_frames_done
    /\ InData(R, co, cp) \/ InPadding(R, co, cp) \/ InHeader(R, co, cp) \/ InRaw(R, co, cp)

TypeOK ==
    /\ write_frames_done \in 0..PADDING_FRAMES
    /\ write_pending \in Seq(WireByte)
    /\ write_pending_off \in Nat
    /\ write_pending = <<>> => write_pending_off = 0
    /\ write_pending # <<>> => write_pending_off < Len(write_pending)
    /\ written \in Nat
    /\ read_frames_done \in 0..PADDING_FRAMES
    /\ read_hdr \in Seq(Nat)
    /\ read_data_rem \in Nat
    /\ read_skip_rem \in Nat
    /\ read_pending_skip \in Nat
    /\ decoded \in Seq(Nat)
    /\ wire \in Seq(WireByte)
    /\ fin \in BOOLEAN
    /\ broken \in BOOLEAN
    /\ eof \in BOOLEAN
    /\ broken => fin
    /\ fin /\ ~ broken => write_pending = <<>>

\* Payload comes out in the order it went in.
InOrder == \A i \in 1..Len(decoded) : decoded[i] = i

\* The two ends agree on the layout of what is between them.
Consistent(R, co, cp) ==
    /\ Layout(co, cp, write_frames_done)
    /\ write_frames_done < PADDING_FRAMES => AllFramed(cp, write_frames_done, written)
    /\ written >= cp[write_frames_done]
    /\ Carries(Rest, R, co, cp, write_frames_done, written)
    /\ ReaderAt(R, co, cp)

PadInv ==
    /\ TypeOK
    /\ InOrder
    /\ \E R \in Nat :
          \E co, cp \in [0..write_frames_done -> Nat] : Consistent(R, co, cp)

-----------------------------------------------------------------------------
(* Sequences                                                                *)

(* What is left of a sequence without its first n elements.                 *)
LEMMA DropProperties ==
  ASSUME NEW S, NEW s \in Seq(S), NEW n \in 0..Len(s)
  PROVE  /\ SubSeq(s, n + 1, Len(s)) \in Seq(S)
         /\ Len(SubSeq(s, n + 1, Len(s))) = Len(s) - n
         /\ \A i \in 1..(Len(s) - n) : SubSeq(s, n + 1, Len(s))[i] = s[i + n]
<1> DEFINE d == SubSeq(s, n + 1, Len(s))
<1>1. Len(s) \in Nat /\ n \in Nat /\ n <= Len(s)  OBVIOUS
<1>2. \A i \in n+1..Len(s) : s[i] \in S  OBVIOUS
<1>3. /\ d \in Seq(S)
      /\ Len(d) = IF n + 1 <= Len(s) THEN Len(s) - (n + 1) + 1 ELSE 0
      /\ \A i \in 1..(Len(s) - (n + 1) + 1) : d[i] = s[(n + 1) + i - 1]
  BY <1>1, <1>2, SubSeqProperties
<1> HIDE DEF d
<1>4. Len(d) = Len(s) - n  BY <1>1, <1>3
<1>5. ASSUME NEW i \in 1..(Len(s) - n) PROVE d[i] = s[i + n]
  <2>1. i \in 1..(Len(s) - (n + 1) + 1) /\ (n + 1) + i - 1 = i + n  BY <1>1
  <2> QED BY <1>3, <2>1, Zenon
<1> QED BY <1>3, <1>4, <1>5, Zenon DEF d

(* Dropping from a sequence that another one follows.                        *)
LEMMA DropConcat ==
  ASSUME NEW S, NEW s \in Seq(S), NEW t \in Seq(S), NEW n \in 0..Len(s)
  PROVE  SubSeq(s \o t, n + 1, Len(s \o t)) = SubSeq(s, n + 1, Len(s)) \o t
<1> DEFINE a == SubSeq(s \o t, n + 1, Len(s \o t))
           d == SubSeq(s, n + 1, Len(s))
<1>1. Len(s) \in Nat /\ Len(t) \in Nat /\ n \in Nat /\ n <= Len(s)  OBVIOUS
<1>2. /\ s \o t \in Seq(S) /\ Len(s \o t) = Len(s) + Len(t)
      /\ \A i \in 1..(Len(s) + Len(t)) :
            (s \o t)[i] = IF i <= Len(s) THEN s[i] ELSE t[i - Len(s)]
  BY ConcatProperties, Zenon
<1>3. n \in 0..Len(s \o t)  BY <1>1, <1>2
<1>4. /\ a \in Seq(S) /\ Len(a) = (Len(s) + Len(t)) - n
      /\ \A i \in 1..((Len(s) + Len(t)) - n) : a[i] = (s \o t)[i + n]
  <2> DEFINE st == s \o t
  <2> HIDE DEF st
  <2>1. st \in Seq(S) /\ n \in 0..Len(st) /\ Len(st) = Len(s) + Len(t)  BY <1>2, <1>3, Zenon DEF st
  <2>2. /\ SubSeq(st, n + 1, Len(st)) \in Seq(S)
        /\ Len(SubSeq(st, n + 1, Len(st))) = Len(st) - n
        /\ \A i \in 1..(Len(st) - n) : SubSeq(st, n + 1, Len(st))[i] = st[i + n]
    BY <2>1, DropProperties, Zenon
  <2>3. st = s \o t  BY Zenon DEF st
  <2>4. a = SubSeq(st, n + 1, Len(st))  BY <2>3, Zenon
  <2> HIDE DEF a
  <2> QED BY <2>1, <2>2, <2>3, <2>4, Zenon
<1>5. /\ d \in Seq(S) /\ Len(d) = Len(s) - n
      /\ \A i \in 1..(Len(s) - n) : d[i] = s[i + n]
  BY DropProperties, Zenon
<1> HIDE DEF a, d
<1>6. /\ d \o t \in Seq(S) /\ Len(d \o t) = Len(d) + Len(t)
      /\ \A i \in 1..(Len(d) + Len(t)) :
            (d \o t)[i] = IF i <= Len(d) THEN d[i] ELSE t[i - Len(d)]
  BY <1>5, ConcatProperties, Zenon
<1>7. Len(a) = Len(d \o t)  BY <1>1, <1>4, <1>5, <1>6
<1>8. ASSUME NEW i \in 1..Len(a) PROVE a[i] = (d \o t)[i]
  <2>1. i \in 1..((Len(s) + Len(t)) - n) /\ i + n \in 1..(Len(s) + Len(t))
        /\ i \in 1..(Len(d) + Len(t))
    BY <1>1, <1>4, <1>5
  <2>2. a[i] = IF i + n <= Len(s) THEN s[i + n] ELSE t[(i + n) - Len(s)]
    <3>1. a[i] = (s \o t)[i + n]  BY <1>4, <2>1, Zenon
    <3>2. (s \o t)[i + n] = IF i + n <= Len(s) THEN s[i + n] ELSE t[(i + n) - Len(s)]
      BY <1>2, <2>1, Zenon
    <3> QED BY <3>1, <3>2, Zenon
  <2>3. (d \o t)[i] = IF i <= Len(d) THEN d[i] ELSE t[i - Len(d)]  BY <1>6, <2>1, Zenon
  <2>4. CASE i <= Len(s) - n
    <3>1. i \in 1..(Len(s) - n) /\ i + n <= Len(s) /\ i <= Len(d)  BY <1>1, <1>5, <2>1, <2>4
    <3> QED BY <1>5, <2>2, <2>3, <3>1, Zenon
  <2>5. CASE ~ (i <= Len(s) - n)
    <3>1. ~ (i + n <= Len(s)) /\ ~ (i <= Len(d)) /\ i - Len(d) = (i + n) - Len(s)
      BY <1>1, <1>5, <2>1, <2>5
    <3> QED BY <2>2, <2>3, <3>1, Zenon
  <2> QED BY <2>4, <2>5, Zenon
<1>9. a = d \o t  BY <1>4, <1>6, <1>7, <1>8, SeqEqual, Zenon
<1> QED BY <1>9, Zenon DEF a, d

(* The two parts of a sequence cut after n elements.                         *)
LEMMA CutConcat ==
  ASSUME NEW S, NEW s \in Seq(S), NEW n \in 0..Len(s)
  PROVE  /\ SubSeq(s, 1, n) \in Seq(S)
         /\ SubSeq(s, n + 1, Len(s)) \in Seq(S)
         /\ SubSeq(s, 1, n) \o SubSeq(s, n + 1, Len(s)) = s
<1>1. Len(s) \in Nat /\ n \in Nat  OBVIOUS
<1>2. 1 \in 1..Len(s)+1 /\ n \in 1-1..Len(s) /\ Len(s) \in n..Len(s)  BY <1>1
<1>3. SubSeq(s, 1, n) \o SubSeq(s, n + 1, Len(s)) = SubSeq(s, 1, Len(s))
  BY <1>2, ConcatAdjacentSubSeq, Zenon
<1>4. SubSeq(s, 1, Len(s)) = s  BY SubSeqFull, Zenon
<1>5. SubSeq(s, n + 1, Len(s)) \in Seq(S)  BY DropProperties, Zenon
<1>6. SubSeq(s, 1, n) \in Seq(S)
  <2>1. \A i \in 1..n : s[i] \in S  OBVIOUS
  <2> QED BY <1>1, <2>1, SubSeqProperties
<1> QED BY <1>3, <1>4, <1>5, <1>6, Zenon

-----------------------------------------------------------------------------
(* The layout of the wire                                                   *)

(* A frame ends before the raw payload begins.                               *)
LEMMA FrameBounds ==
  ASSUME NEW w \in Nat, NEW co \in [0..w -> Nat], NEW cp \in [0..w -> Nat],
         Layout(co, cp, w), NEW i \in 0..w-1
  PROVE  /\ co[i] \in Nat /\ cp[i] \in Nat /\ co[w] \in Nat /\ cp[w] \in Nat
         /\ co[i+1] \in Nat /\ cp[i+1] \in Nat
         /\ DataOf(cp, i) \in Nat /\ PadOf(co, cp, i) \in Nat
         /\ cp[i+1] = cp[i] + DataOf(cp, i)
         /\ co[i+1] = co[i] + 3 + DataOf(cp, i) + PadOf(co, cp, i)
         /\ co[i] + 3 + DataOf(cp, i) <= co[w]
         /\ co[i+1] <= co[w] /\ cp[i+1] <= cp[w]
<1>1. i \in 0..w /\ i + 1 \in 0..w /\ w \in 0..w /\ i + 1 <= w  OBVIOUS
<1>2. /\ co[i] \in Nat /\ cp[i] \in Nat /\ co[w] \in Nat /\ cp[w] \in Nat
      /\ co[i+1] \in Nat /\ cp[i+1] \in Nat
  BY <1>1, Zenon DEF Layout
<1>3. DataOf(cp, i) \in Nat /\ PadOf(co, cp, i) \in Nat  BY Zenon DEF Layout
<1>4. co[i+1] <= co[w] /\ cp[i+1] <= cp[w]  BY <1>1, Zenon DEF Layout
<1> DEFINE c == co[i]  c1 == co[i+1]  e == co[w]  g == cp[i]  g1 == cp[i+1]  D == DataOf(cp, i)
           P == PadOf(co, cp, i)
<1>5. /\ c \in Nat /\ c1 \in Nat /\ e \in Nat /\ g \in Nat /\ g1 \in Nat /\ D \in Nat /\ P \in Nat
      /\ D = g1 - g /\ P = c1 - c - 3 - D /\ c1 <= e
  BY <1>2, <1>3, <1>4, Zenon DEF DataOf, PadOf
<1> HIDE DEF c, c1, e, g, g1, D, P
<1>6. g1 = g + D /\ c1 = c + 3 + D + P /\ c + 3 + D <= e  BY <1>5
<1> QED BY <1>2, <1>3, <1>4, <1>6, Zenon DEF c, c1, e, g, g1, D, P

(* A frame is still there when its bytes are.                                *)
LEMMA FrameKept ==
  ASSUME NEW w \in Nat, NEW co \in [0..w -> Nat], NEW cp \in [0..w -> Nat],
         Layout(co, cp, w), NEW i \in 0..w-1, NEW R \in Nat, NEW R2 \in Nat, R <= R2,
         NEW rest, NEW rest2, FrameAt(rest, R, co, cp, i),
         SameUpTo(rest2, R2, rest, R, co[w])
  PROVE  FrameAt(rest2, R2, co, cp, i)
<1>1. /\ co[i] \in Nat /\ DataOf(cp, i) \in Nat /\ co[w] \in Nat
      /\ co[i] + 3 + DataOf(cp, i) <= co[w]
  BY FrameBounds, Zenon
<1>2. /\ co[i] + 1 <= co[w] /\ co[i] + 2 <= co[w] /\ co[i] + 3 <= co[w]
      /\ co[i] + 1 \in Int /\ co[i] + 2 \in Int /\ co[i] + 3 \in Int
  <2> DEFINE c == co[i]  e == co[w]  D == DataOf(cp, i)
  <2>1. c \in Nat /\ D \in Nat /\ e \in Nat /\ c + 3 + D <= e  BY <1>1, Zenon
  <2> HIDE DEF c, e, D
  <2>2. /\ c + 1 <= e /\ c + 2 <= e /\ c + 3 <= e
        /\ c + 1 \in Int /\ c + 2 \in Int /\ c + 3 \in Int
    BY <2>1
  <2> QED BY <2>2, Zenon DEF c, e
<1>3. ASSUME NEW x \in 1..DataOf(cp, i)
      PROVE  co[i] + 3 + x <= co[w] /\ co[i] + 3 + x \in Int
  <2> DEFINE c == co[i]  e == co[w]  D == DataOf(cp, i)
  <2>1. c \in Nat /\ D \in Nat /\ e \in Nat /\ c + 3 + D <= e /\ x \in 1..D  BY <1>1, Zenon
  <2> HIDE DEF c, e, D
  <2>2. c + 3 + x <= e /\ c + 3 + x \in Int  BY <2>1
  <2> QED BY <2>2, Zenon DEF c, e
<1>4. \A p \in Int : R2 < p => R < p  OBVIOUS
<1>5. R2 < co[i] + 1 => At(rest2, R2, co[i] + 1).val = DataOf(cp, i) \div Radix
  BY <1>2, <1>4, Zenon DEF FrameAt, SameUpTo
<1>6. R2 < co[i] + 2 => At(rest2, R2, co[i] + 2).val = DataOf(cp, i) % Radix
  BY <1>2, <1>4, Zenon DEF FrameAt, SameUpTo
<1>7. R2 < co[i] + 3 => At(rest2, R2, co[i] + 3).val = PadOf(co, cp, i)
  BY <1>2, <1>4, Zenon DEF FrameAt, SameUpTo
<1>8. ASSUME NEW x \in 1..DataOf(cp, i), R2 < co[i] + 3 + x
      PROVE  At(rest2, R2, co[i] + 3 + x).byte = cp[i] + x
  <2>1. At(rest2, R2, co[i] + 3 + x) = At(rest, R, co[i] + 3 + x)  BY <1>3, <1>8, Zenon DEF SameUpTo
  <2>2. R < co[i] + 3 + x  BY <1>3, <1>4, <1>8, Zenon
  <2> QED BY <2>1, <2>2, Zenon DEF FrameAt, SameUpTo
<1> QED BY <1>5, <1>6, <1>7, <1>8, Zenon DEF FrameAt, SameUpTo

(* The frames end where rest does, or before.                                *)
LEMMA CarriesBounds ==
  ASSUME NEW w \in Nat, NEW co \in [0..w -> Nat], NEW cp \in [0..w -> Nat],
         NEW total \in Nat, total >= cp[w], NEW R \in Nat,
         NEW rest \in Seq(WireByte), Carries(rest, R, co, cp, w, total)
  PROVE  /\ co[w] \in Nat /\ cp[w] \in Nat /\ Len(rest) \in Nat
         /\ R + Len(rest) = co[w] + (total - cp[w])
         /\ co[w] <= R + Len(rest)
<1> DEFINE e == co[w]  f == cp[w]
<1>1. e \in Nat /\ f \in Nat /\ total >= f /\ Len(rest) \in Nat  OBVIOUS
<1>2. R + Len(rest) = e + (total - f)  BY Zenon DEF Carries
<1> HIDE DEF e, f
<1>3. e <= R + Len(rest)  BY <1>1, <1>2
<1> QED BY <1>1, <1>2, <1>3, Zenon DEF e, f

(* The reader takes n bytes.                                                 *)
LEMMA CarriesDrop ==
  ASSUME NEW w \in Nat, NEW co \in [0..w -> Nat], NEW cp \in [0..w -> Nat],
         Layout(co, cp, w), NEW total \in Nat, total >= cp[w], NEW R \in Nat,
         NEW rest \in Seq(WireByte), Carries(rest, R, co, cp, w, total),
         NEW n \in 0..Len(rest)
  PROVE  Carries(SubSeq(rest, n + 1, Len(rest)), R + n, co, cp, w, total)
<1> DEFINE d == SubSeq(rest, n + 1, Len(rest))
<1>1. /\ d \in Seq(WireByte) /\ Len(d) = Len(rest) - n
      /\ \A i \in 1..(Len(rest) - n) : d[i] = rest[i + n]
  BY DropProperties, Zenon
<1>2. Len(rest) \in Nat /\ n \in Nat /\ n <= Len(rest) /\ R + n \in Nat /\ R <= R + n  OBVIOUS
<1> HIDE DEF d
<1>3. /\ co[w] \in Nat /\ cp[w] \in Nat /\ Len(rest) \in Nat
      /\ R + Len(rest) = co[w] + (total - cp[w])
      /\ co[w] <= R + Len(rest)
  BY CarriesBounds, Zenon
<1>4. ASSUME NEW p \in Int, R + n < p, p <= R + Len(rest)
      PROVE  At(d, R + n, p) = At(rest, R, p)
  <2>1. p - (R + n) \in 1..(Len(rest) - n)  BY <1>2, <1>4
  <2>2. (p - (R + n)) + n = p - R  BY <1>2, <1>4
  <2> QED BY <1>1, <2>1, <2>2, Zenon DEF At
<1>5. (R + n) + Len(d) = co[w] + (total - cp[w])  BY <1>1, <1>2, <1>3
<1>6. ASSUME NEW i \in 0..w-1 PROVE FrameAt(d, R + n, co, cp, i)
  <2>1. FrameAt(rest, R, co, cp, i)  BY Zenon DEF Carries
  <2>2. ASSUME NEW p \in Int, R + n < p, p <= co[w]
        PROVE  At(d, R + n, p) = At(rest, R, p)
    <3>1. p <= R + Len(rest)  BY <1>2, <1>3, <2>2
    <3> QED BY <1>4, <2>2, <3>1, Zenon
  <2>3. SameUpTo(d, R + n, rest, R, co[w])  BY <2>2, Zenon DEF SameUpTo
  <2> QED BY <1>2, <2>1, <2>3, FrameKept, Zenon
<1>7. ASSUME NEW x \in 1..(total - cp[w]), R + n < co[w] + x
      PROVE  At(d, R + n, co[w] + x).byte = cp[w] + x
  <2> DEFINE e == co[w]  g == cp[w]  l == Len(rest)
  <2>1. /\ e \in Nat /\ g \in Nat /\ l \in Nat /\ n \in Nat /\ R + l = e + (total - g)
        /\ x \in 1..(total - g) /\ R + n < e + x
    BY <1>2, <1>3, <1>7, Zenon
  <2> HIDE DEF e, g, l
  <2>2. e + x \in Int /\ e + x <= R + l /\ R < e + x  BY <2>1
  <2>3. co[w] + x \in Int /\ co[w] + x <= R + Len(rest) /\ R < co[w] + x
    BY <2>2, Zenon DEF e, l
  <2>4. At(rest, R, co[w] + x).byte = cp[w] + x  BY <2>3, Zenon DEF Carries
  <2> QED BY <1>4, <1>7, <2>3, <2>4, Zenon
<1> QED BY <1>5, <1>6, <1>7, Zenon DEF Carries, d

(* Bytes that are appended come after those that are there.                  *)
LEMMA AtConcat ==
  ASSUME NEW rest \in Seq(WireByte), NEW f \in Seq(WireByte), NEW R \in Nat
  PROVE  /\ \A p \in Int : R < p /\ p <= R + Len(rest) =>
               At(rest \o f, R, p) = At(rest, R, p)
         /\ \A x \in 1..Len(f) : At(rest \o f, R, R + Len(rest) + x) = f[x]
<1>1. /\ Len(rest) \in Nat /\ Len(f) \in Nat
      /\ \A i \in 1..(Len(rest) + Len(f)) :
            (rest \o f)[i] = IF i <= Len(rest) THEN rest[i] ELSE f[i - Len(rest)]
  BY ConcatProperties
<1>2. ASSUME NEW p \in Int, R < p, p <= R + Len(rest)
      PROVE  At(rest \o f, R, p) = At(rest, R, p)
  <2>1. p - R \in 1..(Len(rest) + Len(f)) /\ p - R <= Len(rest)  BY <1>1, <1>2
  <2> QED BY <1>1, <2>1, Zenon DEF At
<1>3. ASSUME NEW x \in 1..Len(f)
      PROVE  At(rest \o f, R, R + Len(rest) + x) = f[x]
  <2> DEFINE k == (R + Len(rest) + x) - R
  <2>1. /\ k \in 1..(Len(rest) + Len(f)) /\ ~ (k <= Len(rest))
        /\ k - Len(rest) = x
    BY <1>1, <1>3
  <2> HIDE DEF k
  <2>2. (rest \o f)[k] = f[x]  BY <1>1, <2>1, Zenon
  <2> QED BY <2>2, Zenon DEF At, k
<1> QED BY <1>2, <1>3, Zenon

(* The writer passes payload through.                                        *)
LEMMA CarriesRaw ==
  ASSUME NEW w \in Nat, NEW co \in [0..w -> Nat], NEW cp \in [0..w -> Nat],
         Layout(co, cp, w), NEW total \in Nat, total >= cp[w], NEW R \in Nat,
         NEW rest \in Seq(WireByte), Carries(rest, R, co, cp, w, total),
         NEW f \in Seq(WireByte), \A x \in 1..Len(f) : f[x].byte = total + x
  PROVE  Carries(rest \o f, R, co, cp, w, total + Len(f))
<1>1. Len(rest \o f) = Len(rest) + Len(f) /\ Len(f) \in Nat  BY ConcatProperties
<1>2. /\ co[w] \in Nat /\ cp[w] \in Nat /\ Len(rest) \in Nat
      /\ R + Len(rest) = co[w] + (total - cp[w])
      /\ co[w] <= R + Len(rest)
  BY CarriesBounds, Zenon
<1>3. /\ \A p \in Int : R < p /\ p <= R + Len(rest) =>
            At(rest \o f, R, p) = At(rest, R, p)
      /\ \A x \in 1..Len(f) : At(rest \o f, R, R + Len(rest) + x) = f[x]
  BY AtConcat, Zenon
<1>4. R + Len(rest \o f) = co[w] + ((total + Len(f)) - cp[w])
  <2> DEFINE e == co[w]  g == cp[w]  l == Len(rest)  m == Len(f)
  <2>1. e \in Nat /\ g \in Nat /\ l \in Nat /\ m \in Nat /\ R + l = e + (total - g)
    BY <1>1, <1>2, Zenon
  <2> HIDE DEF e, g, l, m
  <2>2. R + (l + m) = (R + l) + m  BY <2>1
  <2>3. (e + (total - g)) + m = e + ((total + m) - g)  BY <2>1
  <2>4. R + (l + m) = e + ((total + m) - g)  BY <2>1, <2>2, <2>3, Zenon
  <2> QED BY <1>1, <2>4, Zenon DEF e, g, l, m
<1>5. ASSUME NEW i \in 0..w-1 PROVE FrameAt(rest \o f, R, co, cp, i)
  <2>1. FrameAt(rest, R, co, cp, i)  BY Zenon DEF Carries
  <2>2. ASSUME NEW p \in Int, R < p, p <= co[w]
        PROVE  At(rest \o f, R, p) = At(rest, R, p)
    <3>1. p <= R + Len(rest)  BY <1>2, <2>2
    <3> QED BY <1>3, <2>2, <3>1, Zenon
  <2>3. SameUpTo(rest \o f, R, rest, R, co[w])  BY <2>2, Zenon DEF SameUpTo
  <2>4. R <= R  OBVIOUS
  <2> QED BY <2>1, <2>3, <2>4, FrameKept, Zenon
<1>6. ASSUME NEW x \in 1..((total + Len(f)) - cp[w]), R < co[w] + x
      PROVE  At(rest \o f, R, co[w] + x).byte = cp[w] + x
  <2>1. CASE x <= total - cp[w]
    <3>1. x \in 1..(total - cp[w]) /\ co[w] + x \in Int /\ co[w] + x <= R + Len(rest)
      <4> DEFINE e == co[w]  g == cp[w]  l == Len(rest)
      <4>1. /\ e \in Nat /\ g \in Nat /\ l \in Nat /\ R + l = e + (total - g)
            /\ x \in 1..((total + Len(f)) - g) /\ x <= total - g /\ Len(f) \in Nat
        BY <1>1, <1>2, <1>6, <2>1, Zenon
      <4> HIDE DEF e, g, l
      <4>2. x \in 1..(total - g) /\ e + x \in Int /\ e + x <= R + l  BY <4>1
      <4> QED BY <4>2, Zenon DEF e, g, l
    <3>2. At(rest, R, co[w] + x).byte = cp[w] + x  BY <1>6, <3>1, Zenon DEF Carries
    <3> QED BY <1>3, <1>6, <3>1, <3>2, Zenon
  <2>2. CASE ~ (x <= total - cp[w])
    <3> DEFINE y == x - (total - cp[w])  e == co[w]  g == cp[w]  l == Len(rest)  m == Len(f)
    <3>1. /\ e \in Nat /\ g \in Nat /\ l \in Nat /\ m \in Nat /\ R + l = e + (total - g)
          /\ x \in 1..((total + m) - g) /\ ~ (x <= total - g) /\ y = x - (total - g)
      BY <1>1, <1>2, <1>6, <2>2, Zenon
    <3> HIDE DEF y, e, g, l, m
    <3>2. y \in 1..m /\ e + x = R + l + y /\ total + y = g + x  BY <3>1
    <3>3. y \in 1..Len(f) /\ co[w] + x = R + Len(rest) + y /\ total + y = cp[w] + x
      BY <3>2, Zenon DEF e, g, l, m
    <3>4. f[y].byte = total + y  BY <3>3, Zenon
    <3>5. At(rest \o f, R, R + Len(rest) + y) = f[y]  BY <1>3, <3>3, Zenon
    <3> QED BY <3>3, <3>4, <3>5, Zenon
  <2> QED BY <2>1, <2>2, Zenon
<1> QED BY <1>4, <1>5, <1>6, Zenon DEF Carries

(* One more frame.                                                           *)
Grown(co, cp, w, co2, cp2, d, pad) ==
    /\ co2 \in [0..(w + 1) -> Nat]
    /\ cp2 \in [0..(w + 1) -> Nat]
    /\ \A i \in 0..w : co2[i] = co[i] /\ cp2[i] = cp[i]
    /\ co2[w + 1] = co[w] + 3 + d + pad
    /\ cp2[w + 1] = cp[w] + d

(* There is a layout with one more frame.                                    *)
LEMMA CanGrow ==
  ASSUME NEW w \in Nat, NEW co \in [0..w -> Nat], NEW cp \in [0..w -> Nat],
         NEW d \in Nat, NEW pad \in Nat
  PROVE  \E co2, cp2 : Grown(co, cp, w, co2, cp2, d, pad)
<1> DEFINE co2 == [i \in 0..(w + 1) |-> IF i = w + 1 THEN co[w] + 3 + d + pad ELSE co[i]]
           cp2 == [i \in 0..(w + 1) |-> IF i = w + 1 THEN cp[w] + d ELSE cp[i]]
<1>1. \A i \in 0..(w + 1) : i # w + 1 => i \in 0..w  OBVIOUS
<1>2. \A i \in 0..w : i \in 0..(w + 1) /\ i # w + 1  OBVIOUS
<1>3. w + 1 \in 0..(w + 1) /\ w \in 0..w  OBVIOUS
<1>4. \A n \in Nat : n + 3 + d + pad \in Nat /\ n + d \in Nat  OBVIOUS
<1>5. co[w] + 3 + d + pad \in Nat /\ cp[w] + d \in Nat  BY <1>3, <1>4, Zenon
<1>6. co2 \in [0..(w + 1) -> Nat] /\ cp2 \in [0..(w + 1) -> Nat]  BY <1>1, <1>5, Zenon
<1>7. \A i \in 0..w : co2[i] = co[i] /\ cp2[i] = cp[i]  BY <1>2, Zenon
<1>8. co2[w + 1] = co[w] + 3 + d + pad /\ cp2[w + 1] = cp[w] + d  BY <1>3, Zenon
<1> HIDE DEF co2, cp2
<1> QED BY <1>6, <1>7, <1>8, Zenon DEF Grown

\* The frames that were there are the same, the new one has d and pad bytes.
OneMore(co, cp, w, co2, cp2, d, pad) ==
    /\ Layout(co2, cp2, w + 1)
    /\ DataOf(cp2, w) = d /\ PadOf(co2, cp2, w) = pad
    /\ co2[w] = co[w] /\ co2[w + 1] = co[w] + 3 + d + pad
    /\ cp2[w] = cp[w] /\ cp2[w + 1] = cp[w] + d
    /\ \A i \in 0..w-1 : /\ co2[i] = co[i] /\ cp2[i] = cp[i]
                         /\ DataOf(cp2, i) = DataOf(cp, i)
                         /\ PadOf(co2, cp2, i) = PadOf(co, cp, i)

(* It is a layout.                                                           *)
LEMMA LayoutFrame ==
  ASSUME NEW w \in Nat, NEW co \in [0..w -> Nat], NEW cp \in [0..w -> Nat],
         Layout(co, cp, w), NEW d \in Nat, NEW pad \in Nat,
         NEW co2, NEW cp2, Grown(co, cp, w, co2, cp2, d, pad)
  PROVE  OneMore(co, cp, w, co2, cp2, d, pad)
<1>1. /\ w \in 0..w /\ 0 \in 0..w
      /\ \A i \in 0..w-1 : i \in 0..w /\ i + 1 \in 0..w
      /\ \A i \in 0..(w + 1) : i = w + 1 \/ i \in 0..w
      /\ \A i \in 0..((w + 1) - 1) : i = w \/ i \in 0..w-1
  OBVIOUS
<1>2. co[w] \in Nat /\ cp[w] \in Nat  BY <1>1, Zenon
<1>3. co[w] + 3 + d + pad \in Nat /\ cp[w] + d \in Nat  BY <1>2, SMTT(20)
<1>4. /\ co2 \in [0..(w + 1) -> Nat] /\ \A i \in 0..w : co2[i] = co[i]
      /\ co2[w + 1] = co[w] + 3 + d + pad
  BY Zenon DEF Grown
<1>5. /\ cp2 \in [0..(w + 1) -> Nat] /\ \A i \in 0..w : cp2[i] = cp[i]
      /\ cp2[w + 1] = cp[w] + d
  BY Zenon DEF Grown
<1>6. co2[w] = co[w] /\ cp2[w] = cp[w]  BY <1>1, <1>4, <1>5, Zenon
<1>7. DataOf(cp2, w) = d
  <2>1. (cp[w] + d) - cp[w] = d  BY <1>2
  <2> QED BY <1>5, <1>6, <2>1, Zenon DEF DataOf
<1>8. PadOf(co2, cp2, w) = pad
  <2> DEFINE e == co[w]
  <2>1. e \in Nat  BY <1>2, Zenon
  <2> HIDE DEF e
  <2>2. (e + 3 + d + pad) - e - 3 - d = pad  BY <2>1
  <2> QED BY <1>4, <1>6, <1>7, <2>2, Zenon DEF PadOf, e
<1>9. \A i \in 0..w-1 : /\ co2[i] = co[i] /\ cp2[i] = cp[i]
                        /\ DataOf(cp2, i) = DataOf(cp, i)
                        /\ PadOf(co2, cp2, i) = PadOf(co, cp, i)
  BY <1>1, <1>4, <1>5, Zenon DEF DataOf, PadOf
<1>10. co2[0] = 0 /\ cp2[0] = 0  BY <1>1, <1>4, <1>5, Zenon DEF Layout
<1>11. ASSUME NEW i \in 0..((w + 1) - 1) PROVE DataOf(cp2, i) \in Nat /\ PadOf(co2, cp2, i) \in Nat
  BY <1>1, <1>7, <1>8, <1>9, Zenon DEF Layout
<1>12. ASSUME NEW i \in 0..(w + 1), NEW j \in 0..(w + 1), i <= j
       PROVE  co2[i] <= co2[j] /\ cp2[i] <= cp2[j]
  <2>1. CASE j \in 0..w
    <3>1. i \in 0..w  BY <1>12, <2>1
    <3> QED BY <1>4, <1>5, <1>12, <2>1, <3>1, Zenon DEF Layout
  <2>2. CASE j = w + 1 /\ i = w + 1
    <3>1. co2[w + 1] \in Nat /\ cp2[w + 1] \in Nat  BY <1>3, <1>4, <1>5, Zenon
    <3>2. co2[w + 1] <= co2[w + 1] /\ cp2[w + 1] <= cp2[w + 1]  BY <3>1, SMTT(20)
    <3> QED BY <2>2, <3>2, Zenon
  <2>3. CASE j = w + 1 /\ i \in 0..w
    <3>1. i <= w  BY <2>3
    <3>2. co[i] <= co[w] /\ cp[i] <= cp[w] /\ co[i] \in Nat /\ cp[i] \in Nat
      BY <1>1, <2>3, <3>1, Zenon DEF Layout
    <3>3. co[i] <= co[w] + 3 + d + pad /\ cp[i] <= cp[w] + d
      <4> DEFINE c == co[i]  e == co[w]  g == cp[i]  h == cp[w]
      <4>1. c \in Nat /\ e \in Nat /\ g \in Nat /\ h \in Nat /\ c <= e /\ g <= h
        BY <1>2, <3>2, Zenon
      <4> HIDE DEF c, e, g, h
      <4>2. c <= e + 3 + d + pad /\ g <= h + d  BY <4>1
      <4> QED BY <4>2, Zenon DEF c, e, g, h
    <3> QED BY <1>4, <1>5, <2>3, <3>3, Zenon
  <2> QED BY <1>1, <2>1, <2>2, <2>3, Zenon
<1>13. Layout(co2, cp2, w + 1)  BY <1>4, <1>5, <1>10, <1>11, <1>12, Zenon DEF Layout
<1> QED BY <1>4, <1>5, <1>6, <1>7, <1>8, <1>9, <1>13, Zenon DEF OneMore

\* The bytes of a frame with d payload bytes, the first total + 1.
IsFrame(f, d, pad, total) ==
    /\ Len(f) = 3 + d + pad
    /\ f[1].val = d \div Radix
    /\ f[2].val = d % Radix
    /\ f[3].val = pad
    /\ \A x \in 1..d : f[3 + x].byte = total + x

(* The writer puts a frame behind what is on its way.                        *)
LEMMA CarriesFrame ==
  ASSUME NEW w \in Nat, NEW co \in [0..w -> Nat], NEW cp \in [0..w -> Nat],
         Layout(co, cp, w), NEW total \in Nat, AllFramed(cp, w, total), NEW R \in Nat,
         NEW rest \in Seq(WireByte), Carries(rest, R, co, cp, w, total),
         NEW d \in Nat, NEW pad \in Nat,
         NEW f \in Seq(WireByte), IsFrame(f, d, pad, total),
         NEW co2, NEW cp2, Grown(co, cp, w, co2, cp2, d, pad)
  PROVE  Carries(rest \o f, R, co2, cp2, w + 1, total + d)
<1>1. /\ Len(rest \o f) = Len(rest) + Len(f) /\ Len(f) \in Nat /\ Len(rest) \in Nat
      /\ Len(f) = 3 + d + pad
  <2>1. Len(f) \in Nat /\ Len(rest) \in Nat  BY SMTT(20)
  <2> QED BY <2>1, ConcatProperties, Zenon DEF IsFrame
<1>2. total >= cp[w]
  <2>1. total >= total  OBVIOUS
  <2> QED BY <2>1, Zenon DEF AllFramed
<1>3. /\ co[w] \in Nat /\ cp[w] \in Nat /\ Len(rest) \in Nat
      /\ R + Len(rest) = co[w] + (total - cp[w])
      /\ co[w] <= R + Len(rest)
  BY <1>2, CarriesBounds, Zenon
<1>4. R + Len(rest) = co[w]  BY <1>3 DEF AllFramed
<1>5. /\ \A p \in Int : R < p /\ p <= R + Len(rest) =>
            At(rest \o f, R, p) = At(rest, R, p)
      /\ \A x \in 1..Len(f) : At(rest \o f, R, R + Len(rest) + x) = f[x]
  BY AtConcat, Zenon
<1>6. OneMore(co, cp, w, co2, cp2, d, pad)  BY LayoutFrame, Zenon
<1>7. /\ DataOf(cp2, w) = d /\ PadOf(co2, cp2, w) = pad
      /\ \A i \in 0..w-1 : /\ co2[i] = co[i] /\ cp2[i] = cp[i]
                           /\ DataOf(cp2, i) = DataOf(cp, i)
                           /\ PadOf(co2, cp2, i) = PadOf(co, cp, i)
  BY <1>6, Zenon DEF OneMore
<1>8. /\ co2[w] = co[w] /\ co2[w + 1] = co[w] + 3 + d + pad
      /\ cp2[w] = cp[w] /\ cp2[w + 1] = cp[w] + d
  BY <1>6, Zenon DEF OneMore
<1>9. R + Len(rest \o f) = co2[w + 1] + ((total + d) - cp2[w + 1])
  <2> DEFINE e == co[w]  l == Len(rest)
  <2>1. e \in Nat /\ l \in Nat /\ R + l = e  BY <1>3, <1>4, Zenon
  <2> HIDE DEF e, l
  <2>2. R + (l + (3 + d + pad)) = (e + 3 + d + pad) + ((total + d) - (total + d))
    BY <2>1
  <2> QED BY <1>1, <1>8, <2>2, Zenon DEF AllFramed, e, l
<1>10. ASSUME NEW i \in 0..w-1 PROVE FrameAt(rest \o f, R, co2, cp2, i)
  <2>1. FrameAt(rest, R, co, cp, i)  BY Zenon DEF Carries
  <2>2. ASSUME NEW p \in Int, R < p, p <= co[w]
        PROVE  At(rest \o f, R, p) = At(rest, R, p)
    <3>1. p <= R + Len(rest)  BY <1>3, <2>2
    <3> QED BY <1>5, <2>2, <3>1, Zenon
  <2>3. SameUpTo(rest \o f, R, rest, R, co[w])  BY <2>2, Zenon DEF SameUpTo
  <2>4. R <= R  OBVIOUS
  <2>5. FrameAt(rest \o f, R, co, cp, i)  BY <2>1, <2>3, <2>4, FrameKept, Zenon
  <2> QED BY <1>7, <2>5, Zenon DEF FrameAt
<1>11. FrameAt(rest \o f, R, co2, cp2, w)
  <2>1. \A x \in 1..Len(f) : At(rest \o f, R, co2[w] + x) = f[x]
    BY <1>4, <1>5, <1>8, Zenon
  <2>2. 1 \in 1..Len(f) /\ 2 \in 1..Len(f) /\ 3 \in 1..Len(f)  BY <1>1
  <2>3. ASSUME NEW x \in 1..d PROVE At(rest \o f, R, co2[w] + 3 + x).byte = cp2[w] + x
    <3>1. 3 + x \in 1..Len(f)  BY <1>1
    <3>2. co2[w] + 3 + x = co2[w] + (3 + x)
      <4> DEFINE e == co2[w]
      <4>1. e \in Nat  BY <1>3, <1>8, Zenon
      <4> HIDE DEF e
      <4>2. e + 3 + x = e + (3 + x)  BY <4>1
      <4> QED BY <4>2, Zenon DEF e
    <3>3. At(rest \o f, R, co2[w] + (3 + x)) = f[3 + x]  BY <2>1, <3>1, Zenon
    <3>4. f[3 + x].byte = total + x  BY Zenon DEF IsFrame
    <3> QED BY <1>8, <3>2, <3>3, <3>4, Zenon DEF AllFramed
  <2> QED BY <1>7, <2>1, <2>2, <2>3, Zenon DEF FrameAt, IsFrame
<1>12. \A i \in 0..((w + 1) - 1) : i = w \/ i \in 0..w-1  OBVIOUS
<1>13. \A i \in 0..((w + 1) - 1) : FrameAt(rest \o f, R, co2, cp2, i)
  BY <1>10, <1>11, <1>12, Zenon
<1>14. ~ \E x \in 1..((total + d) - cp2[w + 1]) : TRUE
  <2>1. 1..((total + d) - (total + d)) = {}  OBVIOUS
  <2> QED BY <1>8, <2>1, Zenon DEF AllFramed
<1> QED BY <1>9, <1>13, <1>14, Zenon DEF Carries

-----------------------------------------------------------------------------
(* What the writer puts on the wire                                         *)

(* The two length bytes are the digits of the length.                        *)
LEMMA Digits ==
  ASSUME NEW d \in Nat
  PROVE  /\ d \div Radix \in Nat
         /\ d % Radix \in 0..(Radix - 1)
         /\ (d \div Radix) * Radix + (d % Radix) = d
         /\ d <= MAX_PADDED_PAYLOAD => d \div Radix \in 0..(Radix - 1)
<1> DEFINE q == d \div Radix  m == d % Radix
<1>1. Radix \in Nat /\ Radix > 1  BY PaddingAssumption
<1>2. /\ q \in Nat /\ m \in 0..(Radix - 1) /\ d = Radix * q + m  BY <1>1
<1> HIDE DEF q, m
<1>3. q * Radix + m = d
  <2>1. q * Radix = Radix * q  BY <1>1, <1>2
  <2> QED BY <1>1, <1>2, <2>1, Zenon
<1>4. ASSUME d <= MAX_PADDED_PAYLOAD PROVE q \in 0..(Radix - 1)
  <2>1. d <= Radix * Radix - 1  BY <1>4, Zenon DEF MAX_PADDED_PAYLOAD
  <2>2. Radix * q <= d  BY <1>1, <1>2
  <2>3. Radix * q < Radix * Radix  BY <1>1, <1>2, <2>1, <2>2
  <2>4. q < Radix  BY <1>1, <1>2, <2>3
  <2> QED BY <1>1, <1>2, <2>4
<1> QED BY <1>2, <1>3, <1>4, Zenon DEF q, m

(* Chunk(n) is the next n payload bytes.                                     *)
LEMMA ChunkProperties ==
  ASSUME NEW n \in Nat, written \in Nat
  PROVE  /\ Chunk(n) \in Seq(WireByte)
         /\ Len(Chunk(n)) = n
         /\ \A x \in 1..n : Chunk(n)[x].byte = written + x
<1>1. ASSUME NEW x \in 1..n PROVE Payload(written + x) \in WireByte
  <2>1. written + x \in Nat  OBVIOUS
  <2>2. (written + x) % Radix \in 0..(Radix - 1)  BY <2>1, Digits, Zenon
  <2> QED BY <2>1, <2>2, Zenon DEF Payload, WireByte
<1>2. Chunk(n) \in [1..n -> WireByte]  BY <1>1, Zenon DEF Chunk
<1>3. Chunk(n) \in Seq(WireByte) /\ Len(Chunk(n)) = n  BY <1>2
<1>4. \A x \in 1..n : Chunk(n)[x].byte = written + x  BY Zenon DEF Chunk, Payload
<1> QED BY <1>3, <1>4, Zenon

(* Frame builds the frame that IsFrame describes, of bytes that fit a byte.  *)
LEMMA FrameProperties ==
  ASSUME NEW d \in Nat, d <= MAX_PADDED_PAYLOAD, NEW pad \in 0..(Radix - 1), written \in Nat
  PROVE  Frame(d, pad) \in Seq(WireByte) /\ IsFrame(Frame(d, pad), d, pad, written)
<1> DEFINE h == <<Header(d \div Radix), Header(d % Radix), Header(pad)>>
           c == Chunk(d)
           p == [i \in 1..pad |-> Pad]
<1>1. 0 \in 0..(Radix - 1) /\ pad \in Nat /\ 0 \in Nat  BY PaddingAssumption
<1>2. /\ Header(d \div Radix) \in WireByte /\ Header(d % Radix) \in WireByte
      /\ Header(pad) \in WireByte /\ Pad \in WireByte
  BY <1>1, Digits, Zenon DEF Header, Pad, WireByte
<1>3. h \in Seq(WireByte) /\ Len(h) = 3
  <2> DEFINE a == Header(d \div Radix)  b == Header(d % Radix)  e == Header(pad)
  <2>1. a \in WireByte /\ b \in WireByte /\ e \in WireByte  BY <1>2, Zenon
  <2> HIDE DEF a, b, e
  <2>2. <<a, b, e>> \in Seq(WireByte) /\ Len(<<a, b, e>>) = 3  BY <2>1
  <2> QED BY <2>2, Zenon DEF a, b, e
<1>4. /\ h[1].val = d \div Radix /\ h[2].val = d % Radix /\ h[3].val = pad
  BY Zenon DEF Header
<1>5. c \in Seq(WireByte) /\ Len(c) = d /\ \A x \in 1..d : c[x].byte = written + x
  BY ChunkProperties, Zenon
<1>6. p \in Seq(WireByte) /\ Len(p) = pad
  <2>1. p \in [1..pad -> WireByte]  BY <1>2, Zenon
  <2> HIDE DEF p
  <2> QED BY <1>1, <2>1
<1>7. Frame(d, pad) = (h \o c) \o p  BY Zenon DEF Frame
<1> HIDE DEF h, c, p
<1>8. /\ h \o c \in Seq(WireByte) /\ Len(h \o c) = 3 + d
      /\ \A i \in 1..(3 + d) : (h \o c)[i] = IF i <= 3 THEN h[i] ELSE c[i - 3]
  <2>1. /\ h \o c \in Seq(WireByte) /\ Len(h \o c) = Len(h) + Len(c)
        /\ \A i \in 1..(Len(h) + Len(c)) :
              (h \o c)[i] = IF i <= Len(h) THEN h[i] ELSE c[i - Len(h)]
    BY <1>3, <1>5, ConcatProperties, Zenon
  <2> QED BY <1>3, <1>5, <2>1, Zenon
<1> DEFINE hc == h \o c
<1> HIDE DEF hc
<1>9. hc \in Seq(WireByte) /\ Len(hc) = 3 + d  BY <1>8, Zenon DEF hc
<1>10. /\ hc \o p \in Seq(WireByte) /\ Len(hc \o p) = (3 + d) + pad
       /\ \A i \in 1..((3 + d) + pad) : (hc \o p)[i] = IF i <= 3 + d THEN hc[i] ELSE p[i - (3 + d)]
  <2>1. /\ hc \o p \in Seq(WireByte) /\ Len(hc \o p) = Len(hc) + Len(p)
        /\ \A i \in 1..(Len(hc) + Len(p)) :
              (hc \o p)[i] = IF i <= Len(hc) THEN hc[i] ELSE p[i - Len(hc)]
    BY <1>6, <1>9, ConcatProperties, Zenon
  <2> QED BY <1>6, <1>9, <2>1, Zenon
<1>11. ASSUME NEW i \in 1..(3 + d)
       PROVE  (hc \o p)[i] = IF i <= 3 THEN h[i] ELSE c[i - 3]
  <2>1. i \in 1..((3 + d) + pad) /\ i <= 3 + d  BY <1>1
  <2>2. (hc \o p)[i] = hc[i]  BY <1>10, <2>1, Zenon
  <2>3. hc[i] = IF i <= 3 THEN h[i] ELSE c[i - 3]  BY <1>8, Zenon DEF hc
  <2> QED BY <2>2, <2>3, Zenon
<1>12. /\ 1 \in 1..(3 + d) /\ 2 \in 1..(3 + d) /\ 3 \in 1..(3 + d)
       /\ 1 <= 3 /\ 2 <= 3 /\ 3 <= 3
  OBVIOUS
<1>13. (hc \o p)[1] = h[1] /\ (hc \o p)[2] = h[2] /\ (hc \o p)[3] = h[3]
  BY <1>11, <1>12, Zenon
<1>14. ASSUME NEW x \in 1..d PROVE (hc \o p)[3 + x].byte = written + x
  <2>1. 3 + x \in 1..(3 + d) /\ ~ (3 + x <= 3) /\ (3 + x) - 3 = x  OBVIOUS
  <2>2. (hc \o p)[3 + x] = c[x]  BY <1>11, <2>1, Zenon
  <2> QED BY <1>5, <2>2, Zenon
<1>15. (3 + d) + pad = 3 + d + pad  BY <1>1, Zenon
<1>16. IsFrame(hc \o p, d, pad, written)
  BY <1>4, <1>10, <1>13, <1>14, <1>15, Zenon DEF IsFrame
<1> QED BY <1>7, <1>10, <1>16, Zenon DEF hc

-----------------------------------------------------------------------------
(* What is on its way                                                       *)

(* Appending twice.                                                          *)
LEMMA BytesAssociate ==
  ASSUME NEW s \in Seq(WireByte), NEW t \in Seq(WireByte), NEW u \in Seq(WireByte)
  PROVE  (s \o t) \o u = s \o (t \o u)
BY ConcatAssociative, SMTT(20)

Unsent == SubSeq(write_pending, write_pending_off + 1, Len(write_pending))

(* Nothing is left of an empty write_pending.                                *)
LEMMA NothingUnsent ==
  ASSUME NEW off, off = 0
  PROVE  SubSeq(<<>>, off + 1, Len(<<>>)) = <<>>
<1>1. Len(<<>>) = 0 /\ 0 + 1 = 1  OBVIOUS
<1>2. SubSeq(<<>>, 1, 0) = <<>>  OBVIOUS
<1> QED BY <1>1, <1>2, Zenon

(* The wire comes first in what is on its way.                               *)
LEMMA RestProperties ==
  ASSUME TypeOK
  PROVE  /\ write_pending_off \in 0..Len(write_pending)
         /\ Unsent \in Seq(WireByte)
         /\ Rest \in Seq(WireByte)
         /\ Rest = wire \o Unsent
         /\ Len(wire) \in Nat /\ Len(Rest) \in Nat /\ Len(wire) <= Len(Rest)
         /\ \A i \in 1..Len(wire) : Rest[i] = wire[i]
         /\ write_pending = <<>> => Rest = wire
<1>1. wire \in Seq(WireByte) /\ write_pending \in Seq(WireByte)  BY Zenon DEF TypeOK
<1>2. write_pending_off \in 0..Len(write_pending)
  <2>1. write_pending_off \in Nat /\ Len(write_pending) \in Nat  BY <1>1, LenProperties, Zenon
      DEF TypeOK
  <2>2. write_pending_off = 0 \/ write_pending_off < Len(write_pending)  BY Zenon DEF TypeOK
  <2> QED BY <2>1, <2>2
<1>3. Unsent \in Seq(WireByte)  BY <1>1, <1>2, DropProperties, Zenon DEF Unsent
<1>4. Rest = wire \o Unsent  BY Zenon DEF Rest, Unsent
<1>5. /\ wire \o Unsent \in Seq(WireByte) /\ Len(wire \o Unsent) = Len(wire) + Len(Unsent)
      /\ \A i \in 1..(Len(wire) + Len(Unsent)) :
            (wire \o Unsent)[i] = IF i <= Len(wire) THEN wire[i] ELSE Unsent[i - Len(wire)]
  BY <1>1, <1>3, ConcatProperties, Zenon
<1>6. Len(wire) \in Nat /\ Len(Unsent) \in Nat  BY <1>1, <1>3
<1>7. Len(Rest) \in Nat /\ Len(wire) <= Len(Rest)
  <2>1. Len(Rest) = Len(wire) + Len(Unsent)  BY <1>4, <1>5, Zenon
  <2> QED BY <1>6, <2>1
<1>8. ASSUME NEW i \in 1..Len(wire) PROVE Rest[i] = wire[i]
  <2>1. i \in 1..(Len(wire) + Len(Unsent)) /\ i <= Len(wire)  BY <1>6
  <2> QED BY <1>4, <1>5, <2>1, Zenon
<1>9. ASSUME write_pending = <<>> PROVE Rest = wire
  <2>1. write_pending_off = 0  BY <1>9, Zenon DEF TypeOK
  <2>2. Unsent = <<>>  BY <1>9, <2>1, NothingUnsent, Zenon DEF Unsent
  <2>3. wire \o <<>> = wire  BY <1>1, ConcatEmptySeq, Zenon
  <2> QED BY <1>4, <2>2, <2>3, Zenon
<1> QED BY <1>2, <1>3, <1>4, <1>5, <1>6, <1>7, <1>8, <1>9, Zenon

(* The reader takes n bytes from the wire.                                   *)
LEMMA TakeRest ==
  ASSUME TypeOK, NEW n \in 0..Len(wire), wire' = SubSeq(wire, n + 1, Len(wire)),
         UNCHANGED writeVars
  PROVE  wire' \in Seq(WireByte) /\ Rest' = SubSeq(Rest, n + 1, Len(Rest))
<1>1. wire \in Seq(WireByte)  BY Zenon DEF TypeOK
<1>2. Unsent \in Seq(WireByte) /\ Rest = wire \o Unsent  BY RestProperties, Zenon
<1>3. wire' \in Seq(WireByte)  BY <1>1, DropProperties, Zenon
<1>4. Unsent' = Unsent  BY Zenon DEF Unsent, writeVars
<1>5. Rest' = wire' \o Unsent'  BY Zenon DEF Rest, Unsent
<1>6. SubSeq(wire \o Unsent, n + 1, Len(wire \o Unsent)) = SubSeq(wire, n + 1, Len(wire)) \o Unsent
  BY <1>1, <1>2, DropConcat, Zenon
<1> QED BY <1>2, <1>3, <1>4, <1>5, <1>6, Zenon

(* A part of write_pending goes out.                                         *)
LEMMA DrainRest ==
  ASSUME TypeOK, NEW n, DrainPending(n)
  PROVE  /\ wire' \in Seq(WireByte)
         /\ write_pending' \in Seq(WireByte)
         /\ write_pending_off' \in Nat
         /\ write_pending' = <<>> => write_pending_off' = 0
         /\ write_pending' # <<>> => write_pending_off' < Len(write_pending')
         /\ Rest' = Rest
<1> DEFINE p == write_pending  o == write_pending_off  L == Len(write_pending)
<1>1. wire \in Seq(WireByte) /\ p \in Seq(WireByte)  BY Zenon DEF TypeOK
<1>2. n \in 1..(L - o) /\ wire' = wire \o SubSeq(p, o + 1, o + n)
  BY Zenon DEF DrainPending
<1>3. o \in 0..L /\ L \in Nat
  <2>1. o \in 0..L  BY RestProperties, Zenon
  <2>2. L \in Nat  BY <1>1
  <2> QED BY <2>1, <2>2, Zenon
<1>4. /\ IF o + n = L THEN write_pending' = <<>> /\ write_pending_off' = 0
                      ELSE write_pending_off' = o + n /\ write_pending' = p
  BY Zenon DEF DrainPending
<1> DEFINE a == SubSeq(p, o + 1, o + n)  b == SubSeq(p, (o + n) + 1, L)
<1>5. Rest = wire \o SubSeq(p, o + 1, L)  BY Zenon DEF Rest
<1>6. Rest' = wire' \o SubSeq(write_pending', write_pending_off' + 1, Len(write_pending'))
  BY Zenon DEF Rest
<1> HIDE DEF p, o, L
<1>7. n \in Nat /\ o + n \in 0..L /\ o + n \in Nat  BY <1>2, <1>3
<1>8. a \in Seq(WireByte) /\ b \in Seq(WireByte) /\ a \o b = SubSeq(p, o + 1, L)
  <2>1. o + 1 \in 1..Len(p)+1 /\ o + n \in (o + 1) - 1..Len(p) /\ Len(p) \in (o + n)..Len(p)
    BY <1>3, <1>7 DEF L, p
  <2>2. a \o b = SubSeq(p, o + 1, L)
    BY <1>1, <2>1, ConcatAdjacentSubSeq, Zenon DEF L, p
  <2>3. b \in Seq(WireByte)  BY <1>1, <1>7, DropProperties, Zenon DEF L, p
  <2>4. \A i \in (o + 1)..(o + n) : p[i] \in WireByte
    <3>1. \A i \in (o + 1)..(o + n) : i \in 1..Len(p)  BY <1>3, <1>7 DEF L, p
    <3> QED BY <1>1, <3>1, ElementOfSeq, Zenon
  <2>5. o + 1 \in Nat  BY <1>3
  <2>6. a \in Seq(WireByte)  BY <1>7, <2>4, <2>5, SubSeqProperties
  <2> QED BY <2>2, <2>3, <2>6, Zenon
<1>9. wire' \in Seq(WireByte)  BY <1>1, <1>2, <1>8, ConcatProperties, Zenon
<1>10. (wire \o a) \o b = Rest
  <2> HIDE DEF a, b
  <2>1. wire \in Seq(WireByte) /\ a \in Seq(WireByte) /\ b \in Seq(WireByte)  BY <1>1, <1>8, Zenon
  <2>2. (wire \o a) \o b = wire \o (a \o b)  BY <2>1, BytesAssociate, Zenon
  <2> QED BY <1>5, <1>8, <2>2, Zenon
<1>11. CASE o + n = L
  <2>1. write_pending' = <<>> /\ write_pending_off' = 0  BY <1>4, <1>11, Zenon
  <2>2. SubSeq(write_pending', write_pending_off' + 1, Len(write_pending')) = <<>>
    BY <2>1, NothingUnsent, Zenon
  <2>3. Rest' = wire'  BY <1>6, <1>9, <2>2, ConcatEmptySeq, Zenon
  <2>4. b = <<>>
    <3>1. Len(b) = L - (o + n)  BY <1>1, <1>7, DropProperties, Zenon DEF L, p
    <3>2. Len(b) = 0  BY <1>3, <1>11, <3>1
    <3> HIDE DEF b
    <3> QED BY <1>8, <3>2
  <2>5. wire \o a \in Seq(WireByte)  BY <1>1, <1>8, ConcatProperties, Zenon
  <2>6. wire \o a = Rest  BY <1>10, <2>4, <2>5, ConcatEmptySeq, Zenon
  <2>7. <<>> \in Seq(WireByte) /\ 0 \in Nat  OBVIOUS
  <2> QED BY <1>2, <1>9, <2>1, <2>3, <2>6, <2>7, Zenon
<1>12. CASE o + n # L
  <2>1. write_pending_off' = o + n /\ write_pending' = p  BY <1>4, <1>12, Zenon
  <2>2. Rest' = wire' \o b  BY <1>6, <2>1, Zenon DEF L, p
  <2>3. o + n < L  BY <1>3, <1>7, <1>12
  <2>4. p # <<>>
    <3>1. L # 0  BY <1>3, <1>7, <2>3
    <3>2. Len(<<>>) = 0  BY Zenon
    <3> QED BY <3>1, <3>2, Zenon DEF L, p
  <2> QED BY <1>1, <1>2, <1>7, <1>9, <1>10, <2>1, <2>2, <2>3, <2>4, Zenon DEF L, p
<1> QED BY <1>11, <1>12, Zenon

(* A frame is put behind what is on its way.                                 *)
LEMMA FrameRest ==
  ASSUME TypeOK, NEW f \in Seq(WireByte), Len(f) > 0, NEW n \in 0..Len(f), write_pending = <<>>,
         wire' = wire \o SubSeq(f, 1, n),
         IF n = Len(f) THEN UNCHANGED <<write_pending, write_pending_off>>
                       ELSE write_pending' = f /\ write_pending_off' = n
  PROVE  /\ wire' \in Seq(WireByte)
         /\ write_pending' \in Seq(WireByte)
         /\ write_pending_off' \in Nat
         /\ write_pending' = <<>> => write_pending_off' = 0
         /\ write_pending' # <<>> => write_pending_off' < Len(write_pending')
         /\ Rest' = Rest \o f
<1> DEFINE a == SubSeq(f, 1, n)  b == SubSeq(f, n + 1, Len(f))
<1>1. wire \in Seq(WireByte) /\ Rest = wire /\ write_pending_off = 0
  BY RestProperties, Zenon DEF TypeOK
<1>2. a \in Seq(WireByte) /\ b \in Seq(WireByte) /\ a \o b = f  BY CutConcat, Zenon
<1>3. wire' = wire \o a  BY Zenon
<1>4. Rest' = wire' \o SubSeq(write_pending', write_pending_off' + 1, Len(write_pending'))
  BY Zenon DEF Rest
<1>5. n \in Nat /\ Len(f) \in Nat /\ n <= Len(f)  OBVIOUS
<1>6. wire' \in Seq(WireByte)  BY <1>1, <1>2, <1>3, ConcatProperties, ZenonT(60)
<1>7. CASE n = Len(f)
  <2>1. write_pending' = <<>> /\ write_pending_off' = 0  BY <1>1, <1>7, Zenon
  <2>2. SubSeq(write_pending', write_pending_off' + 1, Len(write_pending')) = <<>>
    BY <2>1, NothingUnsent, Zenon
  <2>3. Rest' = wire'  BY <1>4, <1>6, <2>2, ConcatEmptySeq, Zenon
  <2>4. a = f  BY <1>7, SubSeqFull, Zenon
  <2>5. <<>> \in Seq(WireByte) /\ 0 \in Nat  OBVIOUS
  <2> QED BY <1>1, <1>3, <1>6, <2>1, <2>3, <2>4, <2>5, Zenon
<1>8. CASE n # Len(f)
  <2>1. write_pending' = f /\ write_pending_off' = n  BY <1>8, Zenon
  <2>2. Rest' = (wire \o a) \o b  BY <1>3, <1>4, <2>1, Zenon
  <2>3. (wire \o a) \o b = wire \o (a \o b)
    <3> HIDE DEF a, b
    <3>1. wire \in Seq(WireByte) /\ a \in Seq(WireByte) /\ b \in Seq(WireByte)  BY <1>1, <1>2, Zenon
    <3> QED BY <3>1, BytesAssociate, ZenonT(60)
  <2>4. n < Len(f)  BY <1>5, <1>8
  <2>5. f # <<>>
    <3>1. Len(f) # 0  BY <1>5
    <3>2. Len(<<>>) = 0  BY Zenon
    <3> QED BY <3>1, <3>2, Zenon
  <2> HIDE DEF a, b
  <2>6. Rest' = Rest \o f  BY <1>1, <1>2, <2>2, <2>3, Zenon
  <2> QED BY <1>5, <1>6, <2>1, <2>4, <2>5, <2>6, Zenon
<1> QED BY <1>7, <1>8, Zenon

-----------------------------------------------------------------------------
(* The steps of the writer                                                  *)

(* A step that leaves the reader alone leaves it where it is.                *)
LEMMA ReaderStays ==
  ASSUME NEW R, NEW co, NEW cp, ReaderAt(R, co, cp), UNCHANGED readVars,
         UNCHANGED write_frames_done
  PROVE  ReaderAt(R, co, cp)'
BY Zenon DEF ReaderAt, InData, InPadding, InHeader, InRaw, readVars

(* A step that decodes nothing.                                              *)
LEMMA InOrderStays ==
  ASSUME InOrder, UNCHANGED decoded
  PROVE  InOrder'
BY Zenon DEF InOrder

(* DrainPending moves bytes from write_pending to the wire.                  *)
LEMMA DrainStep ==
  ASSUME PadInv, NEW n, DrainPending(n)
  PROVE  PadInv'
<1>1. TypeOK /\ InOrder  BY Zenon DEF PadInv
<1>2. /\ wire' \in Seq(WireByte)
      /\ write_pending' \in Seq(WireByte)
      /\ write_pending_off' \in Nat
      /\ write_pending' = <<>> => write_pending_off' = 0
      /\ write_pending' # <<>> => write_pending_off' < Len(write_pending')
      /\ Rest' = Rest
  BY <1>1, DrainRest, Zenon
<1>3. /\ ~ fin /\ UNCHANGED <<write_frames_done, written, readVars, fin, broken, eof>>
  BY Zenon DEF DrainPending
<1>4. TypeOK'  BY <1>1, <1>2, <1>3, Zenon DEF TypeOK, readVars
<1>5. InOrder'  BY <1>1, <1>3, InOrderStays, Zenon DEF readVars
<1>6. PICK R \in Nat, co \in [0..write_frames_done -> Nat], cp \in [0..write_frames_done -> Nat] :
           Consistent(R, co, cp)
  BY Zenon DEF PadInv
<1>7. ReaderAt(R, co, cp)'  BY <1>3, <1>6, ReaderStays, Zenon DEF Consistent
<1>8. Consistent(R, co, cp)'  BY <1>2, <1>3, <1>6, <1>7, Zenon DEF Consistent
<1> QED BY <1>3, <1>4, <1>5, <1>6, <1>8, Zenon DEF PadInv

(* WriteRaw, after the last frame.                                           *)
LEMMA RawStep ==
  ASSUME PadInv, NEW n \in Nat, WriteRaw(n)
  PROVE  PadInv'
<1>1. TypeOK /\ InOrder  BY Zenon DEF PadInv
<1>2. /\ ~ fin /\ write_pending = <<>> /\ write_frames_done = PADDING_FRAMES
      /\ wire' = wire \o Chunk(n) /\ written' = written + n
      /\ UNCHANGED <<write_frames_done, write_pending, write_pending_off, readVars,
                     fin, broken, eof>>
  BY Zenon DEF WriteRaw
<1>3. wire \in Seq(WireByte) /\ written \in Nat  BY <1>1, Zenon DEF TypeOK
<1>4. /\ Chunk(n) \in Seq(WireByte) /\ Len(Chunk(n)) = n
      /\ \A x \in 1..n : Chunk(n)[x].byte = written + x
  BY <1>3, ChunkProperties, Zenon
<1>5. wire' \in Seq(WireByte) /\ written' \in Nat
  <2>1. wire' \in Seq(WireByte)  BY <1>2, <1>3, <1>4, ConcatProperties, Zenon
  <2>2. written' \in Nat  BY <1>2, <1>3
  <2> QED BY <2>1, <2>2, Zenon
<1>6. TypeOK'  BY <1>1, <1>2, <1>5, Zenon DEF TypeOK, readVars
<1>7. InOrder'  BY <1>1, <1>2, InOrderStays, Zenon DEF readVars
<1>8. Rest \in Seq(WireByte) /\ Rest' = Rest \o Chunk(n)
  <2>1. Rest = wire /\ Rest \in Seq(WireByte)  BY <1>1, <1>2, RestProperties, Zenon
  <2>2. write_pending' = <<>> /\ write_pending_off' = 0  BY <1>1, <1>2, Zenon DEF TypeOK
  <2>3. SubSeq(write_pending', write_pending_off' + 1, Len(write_pending')) = <<>>
    BY <2>2, NothingUnsent, Zenon
  <2>4. Rest' = wire'  BY <1>5, <2>3, ConcatEmptySeq, Zenon DEF Rest
  <2> QED BY <1>2, <2>1, <2>4, Zenon
<1>9. PICK R \in Nat, co \in [0..write_frames_done -> Nat], cp \in [0..write_frames_done -> Nat] :
           Consistent(R, co, cp)
  BY Zenon DEF PadInv
<1> DEFINE w == write_frames_done
<1>10. w \in Nat /\ w' = w /\ ~ (w < PADDING_FRAMES)
  <2>1. w = PADDING_FRAMES /\ w' = w  BY <1>2, Zenon
  <2> QED BY <2>1, PaddingAssumption
<1>11. /\ Layout(co, cp, w) /\ written >= cp[w] /\ Carries(Rest, R, co, cp, w, written)
       /\ ReaderAt(R, co, cp)
  BY <1>9, Zenon DEF Consistent
<1>12. Carries(Rest \o Chunk(n), R, co, cp, w, written + Len(Chunk(n)))
  <2> DEFINE c == Chunk(n)
  <2> HIDE DEF w
  <2>1. c \in Seq(WireByte) /\ \A x \in 1..Len(c) : c[x].byte = written + x  BY <1>4, Zenon
  <2>2. co \in [0..w -> Nat] /\ cp \in [0..w -> Nat]  BY <1>9, Zenon DEF w
  <2> HIDE DEF c
  <2>3. Carries(Rest \o c, R, co, cp, w, written + Len(c))
    BY <1>3, <1>8, <1>9, <1>10, <1>11, <2>1, <2>2, CarriesRaw, Zenon
  <2> QED BY <2>3, Zenon DEF c
<1>13. ReaderAt(R, co, cp)'  BY <1>2, <1>11, ReaderStays, Zenon
<1>14. written' >= cp[w]
  <2>1. cp[w] \in Nat  BY <1>9, <1>10
  <2> QED BY <1>2, <1>3, <1>11, <2>1
<1>15. Consistent(R, co, cp)'
  BY <1>2, <1>4, <1>8, <1>10, <1>11, <1>12, <1>13, <1>14, Zenon DEF Consistent
<1> QED BY <1>6, <1>7, <1>9, <1>10, <1>15, Zenon DEF PadInv

(* The reader's place does not move when a frame is added.                   *)
LEMMA ReaderStaysBehind ==
  ASSUME NEW R, NEW w \in Nat, NEW co, NEW cp, NEW co2, NEW cp2, NEW d, NEW pad,
         OneMore(co, cp, w, co2, cp2, d, pad), ReaderAt(R, co, cp),
         w = write_frames_done, write_frames_done' = w + 1,
         read_frames_done \in Nat, Len(read_hdr) \in Nat, UNCHANGED readVars
  PROVE  ReaderAt(R, co2, cp2)'
<1> DEFINE r == read_frames_done
<1>1. r \in Nat /\ r <= w  BY Zenon DEF ReaderAt
<1>2. r <= w + 1 /\ (r > 0 => r - 1 \in 0..w-1) /\ (r < w => r \in 0..w-1 /\ r < w + 1)
      /\ (r = w \/ r \in 0..w-1)
  BY <1>1
<1>3. co2[r] = co[r] /\ cp2[r] = cp[r]  BY <1>2, Zenon DEF OneMore
<1>4. r > 0 => DataOf(cp2, r - 1) = DataOf(cp, r - 1) /\ PadOf(co2, cp2, r - 1) = PadOf(co, cp, r - 1)
  BY <1>2, Zenon DEF OneMore
<1>5. r < w => DataOf(cp2, r) = DataOf(cp, r)  BY <1>2, Zenon DEF OneMore
<1>6. read_frames_done' = r /\ read_frames_done' <= write_frames_done'
  BY <1>2, Zenon DEF readVars
<1>7. CASE InData(R, co, cp)
  <2>1. InData(R, co2, cp2)'  BY <1>3, <1>4, <1>7, Zenon DEF InData, readVars
  <2> QED BY <1>6, <2>1, Zenon DEF ReaderAt
<1>8. CASE InPadding(R, co, cp)
  <2>1. InPadding(R, co2, cp2)'  BY <1>3, <1>8, Zenon DEF InPadding, readVars
  <2> QED BY <1>6, <2>1, Zenon DEF ReaderAt
<1>9. CASE InHeader(R, co, cp)
  <2>1. Len(read_hdr) > 1 => Len(read_hdr) > 0  OBVIOUS
  <2>2. InHeader(R, co2, cp2)'
    BY <1>2, <1>3, <1>5, <1>9, <2>1, Zenon DEF InHeader, readVars
  <2> QED BY <1>6, <2>2, Zenon DEF ReaderAt
<1>10. CASE InRaw(R, co, cp)
  <2>1. InRaw(R, co2, cp2)'  BY <1>3, <1>10, Zenon DEF InRaw, readVars
  <2> QED BY <1>6, <2>1, Zenon DEF ReaderAt
<1> QED BY <1>7, <1>8, <1>9, <1>10, Zenon DEF ReaderAt

(* WriteFrame, whatever part of the frame goes out at once.                  *)
LEMMA FrameStep ==
  ASSUME PadInv, NEW len \in Nat, NEW pad \in 0..(Radix - 1), NEW n, WriteFrame(len, pad, n)
  PROVE  PadInv'
<1> DEFINE d == Least(len, MAX_PADDED_PAYLOAD)  f == Frame(d, pad)  w == write_frames_done
<1>1. TypeOK /\ InOrder  BY Zenon DEF PadInv
<1>2. /\ ~ fin /\ write_pending = <<>> /\ w < PADDING_FRAMES /\ n \in 0..Len(f)
      /\ wire' = wire \o SubSeq(f, 1, n)
      /\ IF n = Len(f) THEN UNCHANGED <<write_pending, write_pending_off>>
                       ELSE write_pending' = f /\ write_pending_off' = n
      /\ w' = w + 1 /\ written' = written + d
      /\ UNCHANGED <<readVars, fin, broken, eof>>
  BY Zenon DEF WriteFrame
<1>3. d \in Nat /\ d <= MAX_PADDED_PAYLOAD
  <2>1. MAX_PADDED_PAYLOAD \in Nat
    <3>1. Radix \in Nat /\ Radix > 1  BY PaddingAssumption
    <3>2. Radix * Radix >= 1 /\ Radix * Radix \in Nat  BY <3>1
    <3> QED BY <3>2 DEF MAX_PADDED_PAYLOAD
  <2> QED BY <2>1 DEF Least
<1> HIDE DEF d
<1>4. w \in Nat /\ w + 1 \in Nat /\ w + 1 \in 0..PADDING_FRAMES /\ written \in Nat /\ pad \in Nat
  <2>1. w \in 0..PADDING_FRAMES /\ written \in Nat  BY <1>1, Zenon DEF TypeOK
  <2> QED BY <1>2, <2>1, PaddingAssumption
<1>5. f \in Seq(WireByte) /\ IsFrame(f, d, pad, written)
  BY <1>3, <1>4, FrameProperties, Zenon
<1> HIDE DEF f
<1>6. Len(f) > 0
  <2>1. Len(f) = 3 + d + pad  BY <1>5, Zenon DEF IsFrame
  <2> QED BY <1>3, <1>4, <2>1
<1>7. /\ wire' \in Seq(WireByte)
      /\ write_pending' \in Seq(WireByte)
      /\ write_pending_off' \in Nat
      /\ write_pending' = <<>> => write_pending_off' = 0
      /\ write_pending' # <<>> => write_pending_off' < Len(write_pending')
      /\ Rest' = Rest \o f
  BY <1>1, <1>2, <1>5, <1>6, FrameRest, Zenon
<1>8. written' \in Nat  BY <1>2, <1>3, <1>4
<1>9. TypeOK'  BY <1>1, <1>2, <1>4, <1>7, <1>8, Zenon DEF TypeOK, readVars
<1>10. InOrder'  BY <1>1, <1>2, InOrderStays, Zenon DEF readVars
<1>11. PICK R \in Nat, co \in [0..w -> Nat], cp \in [0..w -> Nat] : Consistent(R, co, cp)
  BY Zenon DEF PadInv
<1>12. /\ Layout(co, cp, w) /\ AllFramed(cp, w, written) /\ Carries(Rest, R, co, cp, w, written)
       /\ ReaderAt(R, co, cp)
  BY <1>2, <1>11, Zenon DEF Consistent
<1>13. PICK co2, cp2 : Grown(co, cp, w, co2, cp2, d, pad)
  BY <1>3, <1>4, <1>11, CanGrow, Zenon
<1>14. Rest \in Seq(WireByte)  BY <1>1, RestProperties, Zenon
<1>15. OneMore(co, cp, w, co2, cp2, d, pad)
  <2> HIDE DEF w
  <2> QED BY <1>3, <1>4, <1>11, <1>12, <1>13, LayoutFrame, Zenon
<1>16. Carries(Rest \o f, R, co2, cp2, w + 1, written + d)
  <2> HIDE DEF w
  <2> QED BY <1>3, <1>4, <1>5, <1>11, <1>12, <1>13, <1>14, CarriesFrame, Zenon
<1>17. ReaderAt(R, co2, cp2)'
  <2>1. read_frames_done \in Nat /\ Len(read_hdr) \in Nat  BY <1>1, PaddingAssumption DEF TypeOK
  <2>2. w' = w + 1 /\ UNCHANGED readVars  BY <1>2, Zenon
  <2> QED BY <1>4, <1>12, <1>15, <2>1, <2>2, ReaderStaysBehind, Zenon
<1>18. AllFramed(cp2, w + 1, written + d)
  BY <1>12, <1>15, Zenon DEF AllFramed, OneMore
<1>19. written + d >= cp2[w + 1]
  <2>1. written + d >= written + d  BY <1>3, <1>4
  <2> QED BY <1>18, <2>1, Zenon DEF AllFramed
<1>20. Consistent(R, co2, cp2)'
  BY <1>2, <1>7, <1>15, <1>16, <1>17, <1>18, <1>19, Zenon DEF Consistent, OneMore
<1>21. co2 \in [0..w' -> Nat] /\ cp2 \in [0..w' -> Nat]  BY <1>2, <1>13, Zenon DEF Grown
<1> QED BY <1>9, <1>10, <1>11, <1>20, <1>21, Zenon DEF PadInv

-----------------------------------------------------------------------------
(* The steps of the reader                                                  *)

(* How much the inner poll_read returns.                                     *)
LEMMA InnerTakes ==
  ASSUME TypeOK, NEW limit \in Nat, NEW n, Inner(n, limit)
  PROVE  n \in 1..Len(wire) /\ n <= limit /\ n \in Nat
<1>1. Len(wire) \in Nat  BY DEF TypeOK
<1>2. n \in 1..Least(limit, Len(wire))  BY Zenon DEF Inner
<1> QED BY <1>1, <1>2 DEF Least

(* The n bytes it takes are the next n of what is on its way.                *)
LEMMA TakeStep ==
  ASSUME TypeOK, NEW R \in Nat,
         NEW co \in [0..write_frames_done -> Nat], NEW cp \in [0..write_frames_done -> Nat],
         Consistent(R, co, cp), NEW n \in 1..Len(wire),
         wire' = SubSeq(wire, n + 1, Len(wire)), UNCHANGED writeVars
  PROVE  /\ wire' \in Seq(WireByte)
         /\ R + n \in Nat
         /\ Carries(Rest', R + n, co, cp, write_frames_done, written)
         /\ R + n <= co[write_frames_done] + (written - cp[write_frames_done])
         /\ \A x \in 1..n : wire[x] = At(Rest, R, R + x)
<1> DEFINE w == write_frames_done  t == written
<1>1. w \in Nat /\ t \in Nat  BY PaddingAssumption DEF TypeOK
<1>2. /\ Rest \in Seq(WireByte) /\ Len(wire) \in Nat /\ Len(Rest) \in Nat
      /\ Len(wire) <= Len(Rest)
      /\ \A i \in 1..Len(wire) : Rest[i] = wire[i]
  BY RestProperties, Zenon
<1>3. n \in Nat /\ n \in 0..Len(wire) /\ n \in 0..Len(Rest) /\ R + n \in Nat  BY <1>2
<1>4. wire' \in Seq(WireByte) /\ Rest' = SubSeq(Rest, n + 1, Len(Rest))
  BY <1>3, TakeRest, Zenon
<1>5. Layout(co, cp, w) /\ t >= cp[w] /\ Carries(Rest, R, co, cp, w, t)
  BY Zenon DEF Consistent
<1> HIDE DEF w, t
<1>6. co \in [0..w -> Nat] /\ cp \in [0..w -> Nat]  BY Zenon DEF w
<1>7. Carries(SubSeq(Rest, n + 1, Len(Rest)), R + n, co, cp, w, t)
  BY <1>1, <1>2, <1>3, <1>5, <1>6, CarriesDrop, Zenon
<1>8. R + n <= co[w] + (t - cp[w])
  <2>1. R + Len(Rest) = co[w] + (t - cp[w])  BY <1>5, Zenon DEF Carries
  <2>2. R + n <= R + Len(Rest)  BY <1>2, <1>3
  <2> QED BY <2>1, <2>2, Zenon
<1>9. ASSUME NEW x \in 1..n PROVE wire[x] = At(Rest, R, R + x)
  <2>1. x \in 1..Len(wire) /\ (R + x) - R = x  BY <1>2, <1>3
  <2> QED BY <1>2, <2>1, Zenon DEF At
<1> QED BY <1>3, <1>4, <1>7, <1>8, <1>9, Zenon DEF w, t

(* Payload bytes that follow the decoded ones are decoded.                   *)
LEMMA DecodeStep ==
  ASSUME decoded \in Seq(Nat), InOrder, NEW n \in Nat,
         \A x \in 1..n : wire[x].byte = Len(decoded) + x,
         decoded' = decoded \o Bytes(n)
  PROVE  /\ decoded' \in Seq(Nat)
         /\ Len(decoded') = Len(decoded) + n
         /\ InOrder'
         /\ decoded' = decoded \o [i \in 1..n |-> Len(decoded) + i]
<1> DEFINE b == [i \in 1..n |-> Len(decoded) + i]
<1>1. Bytes(n) = b  BY Zenon DEF Bytes
<1>2. Len(decoded) \in Nat  OBVIOUS
<1>3. b \in Seq(Nat) /\ Len(b) = n
  <2>1. \A i \in 1..n : Len(decoded) + i \in Nat  BY <1>2
  <2>2. b \in [1..n -> Nat]  BY <2>1, Zenon
  <2> HIDE DEF b
  <2> QED BY <2>2
<1>4. \A i \in 1..n : b[i] = Len(decoded) + i  BY Zenon
<1> HIDE DEF b
<1>5. /\ decoded \o b \in Seq(Nat) /\ Len(decoded \o b) = Len(decoded) + Len(b)
      /\ \A i \in 1..(Len(decoded) + Len(b)) :
            (decoded \o b)[i] = IF i <= Len(decoded) THEN decoded[i] ELSE b[i - Len(decoded)]
  BY <1>3, ConcatProperties, Zenon
<1>6. decoded' = decoded \o b  BY <1>1, Zenon
<1>7. Len(decoded') = Len(decoded) + n  BY <1>3, <1>5, <1>6, Zenon
<1>8. ASSUME NEW i \in 1..Len(decoded') PROVE decoded'[i] = i
  <2>1. i \in 1..(Len(decoded) + Len(b))  BY <1>3, <1>7, <1>8, Zenon
  <2>2. (decoded \o b)[i] = IF i <= Len(decoded) THEN decoded[i] ELSE b[i - Len(decoded)]
    BY <1>5, <2>1, Zenon
  <2>3. CASE i <= Len(decoded)
    <3>1. i \in 1..Len(decoded)  BY <1>2, <1>3, <2>1, <2>3
    <3> QED BY <1>6, <2>2, <2>3, <3>1, Zenon DEF InOrder
  <2>4. CASE ~ (i <= Len(decoded))
    <3>1. i - Len(decoded) \in 1..n /\ Len(decoded) + (i - Len(decoded)) = i
      BY <1>2, <1>3, <2>1, <2>4
    <3> QED BY <1>4, <1>6, <2>2, <2>4, <3>1, Zenon
  <2> QED BY <2>3, <2>4, Zenon
<1>9. InOrder'  BY <1>8, Zenon DEF InOrder
<1> QED BY <1>5, <1>6, <1>7, <1>9, Zenon DEF b

(* At the end of the data of a frame, with s bytes of padding to skip.       *)
LEMMA FrameDone ==
  ASSUME NEW R, NEW co, NEW cp, NEW s \in Nat,
         NEW r \in 0..PADDING_FRAMES, read_frames_done' = r, r <= write_frames_done',
         co[r] \in Nat, cp[r] \in Nat, R = co[r] - s, Len(decoded') = cp[r],
         read_hdr' = <<>>, read_data_rem' = 0, read_pending_skip' = 0, read_skip_rem' = s
  PROVE  ReaderAt(R, co, cp)'
<1>1. CASE s > 0
  <2>1. InPadding(R, co, cp)'  BY <1>1, Zenon DEF InPadding
  <2> QED BY <2>1, Zenon DEF ReaderAt
<1>2. CASE s = 0 /\ r < PADDING_FRAMES
  <2>1. Len(<<>>) = 0 /\ 0 < 3 /\ ~ (0 > 0) /\ ~ (0 > 1)  OBVIOUS
  <2>2. R = co[r] + 0  BY <1>2
  <2>3. InHeader(R, co, cp)'  BY <1>2, <2>1, <2>2, Zenon DEF InHeader
  <2> QED BY <2>3, Zenon DEF ReaderAt
<1>3. CASE s = 0 /\ r = PADDING_FRAMES
  <2>1. R = co[r] + (cp[r] - cp[r]) /\ cp[r] >= cp[r]  BY <1>3
  <2>2. InRaw(R, co, cp)'  BY <1>3, <2>1, Zenon DEF InRaw
  <2> QED BY <2>2, Zenon DEF ReaderAt
<1>4. (s > 0 \/ s = 0) /\ (r < PADDING_FRAMES \/ r = PADDING_FRAMES)  BY PaddingAssumption
<1> QED BY <1>1, <1>2, <1>3, <1>4, Zenon

(* A step of the reader to byte R2 of the same layout.                       *)
LEMMA ReaderCloses ==
  ASSUME TypeOK', InOrder', NEW R, NEW R2 \in Nat,
         NEW co \in [0..write_frames_done -> Nat], NEW cp \in [0..write_frames_done -> Nat],
         Consistent(R, co, cp), UNCHANGED writeVars,
         Carries(Rest', R2, co, cp, write_frames_done, written),
         ReaderAt(R2, co, cp)'
  PROVE  PadInv'
<1>1. write_frames_done' = write_frames_done /\ written' = written  BY Zenon DEF writeVars
<1>2. Consistent(R2, co, cp)'  BY <1>1, Zenon DEF Consistent
<1> QED BY <1>1, <1>2, Zenon DEF PadInv

(* Where the reader's frame starts and ends.                                 *)
LEMMA ReaderFrame ==
  ASSUME TypeOK, NEW R, NEW co \in [0..write_frames_done -> Nat],
         NEW cp \in [0..write_frames_done -> Nat], Consistent(R, co, cp)
  PROVE  /\ read_frames_done \in Nat /\ read_frames_done \in 0..PADDING_FRAMES
         /\ read_frames_done <= write_frames_done
         /\ co[read_frames_done] \in Nat /\ cp[read_frames_done] \in Nat
<1>1. read_frames_done <= write_frames_done  BY Zenon DEF Consistent, ReaderAt
<1>2. read_frames_done \in 0..PADDING_FRAMES /\ write_frames_done \in 0..PADDING_FRAMES
  BY Zenon DEF TypeOK
<1>3. read_frames_done \in 0..write_frames_done /\ read_frames_done \in Nat
  BY <1>1, <1>2, PaddingAssumption
<1>4. co[read_frames_done] \in Nat /\ cp[read_frames_done] \in Nat  BY <1>3, Zenon
<1> QED BY <1>1, <1>2, <1>3, <1>4, Zenon

(* ReadSkip stays inside the padding, or ends the frame.                     *)
LEMMA SkipStep ==
  ASSUME PadInv, NEW n, ReadSkip(n)
  PROVE  PadInv'
<1>1. TypeOK /\ InOrder  BY Zenon DEF PadInv
<1>2. /\ read_data_rem = 0 /\ read_skip_rem > 0 /\ Inner(n, read_skip_rem)
      /\ read_skip_rem' = read_skip_rem - n
      /\ UNCHANGED <<writeVars, read_frames_done, read_hdr, read_data_rem, read_pending_skip,
                     decoded, fin, broken, eof>>
  BY Zenon DEF ReadSkip
<1>3. read_skip_rem \in Nat  BY <1>1, Zenon DEF TypeOK
<1>4. n \in 1..Len(wire) /\ n <= read_skip_rem /\ n \in Nat  BY <1>1, <1>2, <1>3, InnerTakes, Zenon
<1>5. wire' = SubSeq(wire, n + 1, Len(wire))  BY <1>2, Zenon DEF Inner
<1>6. PICK R \in Nat, co \in [0..write_frames_done -> Nat], cp \in [0..write_frames_done -> Nat] :
           Consistent(R, co, cp)
  BY Zenon DEF PadInv
<1>7. /\ wire' \in Seq(WireByte) /\ R + n \in Nat
      /\ Carries(Rest', R + n, co, cp, write_frames_done, written)
  BY <1>1, <1>2, <1>4, <1>5, <1>6, TakeStep, Zenon
<1>8. read_skip_rem - n \in Nat  BY <1>3, <1>4
<1>9. TypeOK'  BY <1>1, <1>2, <1>7, <1>8, Zenon DEF TypeOK, writeVars
<1>10. InOrder'  BY <1>1, <1>2, InOrderStays, Zenon
<1> DEFINE r == read_frames_done
<1>11. /\ r \in 0..PADDING_FRAMES /\ r <= write_frames_done /\ co[r] \in Nat /\ cp[r] \in Nat
  BY <1>1, <1>6, ReaderFrame, Zenon
<1>12. InPadding(R, co, cp)
  <2>1. ~ (0 > 0)  OBVIOUS
  <2>2. read_skip_rem # 0  BY <1>2, <1>3
  <2> QED BY <1>2, <1>6, <2>1, <2>2, Zenon DEF Consistent, ReaderAt, InData, InHeader, InRaw
<1>13. /\ read_pending_skip = 0 /\ read_hdr = <<>> /\ Len(decoded) = cp[r]
       /\ R = co[r] - read_skip_rem
  BY <1>12, Zenon DEF InPadding
<1>14. R + n = co[r] - (read_skip_rem - n)  BY <1>3, <1>4, <1>11, <1>13, SMTT(20)
<1>15. write_frames_done' = write_frames_done  BY <1>2, Zenon DEF writeVars
<1>16. ReaderAt(R + n, co, cp)'
  BY <1>2, <1>8, <1>11, <1>13, <1>14, <1>15, FrameDone, Zenon
<1> QED BY <1>2, <1>6, <1>7, <1>9, <1>10, <1>16, ReaderCloses, Zenon

(* ReadRaw returns what was written raw.                                     *)
LEMMA RawReadStep ==
  ASSUME PadInv, NEW n, ReadRaw(n)
  PROVE  PadInv'
<1>1. TypeOK /\ InOrder  BY Zenon DEF PadInv
<1>2. /\ read_data_rem = 0 /\ read_skip_rem = 0 /\ read_frames_done = PADDING_FRAMES
      /\ Inner(n, MaxChunk)
      /\ decoded' = decoded \o Bytes(n)
      /\ UNCHANGED <<writeVars, read_frames_done, read_hdr, read_data_rem, read_skip_rem,
                     read_pending_skip, fin, broken, eof>>
  BY Zenon DEF ReadRaw
<1>3. MaxChunk \in Nat /\ decoded \in Seq(Nat) /\ written \in Nat
  BY <1>1, PaddingAssumption, Zenon DEF TypeOK
<1>4. n \in 1..Len(wire) /\ n \in Nat  BY <1>1, <1>2, <1>3, InnerTakes, Zenon
<1>5. wire' = SubSeq(wire, n + 1, Len(wire))  BY <1>2, Zenon DEF Inner
<1>6. PICK R \in Nat, co \in [0..write_frames_done -> Nat], cp \in [0..write_frames_done -> Nat] :
           Consistent(R, co, cp)
  BY Zenon DEF PadInv
<1> DEFINE w == write_frames_done
<1>7. /\ wire' \in Seq(WireByte) /\ R + n \in Nat
      /\ Carries(Rest', R + n, co, cp, w, written)
      /\ R + n <= co[w] + (written - cp[w])
      /\ \A x \in 1..n : wire[x] = At(Rest, R, R + x)
  BY <1>1, <1>2, <1>4, <1>5, <1>6, TakeStep, Zenon
<1>8. read_frames_done = w /\ co[w] \in Nat /\ cp[w] \in Nat
  <2>1. /\ read_frames_done <= w /\ co[read_frames_done] \in Nat /\ cp[read_frames_done] \in Nat
    BY <1>1, <1>6, ReaderFrame, Zenon
  <2>2. w \in 0..PADDING_FRAMES  BY <1>1, Zenon DEF TypeOK
  <2>3. read_frames_done = w  BY <1>2, <2>1, <2>2, PaddingAssumption
  <2> QED BY <2>1, <2>3, Zenon
<1>9. InRaw(R, co, cp)
  <2>1. ~ (0 > 0) /\ ~ (PADDING_FRAMES < PADDING_FRAMES)  BY PaddingAssumption
  <2> QED BY <1>2, <1>6, <2>1, Zenon DEF Consistent, ReaderAt, InData, InPadding, InHeader
<1> DEFINE l == Len(decoded)  e == co[w]  g == cp[w]
<1>10. l \in Nat /\ e \in Nat /\ g \in Nat /\ l >= g /\ R = e + (l - g) /\ R + n <= e + (written - g)
  <2>1. l \in Nat  BY <1>3
  <2>2. l >= g /\ R = e + (l - g)  BY <1>8, <1>9, Zenon DEF InRaw
  <2> QED BY <1>7, <1>8, <2>1, <2>2, Zenon
<1>11. \A x \in 1..(written - g) : R < e + x => At(Rest, R, e + x).byte = g + x
  BY <1>6, Zenon DEF Consistent, Carries
<1> HIDE DEF l, e, g
<1>12. ASSUME NEW x \in 1..n PROVE wire[x].byte = l + x
  <2> DEFINE y == (l - g) + x
  <2>1. y \in 1..(written - g) /\ R < e + y /\ e + y = R + x /\ g + y = l + x
    BY <1>3, <1>4, <1>10
  <2> HIDE DEF y
  <2> QED BY <1>7, <1>11, <2>1, Zenon
<1>13. decoded' \in Seq(Nat) /\ Len(decoded') = l + n /\ InOrder'
  BY <1>1, <1>2, <1>3, <1>4, <1>12, DecodeStep, Zenon DEF l
<1>14. TypeOK'  BY <1>1, <1>2, <1>7, <1>13, Zenon DEF TypeOK, writeVars
<1>15. InRaw(R + n, co, cp)'
  <2>1. R + n = e + ((l + n) - g) /\ l + n >= g  BY <1>4, <1>10
  <2>2. /\ read_pending_skip = 0 /\ read_hdr = <<>>  BY <1>9, Zenon DEF InRaw
  <2> QED BY <1>2, <1>8, <1>13, <2>1, <2>2, Zenon DEF InRaw, e, g
<1>16. ReaderAt(R + n, co, cp)'
  <2>1. read_frames_done' = w' /\ w' = w  BY <1>2, <1>8, Zenon DEF writeVars
  <2>2. w <= w  BY <1>1, PaddingAssumption DEF TypeOK
  <2> QED BY <1>15, <2>1, <2>2, Zenon DEF ReaderAt
<1> QED BY <1>2, <1>6, <1>7, <1>13, <1>14, <1>16, ReaderCloses, Zenon

(* ReadData returns the payload of the frame, and no more.                   *)
LEMMA DataStep ==
  ASSUME PadInv, NEW n, ReadData(n)
  PROVE  PadInv'
<1> DEFINE rem == read_data_rem  P == read_pending_skip  r == read_frames_done
           w == write_frames_done
<1>1. TypeOK /\ InOrder  BY Zenon DEF PadInv
<1>2. /\ rem > 0 /\ Inner(n, Least(MaxChunk, rem))
      /\ decoded' = decoded \o Bytes(n)
      /\ rem' = rem - n
      /\ IF n = rem THEN read_skip_rem' = P /\ P' = 0 ELSE UNCHANGED <<read_skip_rem, read_pending_skip>>
      /\ UNCHANGED <<writeVars, read_frames_done, read_hdr, fin, broken, eof>>
  BY Zenon DEF ReadData
<1>3. rem \in Nat /\ P \in Nat /\ decoded \in Seq(Nat) /\ Len(decoded) \in Nat
      /\ w \in Nat /\ r \in 0..PADDING_FRAMES
  BY <1>1, PaddingAssumption DEF TypeOK
<1>4. n \in 1..Len(wire) /\ n \in Nat /\ n <= rem /\ n >= 1
  <2> DEFINE lim == Least(MaxChunk, rem)
  <2>1. lim \in Nat /\ lim <= rem  BY <1>3, PaddingAssumption DEF Least
  <2> HIDE DEF lim
  <2>2. n \in 1..Len(wire) /\ n <= lim /\ n \in Nat
    BY <1>1, <1>2, <2>1, InnerTakes, Zenon DEF lim
  <2>3. Len(wire) \in Nat  BY <1>1 DEF TypeOK
  <2> QED BY <1>3, <2>1, <2>2, <2>3
<1>5. wire' = SubSeq(wire, n + 1, Len(wire))  BY <1>2, Zenon DEF Inner
<1>6. PICK R \in Nat, co \in [0..w -> Nat], cp \in [0..w -> Nat] : Consistent(R, co, cp)
  BY Zenon DEF PadInv
<1>7. /\ wire' \in Seq(WireByte) /\ R + n \in Nat
      /\ Carries(Rest', R + n, co, cp, w, written)
      /\ \A x \in 1..n : wire[x] = At(Rest, R, R + x)
  BY <1>1, <1>2, <1>4, <1>5, <1>6, TakeStep, Zenon
<1>8. r <= w /\ co[r] \in Nat /\ cp[r] \in Nat
  BY <1>1, <1>6, ReaderFrame, Zenon
<1>9. InData(R, co, cp)
  <2>1. rem # 0  BY <1>2, <1>3
  <2> QED BY <1>6, <2>1, Zenon DEF Consistent, ReaderAt, InPadding, InHeader, InRaw
<1> DEFINE i == r - 1  D == DataOf(cp, i)  c == co[i]  g == cp[i]  l == Len(decoded)
<1>10. /\ r > 0 /\ read_skip_rem = 0 /\ read_hdr = <<>>
       /\ P = PadOf(co, cp, i) /\ rem <= D
       /\ l = cp[r] - rem /\ R = co[r] - P - rem
  BY <1>9, Zenon DEF InData
<1>11. i \in 0..w-1 /\ i + 1 = r  BY <1>3, <1>8, <1>10
<1>12. /\ c \in Nat /\ g \in Nat /\ D \in Nat
       /\ co[r] = c + 3 + D + P /\ cp[r] = g + D
       /\ FrameAt(Rest, R, co, cp, i)
  <2>1. Layout(co, cp, w) /\ Carries(Rest, R, co, cp, w, written)  BY <1>6, Zenon DEF Consistent
  <2>2. FrameAt(Rest, R, co, cp, i)  BY <1>11, <2>1, Zenon DEF Carries
  <2> HIDE DEF i, w
  <2>3. /\ co[i] \in Nat /\ cp[i] \in Nat /\ DataOf(cp, i) \in Nat
        /\ cp[i + 1] = cp[i] + DataOf(cp, i)
        /\ co[i + 1] = co[i] + 3 + DataOf(cp, i) + PadOf(co, cp, i)
    BY <1>3, <1>6, <1>11, <2>1, FrameBounds, Zenon
  <2> QED BY <1>10, <1>11, <2>2, <2>3, Zenon
<1> HIDE DEF rem, P, r, w, i, D, c, g, l
<1>13. /\ c \in Nat /\ g \in Nat /\ D \in Nat /\ P \in Nat /\ rem \in Nat /\ rem <= D
       /\ n \in Nat /\ n >= 1 /\ n <= rem
       /\ l \in Nat /\ l = (g + D) - rem
       /\ R \in Nat /\ R = (c + 3 + D + P) - P - rem
  <2>1. l \in Nat  BY <1>3, Zenon DEF l
  <2> QED BY <1>3, <1>4, <1>6, <1>10, <1>12, <2>1, Zenon
<1>14. ASSUME NEW x \in 1..n PROVE wire[x].byte = l + x
  <2> DEFINE y == (D - rem) + x
  <2>1. x \in Nat /\ x >= 1 /\ x <= rem  BY <1>13
  <2>2. y \in 1..D /\ R < c + 3 + y /\ R + x = c + 3 + y /\ g + y = ((g + D) - rem) + x
    BY <1>13, <2>1
  <2> HIDE DEF y
  <2>3. At(Rest, R, c + 3 + y).byte = g + y  BY <1>12, <2>2, Zenon DEF FrameAt, D, c, g
  <2> QED BY <1>7, <1>13, <2>2, <2>3, Zenon
<1>15. decoded' \in Seq(Nat) /\ Len(decoded') = l + n /\ InOrder'
  BY <1>1, <1>2, <1>3, <1>4, <1>14, DecodeStep, Zenon DEF l
<1>16. rem - n \in Nat /\ (n # rem => rem - n > 0) /\ (n = rem => rem - n = 0)  BY <1>3, <1>4
<1>17. 0 \in Nat  BY Zenon
<1>18. TypeOK'
  <2>1. P' \in Nat /\ read_skip_rem' \in Nat  BY <1>1, <1>2, <1>3, <1>17, Zenon DEF TypeOK, P
  <2> QED BY <1>1, <1>2, <1>7, <1>15, <1>16, <2>1, Zenon DEF TypeOK, writeVars, rem, P
<1>19. w' = w /\ r' = r  BY <1>2, Zenon DEF writeVars, w, r
<1>20. ReaderAt(R + n, co, cp)'
  <2>1. CASE n = rem
    <3>1. R + n = (c + 3 + D + P) - P /\ l + n = g + D  BY <1>13, <2>1
    <3>2. R + n = co[r] - P /\ l + n = cp[r]  BY <1>12, <3>1, Zenon
    <3>3. /\ read_frames_done' = r /\ read_skip_rem' = P /\ read_pending_skip' = 0
          /\ read_data_rem' = 0 /\ read_hdr' = <<>>
      BY <1>2, <1>10, <1>16, <1>19, <2>1, Zenon DEF r, P, rem
    <3>4. Len(decoded') = cp[r]  BY <1>15, <3>2, Zenon
    <3>5. r <= write_frames_done'  BY <1>8, <1>19, Zenon DEF w
    <3> QED BY <1>3, <1>8, <3>2, <3>3, <3>4, <3>5, FrameDone, Zenon
  <2>2. CASE n # rem
    <3>1. /\ R + n = (c + 3 + D + P) - P - (rem - n) /\ l + n = (g + D) - (rem - n)
          /\ rem - n <= D
      BY <1>13
    <3>2. R + n = co[r] - P - (rem - n) /\ l + n = cp[r] - (rem - n)  BY <1>12, <3>1, Zenon
    <3>3. read_skip_rem' = 0 /\ P' = P /\ rem' = rem - n /\ read_hdr' = <<>>
      BY <1>2, <1>10, <2>2, Zenon DEF P
    <3>4. InData(R + n, co, cp)'
      BY <1>10, <1>15, <1>16, <1>19, <2>2, <3>1, <3>2, <3>3, Zenon DEF InData, r, P, rem, i, D
    <3> QED BY <1>8, <1>19, <3>4, Zenon DEF ReaderAt, r, w
  <2> QED BY <2>1, <2>2, Zenon
<1> QED BY <1>2, <1>6, <1>7, <1>15, <1>18, <1>20, ReaderCloses, Zenon DEF w

(* The header bytes taken so far, with n more.                               *)
HeaderSoFar(n) == read_hdr \o [i \in 1..n |-> wire[i].val]

NextBytes(R, n) == \A x \in 1..n : wire[x] = At(Rest, R, R + x)

(* They are those of frame r + 1, which the writer has begun: while frames   *)
(* are left to write, no byte follows the last one.                          *)
LEMMA HeaderBytes ==
  ASSUME TypeOK, NEW R \in Nat,
         NEW co \in [0..write_frames_done -> Nat], NEW cp \in [0..write_frames_done -> Nat],
         Consistent(R, co, cp), InHeader(R, co, cp),
         NEW n \in 1..Len(wire), n <= 3 - Len(read_hdr), NextBytes(R, n)
  PROVE  /\ read_frames_done \in 0..write_frames_done-1
         /\ HeaderSoFar(n) \in Seq(Nat)
         /\ Len(HeaderSoFar(n)) = Len(read_hdr) + n
         /\ HeaderSoFar(n)[1] = DataOf(cp, read_frames_done) \div Radix
         /\ Len(HeaderSoFar(n)) > 1 => HeaderSoFar(n)[2] = DataOf(cp, read_frames_done) % Radix
         /\ Len(HeaderSoFar(n)) > 2 => HeaderSoFar(n)[3] = PadOf(co, cp, read_frames_done)
<1> DEFINE r == read_frames_done  w == write_frames_done
<1>0. r \in Nat /\ w \in Nat /\ (\A x \in 1..n : wire[x] = At(Rest, R, R + x))
  BY PaddingAssumption DEF TypeOK, NextBytes
<1> DEFINE h == read_hdr  L == Len(read_hdr)  v == [i \in 1..n |-> wire[i].val]
           k == HeaderSoFar(n)
<1>1. h \in Seq(Nat) /\ L \in Nat /\ Len(wire) \in Nat /\ n \in Nat
  <2>1. h \in Seq(Nat) /\ wire \in Seq(WireByte)  BY Zenon DEF TypeOK
  <2>2. L \in Nat /\ Len(wire) \in Nat  BY <2>1, LenProperties, Zenon
  <2> QED BY <2>1, <2>2
<1>2. v \in Seq(Nat) /\ Len(v) = n
  <2>1. ASSUME NEW i \in 1..n PROVE wire[i].val \in Nat
    <3>1. i \in 1..Len(wire)  BY <1>1
    <3>2. wire[i] \in WireByte  BY <3>1, ElementOfSeq, Zenon DEF TypeOK
    <3>3. wire[i].val \in 0..(Radix - 1)  BY <3>2, Zenon DEF WireByte
    <3> QED BY <3>3, PaddingAssumption
  <2>2. v \in [1..n -> Nat]  BY <2>1, Zenon
  <2> HIDE DEF v
  <2> QED BY <1>1, <2>2, SMTT(20)
<1>3. \A i \in 1..n : v[i] = wire[i].val  BY Zenon
<1>4. k = h \o v  BY Zenon DEF HeaderSoFar
<1> HIDE DEF h, L, v, k
<1>5. /\ h \o v \in Seq(Nat) /\ Len(h \o v) = Len(h) + Len(v)
      /\ \A i \in 1..(Len(h) + Len(v)) :
            (h \o v)[i] = IF i <= Len(h) THEN h[i] ELSE v[i - Len(h)]
  BY <1>1, <1>2, ConcatProperties, Zenon
<1>6. k \in Seq(Nat) /\ Len(k) = L + n
  BY <1>2, <1>4, <1>5, Zenon DEF L, h
<1>7. /\ L < 3 /\ R = co[r] + L /\ r < PADDING_FRAMES
      /\ L > 0 => h[1] = DataOf(cp, r) \div Radix
      /\ L > 1 => h[2] = DataOf(cp, r) % Radix
  BY Zenon DEF InHeader, h, L
<1>8. r <= w /\ co[r] \in Nat
  BY ReaderFrame, Zenon
<1> HIDE DEF r, w
<1>9. r \in 0..w-1
  <2>1. SUFFICES ASSUME r = w PROVE FALSE  BY <1>0, <1>8
  <2>2. written = cp[w] /\ R + Len(Rest) = co[w] + (written - cp[w])
    BY <1>7, <2>1, Zenon DEF Consistent, AllFramed, Carries, w
  <2>3. Len(Rest) \in Nat /\ Len(wire) <= Len(Rest)  BY RestProperties, Zenon
  <2>4. written \in Nat  BY Zenon DEF TypeOK
  <2>5. R = co[w] + L /\ co[w] \in Nat  BY <1>7, <1>8, <2>1, Zenon
  <2>6. R + Len(Rest) = co[w] + (written - written)  BY <2>2, Zenon
  <2>7. R + Len(Rest) = co[w]  BY <2>4, <2>5, <2>6
  <2>8. Len(Rest) >= 1  BY <1>1, <2>3
  <2> DEFINE e == co[w]  q == Len(Rest)
  <2>9. R = e + L /\ e \in Nat /\ R + q = e /\ q \in Nat /\ q >= 1
    BY <2>3, <2>5, <2>7, <2>8, Zenon
  <2> HIDE DEF e, q
  <2> QED BY <1>1, <2>9
<1>10. FrameAt(Rest, R, co, cp, r)  BY <1>9, Zenon DEF Consistent, Carries, w
<1>11. ASSUME NEW j \in 1..3, j <= L + n
       PROVE  k[j] = IF j <= L THEN h[j] ELSE At(Rest, R, co[r] + j).val
  <2>1. j \in 1..(L + n)  BY <1>1, <1>11
  <2>2. k[j] = IF j <= L THEN h[j] ELSE v[j - L]
    BY <1>2, <1>4, <1>5, <2>1, Zenon DEF L, h
  <2>3. CASE j <= L  BY <2>2, <2>3, Zenon
  <2>4. CASE ~ (j <= L)
    <3> DEFINE e == co[r]
    <3>1. e \in Nat /\ R = e + L  BY <1>7, <1>8, Zenon
    <3> HIDE DEF e
    <3>2. j - L \in 1..n /\ R + (j - L) = e + j  BY <1>1, <2>1, <2>4, <3>1
    <3>3. v[j - L] = wire[j - L].val /\ wire[j - L] = At(Rest, R, R + (j - L))
      BY <1>0, <1>3, <3>2, Zenon
    <3> QED BY <2>2, <2>4, <3>2, <3>3, Zenon DEF e
  <2> QED BY <2>3, <2>4, Zenon
<1>12. ASSUME NEW j \in 1..3, ~ (j <= L) PROVE R < co[r] + j
  <2> DEFINE e == co[r]
  <2>1. e \in Nat /\ R = e + L  BY <1>7, <1>8, Zenon
  <2> HIDE DEF e
  <2>2. R < e + j  BY <1>1, <1>12, <2>1
  <2> QED BY <2>2, Zenon DEF e
<1>13. 1 \in 1..3 /\ 2 \in 1..3 /\ 3 \in 1..3  OBVIOUS
<1>14. k[1] = DataOf(cp, r) \div Radix
  <2>1. 1 <= L + n /\ (1 <= L <=> L > 0)  BY <1>1
  <2> QED BY <1>7, <1>10, <1>11, <1>12, <1>13, <2>1, Zenon DEF FrameAt
<1>15. ASSUME L + n > 1 PROVE k[2] = DataOf(cp, r) % Radix
  <2>1. 2 <= L + n /\ (2 <= L <=> L > 1)  BY <1>1, <1>15
  <2> QED BY <1>7, <1>10, <1>11, <1>12, <1>13, <2>1, Zenon DEF FrameAt
<1>16. ASSUME L + n > 2 PROVE k[3] = PadOf(co, cp, r)
  <2>1. 3 <= L + n /\ ~ (3 <= L)  BY <1>1, <1>7, <1>16
  <2> QED BY <1>10, <1>11, <1>12, <1>13, <2>1, Zenon DEF FrameAt
<1> QED BY <1>6, <1>9, <1>14, <1>15, <1>16, Zenon DEF k, L, r, w

(* ReadHeader takes the lengths the writer put in.                           *)
LEMMA HeaderStep ==
  ASSUME PadInv, NEW n, ReadHeader(n)
  PROVE  PadInv'
<1> DEFINE r == read_frames_done  w == write_frames_done  L == Len(read_hdr)
           k == HeaderSoFar(n)  size == k[1] * Radix + k[2]
<1>1. TypeOK /\ InOrder  BY Zenon DEF PadInv
<1>2. /\ read_data_rem = 0 /\ read_skip_rem = 0 /\ r < PADDING_FRAMES
      /\ Inner(n, 3 - L)
      /\ UNCHANGED <<writeVars, decoded, fin, broken, eof>>
  BY Zenon DEF ReadHeader
<1>3. \/ /\ Len(k) < 3 /\ read_hdr' = k
         /\ UNCHANGED <<read_frames_done, read_data_rem, read_skip_rem, read_pending_skip>>
      \/ /\ ~ (Len(k) < 3) /\ read_hdr' = <<>> /\ r' = r + 1
         /\ read_data_rem' = size
         /\ read_skip_rem' = IF size = 0 THEN k[3] ELSE 0
         /\ read_pending_skip' = IF size = 0 THEN 0 ELSE k[3]
  BY Zenon DEF ReadHeader, HeaderSoFar
<1>4. PICK R \in Nat, co \in [0..w -> Nat], cp \in [0..w -> Nat] : Consistent(R, co, cp)
  BY Zenon DEF PadInv
<1>5. InHeader(R, co, cp)
  <2>1. ~ (0 > 0)  OBVIOUS
  <2>2. r # PADDING_FRAMES  BY <1>1, <1>2, PaddingAssumption DEF TypeOK
  <2> QED BY <1>2, <1>4, <2>1, <2>2, Zenon DEF Consistent, ReaderAt, InData, InPadding, InRaw
<1>6. L \in Nat /\ L < 3 /\ 3 - L \in Nat /\ R = co[r] + L /\ Len(decoded) = cp[r]
  <2>1. read_hdr \in Seq(Nat)  BY <1>1, Zenon DEF TypeOK
  <2>2. L < 3 /\ R = co[r] + L /\ Len(decoded) = cp[r]  BY <1>5, Zenon DEF InHeader
  <2>3. L \in Nat  BY <2>1
  <2>4. 3 - L \in Nat  BY <2>2, <2>3
  <2> QED BY <2>2, <2>3, <2>4, Zenon
<1>7. n \in 1..Len(wire) /\ n <= 3 - L /\ n \in Nat  BY <1>1, <1>2, <1>6, InnerTakes, Zenon
<1>8. wire' = SubSeq(wire, n + 1, Len(wire))  BY <1>2, Zenon DEF Inner
<1>9. /\ wire' \in Seq(WireByte) /\ R + n \in Nat
      /\ Carries(Rest', R + n, co, cp, w, written)
      /\ \A x \in 1..n : wire[x] = At(Rest, R, R + x)
  BY <1>1, <1>2, <1>4, <1>7, <1>8, TakeStep, Zenon
<1>10. w \in Nat /\ r \in Nat /\ co[r] \in Nat /\ cp[r] \in Nat
  <2>1. w \in Nat  BY <1>1, PaddingAssumption DEF TypeOK
  <2> QED BY <1>1, <1>4, <2>1, ReaderFrame, Zenon
<1>11. /\ r \in 0..w-1
       /\ k \in Seq(Nat)
       /\ Len(k) = L + n
       /\ k[1] = DataOf(cp, r) \div Radix
       /\ Len(k) > 1 => k[2] = DataOf(cp, r) % Radix
       /\ Len(k) > 2 => k[3] = PadOf(co, cp, r)
  <2>1. NextBytes(R, n)  BY <1>9, Zenon DEF NextBytes
  <2> QED BY <1>1, <1>4, <1>5, <1>7, <2>1, HeaderBytes, Zenon
<1>12. InOrder'  BY <1>1, <1>2, InOrderStays, Zenon
<1>13. w' = w  BY <1>2, Zenon DEF writeVars
<1> HIDE DEF L, k, size
<1>14. CASE Len(k) < 3
  <2>1. /\ read_hdr' = k
        /\ UNCHANGED <<read_frames_done, read_data_rem, read_skip_rem, read_pending_skip>>
    BY <1>3, <1>14, Zenon
  <2>2. TypeOK'  BY <1>1, <1>2, <1>9, <1>11, <2>1, Zenon DEF TypeOK, writeVars
  <2>3. R + n = co[r] + (L + n)
    <3> DEFINE c == co[r]
    <3>1. c \in Nat /\ R = c + L  BY <1>6, <1>10, Zenon
    <3> HIDE DEF c
    <3>2. R + n = c + (L + n)  BY <1>6, <1>7, <3>1
    <3> QED BY <3>2, Zenon DEF c
  <2>4. r < w /\ r <= w  BY <1>10, <1>11
  <2>5. InHeader(R + n, co, cp)'
    BY <1>2, <1>5, <1>11, <1>13, <1>14, <2>1, <2>3, <2>4, Zenon DEF InHeader
  <2>6. ReaderAt(R + n, co, cp)'  BY <1>13, <2>1, <2>4, <2>5, Zenon DEF ReaderAt
  <2> QED BY <1>2, <1>4, <1>9, <1>12, <2>2, <2>6, ReaderCloses, Zenon
<1>15. CASE ~ (Len(k) < 3)
  <2> DEFINE D == DataOf(cp, r)  P == PadOf(co, cp, r)
  <2>1. L + n = 3 /\ Len(k) > 1 /\ Len(k) > 2
    <3>1. Len(k) = L + n  BY <1>11, Zenon
    <3> QED BY <1>6, <1>7, <1>15, <3>1
  <2>2. k[1] = D \div Radix /\ k[2] = D % Radix /\ k[3] = P  BY <1>11, <2>1, Zenon
  <2>3. /\ D \in Nat /\ P \in Nat /\ cp[r + 1] = cp[r] + D /\ co[r + 1] = co[r] + 3 + D + P
        /\ cp[r + 1] \in Nat /\ co[r + 1] \in Nat
    <3>1. Layout(co, cp, w)  BY <1>4, Zenon DEF Consistent
    <3> HIDE DEF r, w
    <3> QED BY <1>4, <1>10, <1>11, <3>1, FrameBounds, Zenon
  <2> HIDE DEF D, P
  <2>4. size = D  BY <2>2, <2>3, Digits, Zenon DEF size
  <2>5. /\ read_hdr' = <<>> /\ read_frames_done' = r + 1
        /\ read_data_rem' = D
        /\ read_skip_rem' = IF D = 0 THEN P ELSE 0
        /\ read_pending_skip' = IF D = 0 THEN 0 ELSE P
    BY <1>3, <1>15, <2>2, <2>4, Zenon
  <2>6. r + 1 \in 0..PADDING_FRAMES /\ r + 1 <= w /\ r + 1 > 0 /\ (r + 1) - 1 = r
    BY <1>2, <1>10, <1>11, PaddingAssumption
  <2>7. TypeOK'
    <3>1. <<>> \in Seq(Nat) /\ 0 \in Nat  OBVIOUS
    <3>2. read_skip_rem' \in Nat /\ read_pending_skip' \in Nat  BY <2>3, <2>5, <3>1, Zenon
    <3> QED BY <1>1, <1>2, <1>9, <2>3, <2>5, <2>6, <3>1, <3>2, Zenon DEF TypeOK, writeVars
  <2> DEFINE c == co[r]  g == cp[r]
  <2>8. c \in Nat /\ g \in Nat /\ R = c + L  BY <1>6, <1>10, Zenon
  <2> HIDE DEF c, g
  <2>9. R + n = c + 3  BY <1>6, <1>7, <2>1, <2>8, SMTT(20)
  <2>10. r + 1 <= write_frames_done'  BY <1>13, <2>6, Zenon
  <2>11. CASE D = 0
    <3>1. R + n = (c + 3 + D + P) - P /\ g = g + D  BY <2>3, <2>8, <2>9, <2>11
    <3>2. R + n = co[r + 1] - P /\ Len(decoded') = cp[r + 1]
      BY <1>2, <1>6, <2>3, <3>1, Zenon DEF c, g
    <3>3. read_data_rem' = 0 /\ read_skip_rem' = P /\ read_pending_skip' = 0
      BY <2>5, <2>11, Zenon
    <3>4. ReaderAt(R + n, co, cp)'
      <4> DEFINE s == r + 1
      <4>1. /\ s \in 0..PADDING_FRAMES /\ read_frames_done' = s /\ s <= write_frames_done'
            /\ co[s] \in Nat /\ cp[s] \in Nat /\ R + n = co[s] - P /\ Len(decoded') = cp[s]
        BY <2>3, <2>5, <2>6, <2>10, <3>2, Zenon
      <4> HIDE DEF s
      <4> QED BY <2>3, <2>5, <3>3, <4>1, FrameDone, Zenon
    <3> QED BY <1>2, <1>4, <1>9, <1>12, <2>7, <3>4, ReaderCloses, Zenon
  <2>12. CASE D # 0
    <3>1. D > 0 /\ D <= D  BY <2>3, <2>12
    <3>2. R + n = (c + 3 + D + P) - P - D /\ g = (g + D) - D  BY <2>3, <2>8, <2>9
    <3>3. R + n = co[r + 1] - P - D /\ Len(decoded') = cp[r + 1] - D
      BY <1>2, <1>6, <2>3, <3>2, Zenon DEF c, g
    <3>4. read_data_rem' = D /\ read_skip_rem' = 0 /\ read_pending_skip' = P
      BY <2>5, <2>12, Zenon
    <3>5. InData(R + n, co, cp)'
      BY <2>5, <2>6, <3>1, <3>3, <3>4, Zenon DEF InData, D, P
    <3>6. ReaderAt(R + n, co, cp)'  BY <2>5, <2>10, <3>5, Zenon DEF ReaderAt
    <3> QED BY <1>2, <1>4, <1>9, <1>12, <2>7, <3>6, ReaderCloses, Zenon
  <2> QED BY <2>11, <2>12, Zenon
<1> QED BY <1>14, <1>15, Zenon

-----------------------------------------------------------------------------
(* The invariant                                                            *)

(* Shutdown, Break and ReadEof move no byte.                                 *)
LEMMA QuietStep ==
  ASSUME PadInv, UNCHANGED <<writeVars, readVars, wire>>,
         fin' \in BOOLEAN, broken' \in BOOLEAN, eof' \in BOOLEAN,
         broken' => fin', fin' /\ ~ broken' => write_pending = <<>>
  PROVE  PadInv'
<1>1. TypeOK /\ InOrder  BY Zenon DEF PadInv
<1>2. TypeOK'  BY <1>1, Zenon DEF TypeOK, writeVars, readVars
<1>3. InOrder'  BY <1>1, InOrderStays, Zenon DEF readVars
<1>4. PICK R \in Nat, co \in [0..write_frames_done -> Nat], cp \in [0..write_frames_done -> Nat] :
           Consistent(R, co, cp)
  BY Zenon DEF PadInv
<1>5. Rest' = Rest /\ write_frames_done' = write_frames_done /\ written' = written
  BY Zenon DEF Rest, writeVars
<1>6. ReaderAt(R, co, cp)'  BY <1>4, <1>5, ReaderStays, Zenon DEF Consistent
<1>7. Carries(Rest', R, co, cp, write_frames_done, written)
  BY <1>4, <1>5, Zenon DEF Consistent
<1> QED BY <1>2, <1>3, <1>4, <1>6, <1>7, ReaderCloses, Zenon

(* The layout of an empty wire.                                              *)
LEMMA PadInit == Init => PadInv
<1> SUFFICES ASSUME Init PROVE PadInv  BY Zenon
<1>1. <<>> \in Seq(Nat) /\ <<>> \in Seq(WireByte) /\ 0 \in 0..PADDING_FRAMES /\ Len(<<>>) = 0
  BY PaddingAssumption
<1>2. TypeOK  BY <1>1, Zenon DEF Init, TypeOK
<1>3. 1..0 = {} /\ 0..0-1 = {} /\ 0..0 = {0} /\ 1..(0-0) = {} /\ 0 + 0 = 0 /\ 0 - 0 = 0
      /\ 0 + (0 - 0) = 0 /\ 0 <= 0 /\ 0 >= 0 /\ 0 < 3 /\ ~ (0 > 0) /\ ~ (0 > 1)
  OBVIOUS
<1>4. InOrder  BY <1>1, <1>3, Zenon DEF Init, InOrder
<1> DEFINE z == [i \in 0..0 |-> 0]
<1>5. z[0] = 0 /\ z \in [0..0 -> Nat]  BY <1>3, Zenon
<1> HIDE DEF z
<1>6. Rest = <<>>
  <2>1. Rest = wire  BY <1>2, RestProperties, Zenon DEF Init
  <2> QED BY <2>1, Zenon DEF Init
<1>7. Layout(z, z, 0)  BY <1>3, <1>5, Zenon DEF Layout
<1>8. Carries(<<>>, 0, z, z, 0, 0)  BY <1>1, <1>3, <1>5, Zenon DEF Carries
<1>9. ReaderAt(0, z, z)
  <2>1. CASE PADDING_FRAMES = 0
    <3>1. InRaw(0, z, z)  BY <1>1, <1>3, <1>5, <2>1, Zenon DEF Init, InRaw
    <3> QED BY <1>3, <3>1, Zenon DEF Init, ReaderAt
  <2>2. CASE PADDING_FRAMES # 0
    <3>1. 0 < PADDING_FRAMES  BY <2>2, PaddingAssumption
    <3>2. InHeader(0, z, z)  BY <1>1, <1>3, <1>5, <3>1, Zenon DEF Init, InHeader
    <3> QED BY <1>3, <3>2, Zenon DEF Init, ReaderAt
  <2> QED BY <2>1, <2>2, Zenon
<1>10. Consistent(0, z, z)
  BY <1>3, <1>5, <1>6, <1>7, <1>8, <1>9, Zenon DEF Init, Consistent, AllFramed
<1>11. 0 \in Nat /\ z \in [0..write_frames_done -> Nat]  BY <1>5, Zenon DEF Init
<1> QED BY <1>2, <1>4, <1>10, <1>11, Zenon DEF PadInv

(* Every step keeps the two ends agreed.                                     *)
LEMMA PadNext == PadInv /\ [Next]_vars => PadInv'
<1> SUFFICES ASSUME PadInv, [Next]_vars PROVE PadInv'  BY Zenon
<1>1. TypeOK  BY Zenon DEF PadInv
<1>2. ASSUME NEW n, DrainPending(n) PROVE PadInv'  BY <1>2, DrainStep, Zenon
<1>3. ASSUME NEW len \in 0..MaxChunk, NEW pad \in 0..(Radix - 1), NEW n, WriteFrame(len, pad, n)
      PROVE  PadInv'
  <2>1. len \in Nat  BY PaddingAssumption
  <2> QED BY <1>3, <2>1, FrameStep, Zenon
<1>4. ASSUME NEW n \in 1..MaxChunk, WriteRaw(n) PROVE PadInv'
  <2>1. n \in Nat  BY PaddingAssumption
  <2> QED BY <1>4, <2>1, RawStep, Zenon
<1>5. CASE Shutdown
  BY <1>1, <1>5, QuietStep, Zenon DEF Shutdown, TypeOK
<1>6. CASE Break
  BY <1>1, <1>6, QuietStep, Zenon DEF Break, TypeOK
<1>7. ASSUME NEW n, ReadData(n) PROVE PadInv'  BY <1>7, DataStep, Zenon
<1>8. ASSUME NEW n, ReadRaw(n) PROVE PadInv'  BY <1>8, RawReadStep, Zenon
<1>9. ASSUME NEW n, ReadSkip(n) PROVE PadInv'  BY <1>9, SkipStep, Zenon
<1>10. ASSUME NEW n, ReadHeader(n) PROVE PadInv'  BY <1>10, HeaderStep, Zenon
<1>11. CASE ReadEof
  BY <1>1, <1>11, QuietStep, Zenon DEF ReadEof, TypeOK
<1>12. CASE UNCHANGED vars
  BY <1>1, <1>12, QuietStep, Zenon DEF vars, TypeOK
<1>13. CASE Write  BY <1>2, <1>3, <1>4, <1>5, <1>6, <1>13, Zenon DEF Write
<1>14. CASE Read  BY <1>7, <1>8, <1>9, <1>10, <1>11, <1>14, Zenon DEF Read
<1> QED BY <1>12, <1>13, <1>14, Zenon DEF Next

(* The inductive invariant.                                                  *)
LEMMA PadInvariant == Spec => []PadInv
BY PadInit, PadNext, PTL DEF Spec

(* The reader has not decoded more than was written; at the end of the wire  *)
(* it has decoded all of it.                                                 *)
LEMMA DecodedBound ==
  ASSUME PadInv
  PROVE  /\ Len(decoded) + read_data_rem <= written
         /\ read_frames_done <= write_frames_done
         /\ Rest = <<>> => Len(decoded) = written
<1> DEFINE r == read_frames_done  w == write_frames_done  l == Len(decoded)
           rem == read_data_rem  t == written  q == Len(Rest)
<1>1. TypeOK  BY Zenon DEF PadInv
<1>2. /\ w \in Nat /\ rem \in Nat /\ t \in Nat /\ l \in Nat /\ w \in 0..PADDING_FRAMES
  BY <1>1, PaddingAssumption DEF TypeOK
<1>3. Len(Rest) \in Nat  BY <1>1, RestProperties, Zenon
<1>4. PICK R \in Nat, co \in [0..w -> Nat], cp \in [0..w -> Nat] : Consistent(R, co, cp)
  BY Zenon DEF PadInv
<1>5. r <= w /\ co[r] \in Nat /\ cp[r] \in Nat /\ r \in Nat
  BY <1>1, <1>4, ReaderFrame, Zenon
<1>6. /\ Layout(co, cp, w) /\ t >= cp[w] /\ R + q = co[w] + (t - cp[w])
      /\ w < PADDING_FRAMES => t = cp[w]
  BY <1>4, Zenon DEF Consistent, Carries, AllFramed
<1>7. co[r] <= co[w] /\ cp[r] <= cp[w] /\ co[w] \in Nat /\ cp[w] \in Nat
  <2>1. r \in 0..w /\ w \in 0..w  BY <1>2, <1>5
  <2>2. co[w] \in Nat /\ cp[w] \in Nat  BY <1>4, <2>1, Zenon
  <2> QED BY <1>5, <1>6, <2>1, <2>2, Zenon DEF Layout
<1>8. Rest = <<>> => q = 0
  <2>1. Len(<<>>) = 0  BY Zenon
  <2> QED BY <2>1, Zenon
<1> DEFINE e == co[w]  g == cp[w]  c == co[r]  p == cp[r]
<1>9. /\ c \in Nat /\ p \in Nat /\ e \in Nat /\ g \in Nat /\ c <= e /\ p <= g /\ t >= g
      /\ R + q = e + (t - g)
  BY <1>5, <1>6, <1>7, Zenon
<1>10. CASE InData(R, co, cp)
  <2>1. rem > 0 /\ l = p - rem /\ R = c - read_pending_skip - rem /\ read_pending_skip \in Nat
    BY <1>1, <1>10, Zenon DEF InData, TypeOK
  <2> HIDE DEF c, e, g, p, l, rem, t, q
  <2>2. l + rem <= t /\ q # 0  BY <1>2, <1>3, <1>4, <1>9, <2>1, SMTT(20) DEF q
  <2> QED BY <1>5, <1>8, <2>2, Zenon DEF l, rem, t, r, w
<1>11. CASE InPadding(R, co, cp)
  <2>1. rem = 0 /\ l = p /\ read_skip_rem > 0 /\ R = c - read_skip_rem /\ read_skip_rem \in Nat
    BY <1>1, <1>11, Zenon DEF InPadding, TypeOK
  <2> HIDE DEF c, e, g, p, l, rem, t, q
  <2>2. l + rem <= t /\ q # 0  BY <1>2, <1>3, <1>4, <1>9, <2>1 DEF q
  <2> QED BY <1>5, <1>8, <2>2, Zenon DEF l, rem, t, r, w
<1>12. CASE InHeader(R, co, cp)
  <2> DEFINE L == Len(read_hdr)
  <2>1. rem = 0 /\ l = p /\ R = c + L /\ L < 3 /\ r < PADDING_FRAMES
    BY <1>12, Zenon DEF InHeader
  <2>2. L \in Nat  BY <1>1 DEF TypeOK
  <2>3. r = w => p = t
    BY <1>6, <2>1, Zenon
  <2>4. r # w => c + 3 <= e
    <3> SUFFICES ASSUME r # w PROVE c + 3 <= e  BY Zenon
    <3>1. r \in 0..w-1  BY <1>2, <1>5
    <3> HIDE DEF r, w
    <3>2. co[r] \in Nat /\ DataOf(cp, r) \in Nat /\ co[r] + 3 + DataOf(cp, r) <= co[w]
      BY <1>2, <1>4, <1>6, <3>1, FrameBounds, Zenon
    <3> QED BY <1>9, <3>2
  <2> HIDE DEF c, e, g, p, l, rem, t, q, L
  <2>5. l + rem <= t  BY <1>2, <1>9, <2>1
  <2>6. q = 0 => r = w
    <3> SUFFICES ASSUME q = 0, r # w PROVE FALSE  BY Zenon
    <3> QED BY <1>2, <1>4, <1>9, <2>1, <2>2, <2>4
  <2> QED BY <1>5, <1>8, <2>1, <2>3, <2>5, <2>6, Zenon DEF l, rem, t, r, w
<1>13. CASE InRaw(R, co, cp)
  <2>1. rem = 0 /\ l >= p /\ R = c + (l - p) /\ r = PADDING_FRAMES
    BY <1>13, Zenon DEF InRaw
  <2>2. r = w  BY <1>2, <1>5, <2>1, PaddingAssumption
  <2>3. c = e /\ p = g  BY <2>2, Zenon
  <2> HIDE DEF c, e, g, p, l, rem, t, q
  <2>4. q \in Nat  BY <1>3, Zenon DEF q
  <2>5. l + rem <= t /\ (q = 0 => l = t)  BY <1>2, <1>4, <1>9, <2>1, <2>3, <2>4
  <2> QED BY <1>5, <1>8, <2>5, Zenon DEF l, rem, t, r, w
<1> QED BY <1>4, <1>10, <1>11, <1>12, <1>13, Zenon DEF Consistent, ReaderAt

WithinWritten == Len(decoded) + read_data_rem <= written

(* The same bound after a step.                                              *)
LEMMA WithinWrittenNext == PadInv' => WithinWritten'
<1>1. PadInv => WithinWritten  BY DecodedBound, Zenon DEF WithinWritten
<1> QED BY <1>1, PTL

(* InStep, for every size of a write and a read and every cut of the wire:   *)
(* the reader never runs ahead of the writer's frames, decodes the payload   *)
(* in order, and never counts on more data than was written.                 *)
THEOREM HalvesInStep == Spec => []InStep
<1>1. PadInv => InStep
  <2> SUFFICES ASSUME PadInv PROVE InStep  BY Zenon
  <2>1. TypeOK /\ InOrder  BY Zenon DEF PadInv
  <2>2. Len(decoded) + read_data_rem <= written /\ read_frames_done <= write_frames_done
    BY DecodedBound, Zenon
  <2>3. Len(decoded) \in Nat /\ read_data_rem \in Nat /\ written \in Nat  BY <2>1 DEF TypeOK
  <2>4. read_data_rem <= written - Len(decoded)  BY <2>2, <2>3
  <2> QED BY <2>1, <2>2, <2>4, Zenon DEF InStep, InOrder
<1> QED BY <1>1, PadInvariant, PTL

-----------------------------------------------------------------------------
(* The two halves are a byte stream                                         *)

(* What a read of payload hands to the caller.                               *)
LEMMA ReceiveStep ==
  ASSUME PadInv, PadInv', NEW n \in 1..MaxChunk, n \in 1..Len(wire), ~ eof,
         decoded' = decoded \o Bytes(n), UNCHANGED <<writeVars, fin, broken, eof>>
  PROVE  Stream!Receive(n)
<1>1. TypeOK /\ TypeOK' /\ InOrder'  BY Zenon DEF PadInv
<1>2. n \in Nat /\ wire \in Seq(WireByte) /\ decoded \in Seq(Nat) /\ Len(decoded) \in Nat
      /\ Len(wire) \in Nat
  <2>1. wire \in Seq(WireByte) /\ decoded \in Seq(Nat)  BY <1>1, Zenon DEF TypeOK
  <2>2. Len(decoded) \in Nat /\ Len(wire) \in Nat  BY <2>1, LenProperties, Zenon
  <2>3. n \in Nat  BY PaddingAssumption
  <2> QED BY <2>1, <2>2, <2>3, Zenon
<1> DEFINE b == Bytes(n)  l == Len(decoded)
<1>3. b \in Seq(Nat) /\ Len(b) = n
  <2>1. ASSUME NEW i \in 1..n PROVE wire[i].byte \in Nat
    <3>1. i \in 1..Len(wire)  BY <1>2
    <3>2. wire[i] \in WireByte  BY <1>2, <3>1, ElementOfSeq, Zenon
    <3> QED BY <3>2, Zenon DEF WireByte
  <2>2. b \in [1..n -> Nat]  BY <2>1, Zenon DEF Bytes
  <2> HIDE DEF b
  <2> QED BY <1>2, <2>2
<1>4. b = [i \in 1..n |-> b[i]]  BY Zenon DEF Bytes
<1> HIDE DEF b, l
<1>5. /\ decoded \o b \in Seq(Nat) /\ Len(decoded \o b) = Len(decoded) + Len(b)
      /\ \A i \in 1..(Len(decoded) + Len(b)) :
            (decoded \o b)[i] = IF i <= Len(decoded) THEN decoded[i] ELSE b[i - Len(decoded)]
  BY <1>2, <1>3, ConcatProperties, Zenon
<1>6. decoded' = decoded \o b  BY Zenon DEF b
<1>7. Len(decoded') = l + n  BY <1>3, <1>5, <1>6, Zenon DEF l
<1>8. l \in Nat  BY <1>2, Zenon DEF l
<1>9. ASSUME NEW i \in 1..n PROVE b[i] = l + i
  <2>1. /\ l + i \in 1..(l + n) /\ ~ (l + i <= l) /\ (l + i) - l = i
    BY <1>2, <1>8
  <2>2. (decoded \o b)[l + i] = b[i]  BY <1>3, <1>5, <2>1, Zenon DEF l
  <2>3. decoded'[l + i] = l + i  BY <1>1, <1>7, <2>1, Zenon DEF InOrder
  <2> QED BY <1>6, <2>2, <2>3, Zenon
<1>10. b = [i \in 1..n |-> l + i]  BY <1>4, <1>9, Zenon
<1>11. l + n <= written
  <2>1. Len(decoded') + read_data_rem' <= written'  BY WithinWrittenNext, Zenon DEF WithinWritten
  <2>2. read_data_rem' \in Nat /\ written' = written /\ written \in Nat
    BY <1>1, Zenon DEF TypeOK, writeVars
  <2>3. (l + n) + read_data_rem' <= written  BY <1>7, <2>1, <2>2, Zenon
  <2> DEFINE m == read_data_rem'  t == written
  <2>4. m \in Nat /\ t \in Nat /\ (l + n) + m <= t  BY <2>2, <2>3, Zenon
  <2> HIDE DEF m, t
  <2>5. l + n <= t  BY <1>2, <1>8, <2>4
  <2> QED BY <2>5, Zenon DEF t
<1>12. written' = written  BY Zenon DEF writeVars
<1> QED BY <1>6, <1>10, <1>11, <1>12, Zenon DEF Stream!Receive, l

(* Framing is invisible: every step of the two halves is a step of a byte    *)
(* stream or changes none of it, and without a break the end of the stream   *)
(* comes after its last byte.                                                *)
THEOREM PaddingIsByteStream == Spec => ByteStreamSpec
<1>1. Init => Stream!Init  BY Zenon DEF Init, Stream!Init
<1>2. PadInv /\ PadInv' /\ [Next]_vars => [Stream!Next]_(Stream!vars)
  <2> SUFFICES ASSUME PadInv, PadInv', [Next]_vars PROVE [Stream!Next]_(Stream!vars)
    BY Zenon
  <2>1. TypeOK  BY Zenon DEF PadInv
  <2>2. written \in Nat /\ MaxChunk \in Nat \ {0} /\ MAX_PADDED_PAYLOAD \in Nat
    <3>1. Radix \in Nat /\ Radix > 1  BY PaddingAssumption
    <3>2. Radix * Radix >= 1 /\ Radix * Radix \in Nat  BY <3>1
    <3>3. MAX_PADDED_PAYLOAD \in Nat  BY <3>2 DEF MAX_PADDED_PAYLOAD
    <3> QED BY <2>1, <3>3, PaddingAssumption, Zenon DEF TypeOK
  <2>3. ASSUME NEW n, DrainPending(n) PROVE UNCHANGED Stream!vars
    BY <2>3, Zenon DEF DrainPending, readVars, Stream!vars
  <2>4. ASSUME NEW len \in 0..MaxChunk, NEW pad \in 0..(Radix - 1), NEW n, WriteFrame(len, pad, n)
        PROVE  [Stream!Next]_(Stream!vars)
    <3> DEFINE d == Least(len, MAX_PADDED_PAYLOAD)
    <3>1. d \in 0..MaxChunk  BY <2>2 DEF Least
    <3>2. /\ ~ fin /\ written' = written + d /\ UNCHANGED <<decoded, fin, broken, eof>>
      BY <2>4, Zenon DEF WriteFrame, readVars
    <3> HIDE DEF d
    <3>3. CASE d = 0
      <4>1. written' = written  BY <2>2, <3>2, <3>3
      <4> QED BY <3>2, <4>1, Zenon DEF Stream!vars
    <3>4. CASE d # 0
      <4>1. d \in 1..MaxChunk  BY <2>2, <3>1, <3>4
      <4> QED BY <3>2, <4>1, Zenon DEF Stream!Next, Stream!Send
    <3> QED BY <3>3, <3>4, Zenon
  <2>5. ASSUME NEW n \in 1..MaxChunk, WriteRaw(n) PROVE Stream!Next
    BY <2>5, Zenon DEF WriteRaw, readVars, Stream!Next, Stream!Send
  <2>6. CASE Shutdown
    <3>1. 0 \in 0..MaxChunk /\ written + 0 = written  BY <2>2
    <3>2. Stream!Close(0)
      BY <2>6, <3>1, Zenon DEF Shutdown, writeVars, readVars, Stream!Close
    <3> QED BY <3>1, <3>2, Zenon DEF Stream!Next
  <2>7. CASE Break
    <3>1. ~ broken  BY <2>1, <2>7, Zenon DEF Break, TypeOK
    <3> QED BY <2>7, <3>1, Zenon DEF Break, writeVars, readVars, Stream!Next, Stream!Break
  <2>8. ASSUME NEW n \in 1..MaxChunk, ReadData(n) PROVE Stream!Next
    <3>1. Least(MaxChunk, read_data_rem) \in Nat  BY <2>1, <2>2, Zenon DEF Least, TypeOK
    <3>2. n \in 1..Len(wire)
      BY <2>1, <2>8, <3>1, InnerTakes, Zenon DEF ReadData
    <3>3. Stream!Receive(n)
      BY <2>8, <3>2, ReceiveStep, Zenon DEF ReadData, Inner
    <3> QED BY <3>3, Zenon DEF Stream!Next
  <2>9. ASSUME NEW n \in 1..MaxChunk, ReadRaw(n) PROVE Stream!Next
    <3>1. MaxChunk \in Nat  BY <2>2, Zenon
    <3>2. n \in 1..Len(wire)
      BY <2>1, <2>9, <3>1, InnerTakes, Zenon DEF ReadRaw
    <3>3. Stream!Receive(n)
      BY <2>9, <3>2, ReceiveStep, Zenon DEF ReadRaw, Inner
    <3> QED BY <3>3, Zenon DEF Stream!Next
  <2>10. ASSUME NEW n, ReadSkip(n) PROVE UNCHANGED Stream!vars
    BY <2>10, Zenon DEF ReadSkip, writeVars, Stream!vars
  <2>11. ASSUME NEW n, ReadHeader(n) PROVE UNCHANGED Stream!vars
    BY <2>11, Zenon DEF ReadHeader, writeVars, Stream!vars
  <2>12. CASE ReadEof
    <3>1. fin /\ wire = <<>>  BY <2>12, Zenon DEF ReadEof
    <3>2. ~ broken => Len(decoded) = written
      <4> SUFFICES ASSUME ~ broken PROVE Len(decoded) = written  BY Zenon
      <4>1. write_pending = <<>>  BY <2>1, <3>1, Zenon DEF TypeOK
      <4>2. Rest = <<>>  BY <2>1, <3>1, <4>1, RestProperties, Zenon
      <4> QED BY <4>2, DecodedBound, Zenon
    <3> QED BY <2>12, <3>1, <3>2, Zenon DEF ReadEof, writeVars, readVars, Stream!Next, Stream!Eof
  <2>13. CASE UNCHANGED vars
    BY <2>13, Zenon DEF vars, writeVars, readVars, Stream!vars
  <2>14. CASE Write  BY <2>3, <2>4, <2>5, <2>6, <2>7, <2>14, Zenon DEF Write
  <2>15. CASE Read  BY <2>8, <2>9, <2>10, <2>11, <2>12, <2>15, Zenon DEF Read
  <2> QED BY <2>13, <2>14, <2>15, Zenon DEF Next
<1> QED BY <1>1, <1>2, PadInvariant, PTL DEF Spec, ByteStreamSpec, Stream!Spec
=============================================================================
