------------------------------ MODULE UotProofs ------------------------------
(***************************************************************************)
(* Theorems about Uot.  What the client's stream carries is compared with  *)
(* Packets, which flattens the packets of the datagrams; the first part of *)
(* the module shows by induction what flattening one packet more gives.    *)
(***************************************************************************)
EXTENDS Uot, SequenceTheorems, WellFoundedInduction, TLAPS

-----------------------------------------------------------------------------
(* Induction, and flattening                                                *)

(* A set of natural numbers that is not empty has a least element.          *)
LEMMA LeastNat ==
  ASSUME NEW T \in SUBSET Nat, T # {}
  PROVE  \E x \in T : \A y \in T : x <= y
<1> DEFINE R == {p \in Nat \X Nat : p[1] < p[2]}
<1>1. IsWellFoundedOn(R, Nat)
  BY NatLessThanWellFounded, Zenon DEF OpToRel
<1>2. PICK x \in T : \A y \in T : ~ (<<y, x>> \in R)
  <2> HIDE DEF R
  <2> QED BY <1>1, WFMin, Zenon
<1>3. ASSUME NEW y \in T PROVE x <= y
  <2>1. <<y, x>> \notin R  BY <1>2, Zenon
  <2>2. <<y, x>> \in Nat \X Nat /\ <<y, x>>[1] = y /\ <<y, x>>[2] = x  BY Zenon
  <2>3. ~ (y < x)  BY <2>1, <2>2, Zenon
  <2> QED BY <2>3
<1> QED BY <1>3, Zenon

(* Induction over the natural numbers, for a set.                           *)
LEMMA NatInd ==
  ASSUME NEW S, 0 \in S, \A n \in Nat : n \in S => n + 1 \in S
  PROVE  \A n \in Nat : n \in S
<1> DEFINE T == Nat \ S
<1> SUFFICES ASSUME T # {} PROVE FALSE  BY Zenon
<1>2. PICK x \in T : \A y \in T : x <= y
  <2>1. T \subseteq Nat BY Zenon
  <2> HIDE DEF T
  <2> QED BY <2>1, LeastNat, Zenon
<1>3. x \in Nat /\ x \notin S /\ x # 0  BY Zenon
<1>4. x - 1 \in Nat /\ x - 1 < x /\ x - 1 + 1 = x  BY <1>3
<1>6. x - 1 \notin T  BY <1>2, <1>3, <1>4, SMTT(20)
<1> QED BY <1>3, <1>4, <1>6, Zenon

\* f joins the first n sequences of s.
Joins(f, s, n) ==
    /\ f[1] = s[1]
    /\ \A i \in 1..n-1 : f[i+1] = f[i] \o s[i+1]

\* s and t have the same first n elements.
Agree(s, t, n) == \A i \in 1..n : s[i] = t[i]

(* Joining the sequences of s one after another can be done.                *)
LEMMA JoinExists ==
  ASSUME NEW S, NEW s \in Seq(Seq(S)), Len(s) > 0
  PROVE  \E f \in [1..Len(s) -> Seq(S)] : Joins(f, s, Len(s))
<1> DEFINE P(n) == n \in 1..Len(s) => \E f \in [1..n -> Seq(S)] : Joins(f, s, n)
           G == {n \in Nat : P(n)}
<1>1. 0 \in G  OBVIOUS
<1>2. ASSUME NEW n \in Nat, n \in G PROVE n + 1 \in G
  <2> SUFFICES ASSUME n + 1 \in 1..Len(s)
               PROVE  \E f \in [1..n+1 -> Seq(S)] : Joins(f, s, n + 1)
    OBVIOUS
  <2>0. s[n+1] \in Seq(S)  OBVIOUS
  <2>1. CASE n = 0
    <3> DEFINE f == [i \in 1..n+1 |-> s[1]]
    <3>1. f \in [1..n+1 -> Seq(S)]  BY <2>0, <2>1
    <3>2. Joins(f, s, n + 1)  BY <2>1 DEF Joins
    <3> QED BY <3>1, <3>2, Zenon
  <2>2. CASE n # 0
    <3>1. n \in 1..Len(s) /\ n \in 1..n  BY <2>2
    <3>2. PICK g \in [1..n -> Seq(S)] : Joins(g, s, n)  BY <1>2, <3>1, Zenon
    <3> DEFINE f == [i \in 1..n+1 |-> IF i = n + 1 THEN g[n] \o s[n+1] ELSE g[i]]
    <3>3. g[n] \o s[n+1] \in Seq(S)  BY <2>0, <3>1, <3>2, SMTT(20)
    <3>4. f \in [1..n+1 -> Seq(S)]
      <4> SUFFICES ASSUME NEW i \in 1..n+1
                   PROVE (IF i = n + 1 THEN g[n] \o s[n+1] ELSE g[i]) \in Seq(S)
        BY Zenon
      <4>1. i # n + 1 => i \in 1..n  OBVIOUS
      <4> QED BY <3>3, <4>1, Zenon
    <3>5. n + 1 \in 1..n+1 /\ f[n+1] = g[n] \o s[n+1]
      <4>1. n + 1 \in 1..n+1  OBVIOUS
      <4> QED BY <4>1, Zenon
    <3>6. ASSUME NEW i \in 1..n PROVE f[i] = g[i]
      <4>1. i \in 1..n+1 /\ i # n + 1  OBVIOUS
      <4> QED BY <4>1, Zenon
    <3> HIDE DEF f
    <3>7. f[1] = s[1]
      <4>1. 1 \in 1..n  BY <3>1
      <4> QED BY <3>2, <3>6, <4>1, Zenon DEF Joins
    <3>8. ASSUME NEW i \in 1..n PROVE f[i+1] = f[i] \o s[i+1]
      <4>1. CASE i = n
        BY <3>1, <3>5, <3>6, <4>1, Zenon
      <4>2. CASE i # n
        <5>1. i \in 1..n-1 /\ i + 1 \in 1..n  BY <4>2
        <5> QED BY <3>2, <3>6, <5>1, Zenon DEF Joins
      <4> QED BY <4>1, <4>2, Zenon
    <3>9. n + 1 - 1 = n  OBVIOUS
    <3>10. Joins(f, s, n + 1)
      <4>1. ASSUME NEW i \in 1..(n+1)-1 PROVE f[i+1] = f[i] \o s[i+1]
        <5>1. i \in 1..n  BY <3>9
        <5> QED BY <3>8, <5>1, Zenon
      <4> QED BY <3>7, <4>1, Zenon DEF Joins
    <3> QED BY <3>4, <3>10, Zenon
  <2> QED BY <2>1, <2>2, Zenon
<1>3. Len(s) \in Nat /\ Len(s) \in 1..Len(s)  OBVIOUS
<1> HIDE DEF P
<1>4. \A n \in Nat : n \in G
  <2> HIDE DEF G
  <2> QED BY <1>1, <1>2, NatInd, Zenon
<1>5. P(Len(s))  BY <1>3, <1>4, Zenon
<1> QED BY <1>3, <1>5, Zenon DEF P

(* It can be done in one way only, and the result up to n depends on the     *)
(* first n sequences.                                                       *)
LEMMA JoinUnique ==
  ASSUME NEW s, NEW t, NEW f, NEW g, NEW n \in Nat, NEW m \in Nat, n <= m,
         Agree(s, t, n), Joins(f, s, n), Joins(g, t, m)
  PROVE  Agree(f, g, n)
<1> DEFINE P(i) == i \in 1..n => f[i] = g[i]
           G == {i \in Nat : P(i)}
<1>1. 0 \in G  OBVIOUS
<1>2. ASSUME NEW i \in Nat, i \in G PROVE i + 1 \in G
  <2>0. SUFFICES ASSUME i + 1 \in 1..n PROVE f[i+1] = g[i+1]  OBVIOUS
  <2>2. CASE i = 0
    <3>1. i + 1 = 1  BY <2>2
    <3> QED BY <2>0, <3>1, Zenon DEF Joins, Agree
  <2>3. CASE i # 0
    <3>1. i \in 1..n /\ i \in 1..n-1 /\ i \in 1..m-1  BY <2>0, <2>3, SMTT(20)
    <3>2. f[i] = g[i]  BY <1>2, <3>1, Zenon
    <3> QED BY <2>0, <3>1, <3>2, Zenon DEF Joins, Agree
  <2> QED BY <2>2, <2>3, Zenon
<1> HIDE DEF P
<1>4. \A i \in Nat : i \in G
  <2> HIDE DEF G
  <2> QED BY <1>1, <1>2, NatInd, Zenon
<1>5. ASSUME NEW i \in 1..n PROVE f[i] = g[i]
  <2>1. i \in Nat  OBVIOUS
  <2>2. P(i)  BY <1>4, <2>1, Zenon
  <2> QED BY <2>2, Zenon DEF P
<1> QED BY <1>5, Zenon DEF Agree

(* FlattenSeq is defined by a recursive function: that function exists.     *)
LEMMA FlattenIsJoin ==
  ASSUME NEW S, NEW s \in Seq(Seq(S)), Len(s) > 0
  PROVE  \E f \in [1..Len(s) -> Seq(S)] :
            /\ Joins(f, s, Len(s))
            /\ FlattenSeq(s) = f[Len(s)]
<1> DEFINE E(f) == f = [i \in 1..Len(s) |-> IF i = 1 THEN s[i] ELSE f[i-1] \o s[i]]
           h == CHOOSE f : E(f)
<1>0. Len(s) \in Nat /\ 1 \in 1..Len(s) /\ Len(s) \in 1..Len(s) /\ Len(s) <= Len(s)  OBVIOUS
<1>1. PICK f \in [1..Len(s) -> Seq(S)] : Joins(f, s, Len(s))  BY JoinExists, Zenon
<1>2. E(f)
  <2> SUFFICES ASSUME NEW i \in 1..Len(s)
               PROVE  f[i] = IF i = 1 THEN s[i] ELSE f[i-1] \o s[i]
    BY Zenon
  <2>1. CASE i = 1
    BY <1>1, <2>1, Zenon DEF Joins
  <2>2. CASE i # 1
    <3>1. i - 1 \in 1..Len(s)-1 /\ (i - 1) + 1 = i  BY <2>2
    <3>2. f[(i-1)+1] = f[i-1] \o s[(i-1)+1]  BY <1>1, <3>1, Zenon DEF Joins
    <3> QED BY <2>2, <3>1, <3>2, Zenon
  <2> QED BY <2>1, <2>2, Zenon
<1>3. E(h)  BY <1>2, Zenon
<1>4. FlattenSeq(s) = h[Len(s)]
  <2>1. Len(s) # 0  BY <1>0, SMTT(20)
  <2> QED BY <2>1, Zenon DEF FlattenSeq
<1> HIDE DEF h
<1>5. Joins(h, s, Len(s))
  <2>1. h[1] = s[1]  BY <1>0, <1>3, Zenon
  <2>2. ASSUME NEW i \in 1..Len(s)-1 PROVE h[i+1] = h[i] \o s[i+1]
    <3>1. i + 1 \in 1..Len(s) /\ i + 1 # 1 /\ (i + 1) - 1 = i  BY <1>0
    <3>2. h[i+1] = h[(i+1)-1] \o s[i+1]  BY <1>3, <3>1, Zenon
    <3> QED BY <3>1, <3>2, Zenon
  <2> QED BY <2>1, <2>2, Zenon DEF Joins
<1>6. Agree(h, f, Len(s))
  <2>1. Agree(s, s, Len(s))  BY Zenon DEF Agree
  <2> QED BY <1>0, <1>1, <1>5, <2>1, JoinUnique, Zenon
<1>7. h \in [1..Len(s) -> Seq(S)]
  <2>1. h = [i \in 1..Len(s) |-> h[i]]  BY <1>3, Zenon
  <2> QED BY <1>6, <2>1, Zenon DEF Agree
<1> QED BY <1>4, <1>5, <1>7, Zenon

(* Flattening one more sequence appends its elements.                       *)
LEMMA FlattenAppend ==
  ASSUME NEW S, NEW s \in Seq(Seq(S)), NEW e \in Seq(S)
  PROVE  /\ FlattenSeq(s) \in Seq(S)
         /\ FlattenSeq(Append(s, e)) = FlattenSeq(s) \o e
<1> DEFINE t == Append(s, e)
<1>1. /\ t \in Seq(Seq(S)) /\ Len(t) = Len(s) + 1 /\ Len(s) \in Nat
      /\ t[Len(s) + 1] = e
      /\ \A i \in 1..Len(s) : s[i] = t[i]
  OBVIOUS
<1> HIDE DEF t
<1>2. PICK g \in [1..Len(t) -> Seq(S)] :
            Joins(g, t, Len(t)) /\ FlattenSeq(t) = g[Len(t)]
  <2>1. Len(t) > 0  BY <1>1
  <2> QED BY <1>1, <2>1, FlattenIsJoin, Zenon
<1>3. CASE Len(s) = 0
  <2>1. s = <<>>  BY <1>3
  <2>2. FlattenSeq(s) = <<>>  BY <1>3, <2>1, Zenon DEF FlattenSeq
  <2>3. g[1] = t[1]  BY <1>2, Zenon DEF Joins
  <2>4. Len(t) = 1 /\ t[1] = e  BY <1>1, <1>3
  <2>5. FlattenSeq(t) = e  BY <1>2, <2>3, <2>4, Zenon
  <2>6. <<>> \o e = e /\ <<>> \in Seq(S)  OBVIOUS
  <2> QED BY <2>2, <2>5, <2>6, Zenon DEF t
<1>4. CASE Len(s) > 0
  <2>1. PICK f \in [1..Len(s) -> Seq(S)] :
              Joins(f, s, Len(s)) /\ FlattenSeq(s) = f[Len(s)]
    BY <1>4, FlattenIsJoin, Zenon
  <2>2. /\ Len(s) \in 1..Len(s) /\ Len(t) \in Nat /\ Len(s) <= Len(t)
        /\ Len(s) \in 1..Len(t)-1
    BY <1>1, <1>4, SMTT(20)
  <2>3. f[Len(s)] = g[Len(s)]
    <3>1. Joins(f, s, Len(s)) /\ Joins(g, t, Len(t))  BY <1>2, <2>1, Zenon
    <3>2. Agree(s, t, Len(s))  BY <1>1, Zenon DEF Agree
    <3>3. Agree(f, g, Len(s))  BY <1>1, <2>2, <3>1, <3>2, JoinUnique, Zenon
    <3> QED BY <2>2, <3>3, Zenon DEF Agree
  <2>4. g[Len(s) + 1] = g[Len(s)] \o t[Len(s) + 1]  BY <1>2, <2>2, Zenon DEF Joins
  <2>5. f[Len(s)] \in Seq(S)  BY <2>2, Zenon
  <2>6. FlattenSeq(t) = g[Len(s)] \o e  BY <1>1, <1>2, <2>4, Zenon
  <2> QED BY <2>1, <2>3, <2>5, <2>6, Zenon DEF t
<1> QED BY <1>1, <1>3, <1>4, SMTT(20)

-----------------------------------------------------------------------------
(* The inductive invariant                                                  *)

Writes == Nat \X {"type", "ip", "port", "len", "data"}

TypeOK ==
    /\ is_connect \in BOOLEAN
    /\ stage \in {"request", "resolve", "bind", "loops", "returned"}
    /\ output \in {"receiving", "writing", "closing", "stopped"}
    /\ datagrams \in Seq(BOOLEAN)
    /\ todo \in Seq(Writes)
    /\ held \in Seq(Writes)
    /\ wire \in Seq(Writes)
    /\ counted \in Nat
    /\ fin \in BOOLEAN
    /\ broken \in BOOLEAN

\* Nothing is received before the loops begin; is_connect is settled by then.
Untouched ==
    stage \in {"request", "resolve", "bind"} =>
        /\ output = "receiving"
        /\ datagrams = <<>>
        /\ wire = <<>>
        /\ held = <<>>

\* A packet is cut short only when the client's stream is gone.
TodoInv ==
    /\ output = "writing" => todo # <<>>
    /\ output = "receiving" => todo = <<>>
    /\ output \in {"closing", "stopped"} /\ todo # <<>> => broken
    /\ fin => output = "stopped" /\ todo = <<>> /\ held = <<>>

UotInv == TypeOK /\ Untouched /\ TodoInv /\ DownloadExact

(* A sequence is the function of its elements.                              *)
LEMMA SeqIsFunction ==
  ASSUME NEW S, NEW q \in Seq(S)
  PROVE  q = [i \in 1..Len(q) |-> q[i]]
OBVIOUS

(* A packet is a sequence of one write at least.                            *)
LEMMA PacketType ==
  ASSUME NEW i \in Nat, NEW e
  PROVE  Packet(i, e) \in Seq(Writes) /\ Packet(i, e) # <<>>
<1> DEFINE w(k) == <<i, k>>
           a == IF is_connect THEN <<>> ELSE <<w("type"), w("ip"), w("port")>>
           b == <<w("len")>>
           c == IF e THEN <<>> ELSE <<w("data")>>
<1>1. /\ w("type") \in Writes /\ w("ip") \in Writes /\ w("port") \in Writes
      /\ w("len") \in Writes /\ w("data") \in Writes
  BY Zenon DEF Writes
<1>2. Packet(i, e) = a \o b \o c  BY Zenon DEF Packet
<1> HIDE DEF w
<1>3. a \in Seq(Writes) /\ b \in Seq(Writes) /\ c \in Seq(Writes) /\ Len(b) = 1
  BY <1>1
<1> HIDE DEF a, b, c
<1>4. a \o b \o c \in Seq(Writes) /\ Len(a \o b \o c) = Len(a) + 1 + Len(c)
  <2> DEFINE d == a \o b
  <2>1. d \in Seq(Writes) /\ Len(d) = Len(a) + Len(b)  BY <1>3, ConcatProperties, Zenon
  <2> HIDE DEF d
  <2>2. d \o c \in Seq(Writes) /\ Len(d \o c) = Len(d) + Len(c)
    BY <1>3, <2>1, ConcatProperties, Zenon
  <2> QED BY <1>3, <2>1, <2>2, Zenon DEF d
<1>5. Len(a) \in Nat /\ Len(c) \in Nat  BY <1>3
<1>6. a \o b \o c # <<>>  BY <1>4, <1>5
<1> QED BY <1>2, <1>4, <1>6, Zenon

(* The packets of one datagram more end with its packet.                    *)
LEMMA PacketsNext ==
  ASSUME datagrams \in Seq(BOOLEAN), NEW e \in BOOLEAN,
         datagrams' = Append(datagrams, e), is_connect' = is_connect
  PROVE  /\ Packets(Len(datagrams)) \in Seq(Writes)
         /\ Packets(Len(datagrams))'
                = Packets(Len(datagrams)) \o Packet(Len(datagrams) + 1, e)
<1> DEFINE n == Len(datagrams)
           s == [i \in 1..n |-> Packet(i, datagrams[i])]
           p == Packet(n + 1, e)
           t == [i \in 1..n+1 |-> Packet(i, datagrams'[i])]
<1>1. n \in Nat /\ Len(datagrams') = n + 1 /\ datagrams'[n + 1] = e  OBVIOUS
<1>2. \A i \in 1..n : datagrams'[i] = datagrams[i]  OBVIOUS
<1>3. s \in Seq(Seq(Writes)) /\ Len(s) = n
  <2>1. \A i \in 1..n : Packet(i, datagrams[i]) \in Seq(Writes)  BY <1>1, PacketType, SMTT(20)
  <2> HIDE DEF n
  <2> QED BY <1>1, <2>1, SMTT(20)
<1>4. p \in Seq(Writes)  BY <1>1, PacketType, SMTT(20)
<1>5. Packets(n) = FlattenSeq(s)  BY Zenon DEF Packets
<1>6. Packets(Len(datagrams))' = FlattenSeq(t)
  <2>1. Packets(Len(datagrams))'
            = FlattenSeq([i \in 1..Len(datagrams') |-> Packet(i, datagrams'[i])])
    BY Zenon DEF Packets, Packet
  <2> QED BY <1>1, <2>1, Zenon
<1>7. t = Append(s, p)
  <2>1. /\ Append(s, p) \in Seq(Seq(Writes)) /\ Len(Append(s, p)) = n + 1
        /\ \A i \in 1..n+1 : Append(s, p)[i] = IF i = n + 1 THEN p ELSE s[i]
    <3> HIDE DEF s, p, n
    <3> QED BY <1>1, <1>3, <1>4, SMTT(20)
  <2>2. ASSUME NEW i \in 1..n+1
        PROVE  Packet(i, datagrams'[i]) = IF i = n + 1 THEN p ELSE s[i]
    <3>1. CASE i = n + 1
      BY <1>1, <3>1, Zenon
    <3>2. CASE i \in 1..n
      <4>1. i # n + 1  BY <1>1, <3>2, SMTT(20)
      <4> QED BY <1>2, <3>2, <4>1, Zenon
    <3> HIDE DEF n
    <3> QED BY <1>1, <3>1, <3>2, SMTT(20)
  <2>3. \A i \in 1..n+1 : t[i] = Append(s, p)[i]  BY <2>1, <2>2, Zenon
  <2>5. Append(s, p) = [i \in 1..n+1 |-> Append(s, p)[i]]
    <3> DEFINE q == Append(s, p)
    <3>1. q \in Seq(Seq(Writes)) /\ Len(q) = n + 1  BY <2>1, Zenon
    <3> HIDE DEF s, p, n, q
    <3>2. q = [i \in 1..Len(q) |-> q[i]]  BY <3>1, SeqIsFunction, Zenon
    <3> QED BY <3>1, <3>2, Zenon DEF q
  <2>6. t = [i \in 1..n+1 |-> t[i]]  BY Zenon
  <2> HIDE DEF s, p, t
  <2> QED BY <2>3, <2>5, <2>6, Zenon
<1> HIDE DEF s, p, t, n
<1>8. FlattenSeq(s) \in Seq(Writes) /\ FlattenSeq(Append(s, p)) = FlattenSeq(s) \o p
  BY <1>3, <1>4, FlattenAppend, Zenon
<1> QED BY <1>5, <1>6, <1>7, <1>8, Zenon DEF n, p

(* A step that receives nothing leaves the packets as they are.             *)
LEMMA PacketsSame ==
  ASSUME datagrams' = datagrams, is_connect' = is_connect
  PROVE  Packets(Len(datagrams))' = Packets(Len(datagrams))
BY Zenon DEF Packets, Packet

-----------------------------------------------------------------------------
(* One step per action                                                      *)

(* A step that leaves the output loop and the transport alone, and takes no *)
(* tunnel back to its request, keeps the invariant.                         *)
LEMMA QuietStep ==
  ASSUME UotInv, UNCHANGED <<outputVars, is_connect>>,
         broken' \in BOOLEAN, broken => broken',
         stage' \in {"request", "resolve", "bind", "loops", "returned"},
         stage' \in {"request", "resolve", "bind"}
            => stage \in {"request", "resolve", "bind"}
  PROVE  UotInv'
<1>1. /\ output' = output /\ datagrams' = datagrams /\ todo' = todo
      /\ counted' = counted /\ held' = held /\ wire' = wire /\ fin' = fin
      /\ is_connect' = is_connect
  BY Zenon DEF outputVars, writerVars
<1>2. TypeOK'  BY <1>1, Zenon DEF UotInv, TypeOK
<1>3. Untouched'  BY <1>1, Zenon DEF UotInv, Untouched
<1>4. TodoInv'  BY <1>1, Zenon DEF UotInv, TodoInv
<1>5. DownloadExact'
  <2>1. Packets(Len(datagrams))' = Packets(Len(datagrams))  BY <1>1, PacketsSame, Zenon
  <2> QED BY <1>1, <2>1, Zenon DEF UotInv, DownloadExact
<1> QED BY <1>2, <1>3, <1>4, <1>5, Zenon DEF UotInv

(* The request settles is_connect while there is no packet yet.             *)
LEMMA ReadRequestStep ==
  ASSUME UotInv, NEW connect \in BOOLEAN, ReadRequest(connect)
  PROVE  UotInv'
<1>1. /\ output' = output /\ datagrams' = datagrams /\ todo' = todo
      /\ counted' = counted /\ held' = held /\ wire' = wire /\ fin' = fin
      /\ broken' = broken /\ is_connect' \in BOOLEAN
      /\ stage = "request" /\ stage' \in {"resolve", "bind"}
  BY Zenon DEF ReadRequest, outputVars, writerVars
<1>2. TypeOK'  BY <1>1, Zenon DEF UotInv, TypeOK
<1>3. Untouched'  BY <1>1, Zenon DEF UotInv, Untouched
<1>4. TodoInv'  BY <1>1, Zenon DEF UotInv, TodoInv
<1>5. DownloadExact'
  <2>1. datagrams = <<>> /\ datagrams' = <<>>  BY <1>1, Zenon DEF UotInv, Untouched
  <2>2. Packets(Len(datagrams)) = <<>> /\ Packets(Len(datagrams))' = <<>>
    BY <2>1, SMTT(20) DEF Packets, FlattenSeq
  <2> QED BY <1>1, <2>2, Zenon DEF UotInv, DownloadExact
<1> QED BY <1>2, <1>3, <1>4, <1>5, Zenon DEF UotInv

(* A datagram that is received adds its packet to what is to be written.    *)
LEMMA OutputReceivesStep ==
  ASSUME UotInv, NEW empty \in BOOLEAN, OutputReceives(empty)
  PROVE  UotInv'
<1> DEFINE n == Len(datagrams)
           p == Packet(n + 1, empty)
<1>1. /\ output = "receiving" /\ output' = "writing" /\ todo' = p
      /\ datagrams' = Append(datagrams, empty) /\ is_connect' = is_connect
      /\ counted' = counted /\ held' = held /\ wire' = wire /\ fin' = fin
      /\ broken' = broken /\ stage' = stage /\ stage = "loops"
  BY Zenon DEF OutputReceives, writerVars
<1>2. /\ datagrams \in Seq(BOOLEAN) /\ n \in Nat /\ Len(datagrams') = n + 1
      /\ datagrams' \in Seq(BOOLEAN)
  BY <1>1 DEF UotInv, TypeOK
<1>3. p \in Seq(Writes) /\ p # <<>>  BY <1>2, PacketType, SMTT(20)
<1> HIDE DEF p
<1>4. TypeOK'  BY <1>1, <1>2, <1>3, Zenon DEF UotInv, TypeOK
<1>5. Untouched'  BY <1>1, Zenon DEF Untouched
<1>6. todo = <<>> /\ ~ fin  BY <1>1, Zenon DEF UotInv, TodoInv, TypeOK
<1>7. TodoInv'  BY <1>1, <1>3, <1>6, Zenon DEF TodoInv
<1>8. DownloadExact'
  <2>1. /\ Packets(n) \in Seq(Writes)
        /\ Packets(Len(datagrams))' = Packets(n) \o p
    BY <1>1, <1>2, PacketsNext, Zenon DEF p
  <2>2. wire \o held \o <<>> = Packets(n)  BY <1>6, Zenon DEF UotInv, DownloadExact
  <2>3. wire \o held \in Seq(Writes)  BY ConcatProperties, Zenon DEF UotInv, TypeOK
  <2>4. wire \o held = Packets(n)  BY <2>2, <2>3, ConcatEmptySeq, Zenon
  <2>5. wire' \o held' \o todo' = Packets(Len(datagrams))'  BY <1>1, <2>1, <2>4, Zenon
  <2>6. counted = n  BY <1>2, <1>6, SMTT(20) DEF UotInv, DownloadExact
  <2>7. counted' = Len(datagrams') - 1  BY <1>1, <1>2, <2>6, SMTT(20)
  <2>8. todo' # <<>>  BY <1>1, <1>3, Zenon
  <2> QED BY <2>5, <2>7, <2>8, Zenon DEF DownloadExact
<1> QED BY <1>4, <1>5, <1>7, <1>8, Zenon DEF UotInv

(* What is held goes out: the stream and what is held are together the same. *)
LEMMA DrainHeldStep ==
  ASSUME UotInv, DrainHeld
  PROVE  UotInv'
<1>1. /\ output' = output /\ datagrams' = datagrams /\ todo' = todo
      /\ counted' = counted /\ held' = <<>> /\ wire' = wire \o held /\ fin' = fin
      /\ broken' = broken /\ stage' = stage /\ is_connect' = is_connect
      /\ output \in {"writing", "closing"}
  BY Zenon DEF DrainHeld
<1>2. wire \in Seq(Writes) /\ held \in Seq(Writes) /\ wire' \in Seq(Writes)
  BY <1>1, ConcatProperties, Zenon DEF UotInv, TypeOK
<1>3. TypeOK'  BY <1>1, <1>2, SMTT(20) DEF UotInv, TypeOK
<1>4. Untouched'  BY <1>1, Zenon DEF UotInv, Untouched
<1>5. TodoInv'  BY <1>1, Zenon DEF UotInv, TodoInv
<1>6. DownloadExact'
  <2>1. Packets(Len(datagrams))' = Packets(Len(datagrams))  BY <1>1, PacketsSame, Zenon
  <2>2. wire' \o held' = wire \o held  BY <1>1, <1>2, ConcatEmptySeq, SMTT(20)
  <2> QED BY <1>1, <2>1, <2>2, Zenon DEF UotInv, DownloadExact
<1> QED BY <1>3, <1>4, <1>5, <1>6, Zenon DEF UotInv

(* A write that is accepted moves from the packet to the transport.  The     *)
(* packet is counted with its last write.                                    *)
LEMMA WriteAcceptsStep ==
  ASSUME UotInv, NEW hold \in BOOLEAN, WriteAccepts(hold)
  PROVE  UotInv'
<1>1. /\ output = "writing" /\ ~ broken /\ held = <<>>
      /\ \/ held' = <<Head(todo)>> /\ wire' = wire
         \/ held' = held /\ wire' = Append(wire, Head(todo))
      /\ todo' = Tail(todo)
      /\ IF Len(todo) = 1 THEN output' = "receiving" /\ counted' = counted + 1
                          ELSE output' = output /\ counted' = counted
      /\ datagrams' = datagrams /\ fin' = fin
      /\ broken' = broken /\ stage' = stage /\ is_connect' = is_connect
  BY Zenon DEF WriteAccepts
<1>2. /\ wire \in Seq(Writes) /\ todo \in Seq(Writes) /\ todo # <<>>
      /\ Len(todo) \in Nat /\ Len(todo) # 0 /\ counted \in Nat
  BY <1>1 DEF UotInv, TypeOK, TodoInv
<1>3. /\ Head(todo) \in Writes /\ Tail(todo) \in Seq(Writes)
      /\ Len(Tail(todo)) = Len(todo) - 1
      /\ todo = <<Head(todo)>> \o Tail(todo)
  BY <1>2
<1>4. <<Head(todo)>> \in Seq(Writes)  BY <1>3
<1>5. Append(wire, Head(todo)) = wire \o <<Head(todo)>>  BY <1>2, <1>3, AppendIsConcat, Zenon
<1>6. wire \o <<Head(todo)>> \in Seq(Writes)  BY <1>2, <1>4, ConcatProperties, Zenon
<1>7. TypeOK'
  <2>1. held' \in Seq(Writes) /\ wire' \in Seq(Writes)
    BY <1>1, <1>2, <1>4, <1>5, <1>6, Zenon DEF UotInv, TypeOK
  <2>2. output' \in {"receiving", "writing"} /\ counted' \in Nat  BY <1>1, <1>2, SMTT(20)
  <2> QED BY <1>1, <1>3, <2>1, <2>2, Zenon DEF UotInv, TypeOK
<1>8. Untouched'  BY <1>1, Zenon DEF UotInv, Untouched
<1>9. ~ fin  BY <1>1, Zenon DEF UotInv, TodoInv, TypeOK
<1>10. Len(todo) = 1 <=> Tail(todo) = <<>>
  <2>1. Len(todo) = 1 => Tail(todo) = <<>>  BY <1>3
  <2>2. Len(<<>>) = 0  BY Zenon
  <2>3. Tail(todo) = <<>> => Len(Tail(todo)) = 0  BY <2>2, Zenon
  <2> QED BY <1>2, <1>3, <2>1, <2>3, SMTT(20)
<1>11. TodoInv'
  BY <1>1, <1>9, <1>10, Zenon DEF TodoInv
<1>12. DownloadExact'
  <2>1. Packets(Len(datagrams))' = Packets(Len(datagrams))  BY <1>1, PacketsSame, Zenon
  <2>2. wire \o held \o todo = Packets(Len(datagrams))  BY Zenon DEF UotInv, DownloadExact
  <2>3. wire \o held = wire  BY <1>1, <1>2, ConcatEmptySeq, Zenon
  <2>4. wire' \o held' = wire \o <<Head(todo)>>
    <3>1. CASE held' = <<Head(todo)>> /\ wire' = wire
      BY <3>1, Zenon
    <3>2. CASE held' = held /\ wire' = Append(wire, Head(todo))
      BY <1>1, <1>5, <1>6, <3>2, ConcatEmptySeq, Zenon
    <3> QED BY <1>1, <3>1, <3>2, Zenon
  <2>5. (wire \o <<Head(todo)>>) \o Tail(todo) = wire \o (<<Head(todo)>> \o Tail(todo))
    BY <1>2, <1>3, <1>4, ConcatAssociative, SMTT(20)
  <2>6. wire' \o held' \o todo' = wire \o todo  BY <1>1, <1>3, <2>4, <2>5, Zenon
  <2>7. wire' \o held' \o todo' = Packets(Len(datagrams))'  BY <2>1, <2>2, <2>3, <2>6, Zenon
  <2>8. counted = Len(datagrams) - 1  BY <1>2, Zenon DEF UotInv, DownloadExact
  <2>9. Len(datagrams) \in Nat  BY DEF UotInv, TypeOK
  <2>10. counted' = Len(datagrams') - (IF todo' = <<>> THEN 0 ELSE 1)
    <3>1. CASE Len(todo) = 1
      <4>1. todo' = <<>> /\ counted' = counted + 1  BY <1>1, <1>10, <3>1, Zenon
      <4> QED BY <1>1, <2>8, <2>9, <4>1, SMTT(20)
    <3>2. CASE Len(todo) # 1
      <4>1. todo' # <<>> /\ counted' = counted  BY <1>1, <1>10, <3>2, Zenon
      <4> QED BY <1>1, <2>8, <2>9, <4>1, Zenon
    <3> QED BY <3>1, <3>2, Zenon
  <2> QED BY <2>7, <2>10, Zenon DEF DownloadExact
<1> QED BY <1>7, <1>8, <1>11, <1>12, Zenon DEF UotInv

(* Leaving the loop between packets, or because the stream is gone, keeps    *)
(* the packets whole unless it is gone.                                      *)
LEMMA ClosingStep ==
  ASSUME UotInv, OutputFails \/ WriteFails \/ OutputStops \/ CloseGivesUp
  PROVE  UotInv'
<1>1. /\ datagrams' = datagrams /\ todo' = todo
      /\ counted' = counted /\ held' = held /\ wire' = wire /\ fin' = fin
      /\ broken' = broken /\ stage' = stage /\ is_connect' = is_connect
      /\ \/ output = "receiving" /\ stage = "loops" /\ output' = "closing"
         \/ output = "writing" /\ broken /\ output' = "closing"
         \/ output = "closing" /\ output' = "stopped"
  BY Zenon DEF OutputFails, WriteFails, OutputStops, CloseGivesUp, writerVars
<1>2. TypeOK'  BY <1>1, Zenon DEF UotInv, TypeOK
<1>3. Untouched'  BY <1>1, Zenon DEF UotInv, Untouched
<1>4. TodoInv'  BY <1>1, Zenon DEF UotInv, TodoInv
<1>5. DownloadExact'
  <2>1. Packets(Len(datagrams))' = Packets(Len(datagrams))  BY <1>1, PacketsSame, Zenon
  <2> QED BY <1>1, <2>1, Zenon DEF UotInv, DownloadExact
<1> QED BY <1>2, <1>3, <1>4, <1>5, Zenon DEF UotInv

(* The stream is shut down only when nothing is held and nothing to do.      *)
LEMMA CloseStep ==
  ASSUME UotInv, Close
  PROVE  UotInv'
<1>1. /\ datagrams' = datagrams /\ todo' = todo
      /\ counted' = counted /\ held' = held /\ wire' = wire /\ fin' = TRUE
      /\ broken' = broken /\ stage' = stage /\ is_connect' = is_connect
      /\ output = "closing" /\ ~ broken /\ held = <<>> /\ output' = "stopped"
  BY Zenon DEF Close
<1>2. TypeOK'  BY <1>1, Zenon DEF UotInv, TypeOK
<1>3. Untouched'  BY <1>1, Zenon DEF UotInv, Untouched
<1>4. TodoInv'  BY <1>1, Zenon DEF UotInv, TodoInv
<1>5. DownloadExact'
  <2>1. Packets(Len(datagrams))' = Packets(Len(datagrams))  BY <1>1, PacketsSame, Zenon
  <2> QED BY <1>1, <2>1, Zenon DEF UotInv, DownloadExact
<1> QED BY <1>2, <1>3, <1>4, <1>5, Zenon DEF UotInv

(* The invariant is inductive.                                               *)
LEMMA UotInvariant == Spec => []UotInv
<1>1. Init => UotInv
  <2> SUFFICES ASSUME Init PROVE UotInv  BY Zenon
  <2>1. TypeOK /\ Untouched /\ TodoInv
    <3>1. <<>> \in Seq(Writes) /\ <<>> \in Seq(BOOLEAN)  OBVIOUS
    <3>2. stage \in {"request", "bind"}  BY Zenon DEF Init
    <3>3. TypeOK  BY <3>1, <3>2, Zenon DEF Init, TypeOK
    <3>4. Untouched /\ TodoInv  BY Zenon DEF Init, Untouched, TodoInv
    <3> QED BY <3>3, <3>4, Zenon
  <2>2. Packets(Len(datagrams)) = <<>>  BY DEF Init, Packets, FlattenSeq
  <2>3. DownloadExact  BY <2>2, SMTT(20) DEF Init, DownloadExact
  <2> QED BY <2>1, <2>3, Zenon DEF UotInv
<1>2. UotInv /\ [Next]_vars => UotInv'
  <2> SUFFICES ASSUME UotInv, [Next]_vars PROVE UotInv'  BY Zenon
  <2>1. ASSUME NEW connect \in BOOLEAN, ReadRequest(connect) PROVE UotInv'
    BY <2>1, ReadRequestStep, Zenon
  <2>2. CASE ResolveRequest \/ Bind \/ RequestFails
    <3>1. /\ UNCHANGED <<outputVars, is_connect>> /\ broken' = broken
          /\ stage \in {"request", "resolve", "bind"}
          /\ stage' \in {"bind", "loops", "returned"}
      BY <2>2, Zenon DEF ResolveRequest, Bind, RequestFails
    <3> QED BY <3>1, QuietStep, Zenon DEF UotInv, TypeOK
  <2>3. CASE Input
    <3>1. UNCHANGED <<outputVars, is_connect>> /\ broken' = broken /\ stage' = stage
      BY <2>3, Zenon DEF Input, ReadAddress, ResolveAddress, ReadPayload, InputSends,
                  InputFails, InputStops
    <3> QED BY <3>1, QuietStep, Zenon DEF UotInv, TypeOK
  <2>4. ASSUME NEW empty \in BOOLEAN, OutputReceives(empty) PROVE UotInv'
    BY <2>4, OutputReceivesStep, Zenon
  <2>5. CASE OutputFails \/ WriteFails \/ OutputStops \/ CloseGivesUp
    BY <2>5, ClosingStep, Zenon
  <2>6. CASE Close
    BY <2>6, CloseStep, Zenon
  <2>7. CASE DrainHeld
    BY <2>7, DrainHeldStep, Zenon
  <2>8. ASSUME NEW hold \in BOOLEAN, WriteAccepts(hold) PROVE UotInv'
    BY <2>8, WriteAcceptsStep, Zenon
  <2>9. CASE Return \/ Cancel \/ ClientLeaves
    <3>1. /\ UNCHANGED <<outputVars, is_connect>>
          /\ stage' \in {stage, "returned"}
      BY <2>9, Zenon DEF Return, Cancel, ClientLeaves
    <3>2. broken' \in BOOLEAN /\ (broken => broken')
      BY <2>9, Zenon DEF Return, Cancel, ClientLeaves, UotInv, TypeOK
    <3> QED BY <3>1, <3>2, QuietStep, Zenon DEF UotInv, TypeOK
  <2>10. CASE UNCHANGED vars
    <3>1. UNCHANGED <<outputVars, is_connect>> /\ broken' = broken /\ stage' = stage
      BY <2>10, Zenon DEF vars
    <3> QED BY <3>1, QuietStep, Zenon DEF UotInv, TypeOK
  <2> QED
    BY <2>1, <2>2, <2>3, <2>4, <2>5, <2>6, <2>7, <2>8, <2>9, <2>10, SMTT(20)
    DEF Next, Request, Output, ClientTakes
<1> QED BY <1>1, <1>2, PTL DEF Spec

-----------------------------------------------------------------------------
(* The theorems                                                             *)

(* For any number of datagrams and any number of padded frames: what reached *)
(* the client's stream, what the padded transport holds and what is left to  *)
(* write are the packets of the datagrams received, in their order, and      *)
(* record_download has counted the ones accepted whole.                      *)
THEOREM StreamCarriesPackets == Spec => []DownloadExact
BY UotInvariant, PTL DEF UotInv

(* A stream closed with a FIN ends after a whole packet and holds every      *)
(* packet that was counted.                                                  *)
THEOREM FinAfterWholePacket == Spec => []FinEndsPacket
<1>1. UotInv => FinEndsPacket
  <2> SUFFICES ASSUME UotInv, fin PROVE held = <<>> /\ wire = Packets(counted)
    BY Zenon DEF FinEndsPacket
  <2>1. todo = <<>> /\ held = <<>>  BY Zenon DEF UotInv, TodoInv
  <2>2. wire \in Seq(Writes) /\ Len(datagrams) \in Nat  BY DEF UotInv, TypeOK
  <2>3. wire \o <<>> \o <<>> = wire  BY <2>2, ConcatEmptySeq, Zenon
  <2>4. wire \o <<>> \o <<>> = Packets(Len(datagrams))
    BY <2>1, Zenon DEF UotInv, DownloadExact
  <2>5. counted = Len(datagrams)  BY <2>1, <2>2 DEF UotInv, DownloadExact
  <2> QED BY <2>1, <2>3, <2>4, <2>5, Zenon
<1> QED BY <1>1, UotInvariant, PTL
=============================================================================
