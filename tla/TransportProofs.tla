--------------------------- MODULE TransportProofs ---------------------------
(***************************************************************************)
(* Proofs about what lies under a tunnel: the session bridge of HTTP/2,    *)
(* and the datagram sockets and buffers below QUIC.  The three share no    *)
(* state; each has its own specification and its own inductive invariant.  *)
(***************************************************************************)
EXTENDS SessionBridge, Datagram, DgramBuffer, SequenceTheorems, TLAPS

-----------------------------------------------------------------------------
(* The session bridge                                                       *)

\* The n bytes of a stream after the first k.
Run(k, n) == [i \in 1..n |-> k + i]

\* A run of n bytes is a sequence of length n.
LEMMA RunType ==
    ASSUME NEW k \in Nat, NEW n \in Nat
    PROVE  Run(k, n) \in Seq(Nat) /\ Len(Run(k, n)) = n /\ (n = 0 <=> Run(k, n) = <<>>)
<1>1. Run(k, n) \in Seq(Nat) /\ Len(Run(k, n)) = n
  BY DEF Run
<1>2. \A s \in Seq(Nat) : Len(s) = 0 <=> s = <<>>
  OBVIOUS
<1> QED
  BY <1>1, <1>2, Zenon

\* A run falls into a run and the one after it.
LEMMA RunSplits ==
    ASSUME NEW k \in Nat, NEW m \in Nat, NEW n \in 0..m
    PROVE  /\ SubSeq(Run(k, m), 1, n) = Run(k, n)
           /\ SubSeq(Run(k, m), n + 1, m) = Run(k + n, m - n)
BY DEF Run

\* A run gives up its first byte, or is extended by the next one.
LEMMA RunMoves ==
    ASSUME NEW k \in Nat, NEW m \in Nat
    PROVE  /\ m # 0 => Head(Run(k, m)) = k + 1 /\ Tail(Run(k, m)) = Run(k + 1, m - 1)
           /\ Append(Run(k, m), (k + m) + 1) = Run(k, m + 1)
<1>1. ASSUME m # 0 PROVE Head(Run(k, m)) = k + 1
  BY <1>1 DEF Run
<1>2. ASSUME m # 0 PROVE Tail(Run(k, m)) = Run(k + 1, m - 1)
  BY <1>2, SMTT(20) DEF Run
<1>3. Append(Run(k, m), (k + m) + 1) = Run(k, m + 1)
  BY DEF Run
<1> QED
  BY <1>1, <1>2, <1>3, Zenon

\* Taking the first n bytes of a sequence, or the first one, and leaving the rest.
LEMMA SeqParts ==
    ASSUME NEW s \in Seq(Nat)
    PROVE  /\ \A n \in 0..Len(s) :
                  /\ SubSeq(s, 1, n) \in Seq(Nat) /\ Len(SubSeq(s, 1, n)) = n
                  /\ SubSeq(s, n + 1, Len(s)) \in Seq(Nat)
                  /\ Len(SubSeq(s, n + 1, Len(s))) = Len(s) - n
           /\ s # <<>> => /\ Head(s) \in Nat /\ Tail(s) \in Seq(Nat)
                          /\ Len(Tail(s)) = Len(s) - 1
<1>1. ASSUME NEW n \in 0..Len(s)
      PROVE  SubSeq(s, 1, n) \in Seq(Nat) /\ Len(SubSeq(s, 1, n)) = n
  OBVIOUS
<1>2. ASSUME NEW n \in 0..Len(s)
      PROVE  /\ SubSeq(s, n + 1, Len(s)) \in Seq(Nat)
             /\ Len(SubSeq(s, n + 1, Len(s))) = Len(s) - n
  OBVIOUS
<1>3. ASSUME s # <<>>
      PROVE  Head(s) \in Nat /\ Tail(s) \in Seq(Nat) /\ Len(Tail(s)) = Len(s) - 1
  BY <1>3
<1> QED
  BY <1>1, <1>2, <1>3, Zenon

\* Adjacent runs make one.
LEMMA RunsJoin ==
    ASSUME NEW k \in Nat, NEW m \in Nat, NEW n \in Nat
    PROVE  Run(k, m) \o Run(k + m, n) = Run(k, m + n)
BY DEF Run

\* The part of a chunk that the upload branch, or the download branch, holds.
Uploading == IF at = "upload" THEN Len(chunk) ELSE 0
Downloading == IF at = "download" THEN Len(chunk) ELSE 0

BridgeTypes ==
    /\ at \in {"pollUp", "pollDown", "upload", "download", "end", "done"}
    /\ up_eof \in BOOLEAN /\ down_eof \in BOOLEAN
    /\ upShut \in BOOLEAN /\ ended \in BOOLEAN /\ gotEof \in BOOLEAN
    /\ client \in {"open", "eof", "reset"} /\ tunnel \in {"open", "shut", "dropped"}
    /\ chunk \in Seq(Nat) /\ body \in Seq(Nat) /\ up \in Seq(Nat) /\ down \in Seq(Nat)
    /\ got \in Seq(Nat) /\ received \in Seq(Nat) /\ sent \in Nat /\ made \in Nat

\* The control of the bridge: a branch that writes has something to write, and its
\* direction has not ended; a direction ends with the side it comes from, except that
\* the upload also ends when nobody takes it.
BridgeControl ==
    /\ at \in {"upload", "download"} => chunk # <<>>
    /\ at = "upload" => ~up_eof
    /\ at \in {"download", "end"} => ~down_eof
    /\ at = "done" => up_eof /\ down_eof
    /\ up_eof => upShut \/ tunnel = "dropped"
    /\ upShut => up_eof /\ client # "open"
    /\ at = "end" => down = <<>> /\ tunnel # "open"
    /\ ended => down_eof /\ tunnel # "open"
    /\ tunnel = "dropped" => up = <<>>

\* What the tunnel has read, the duplex, the upload branch and the request body hold the
\* client's bytes in order, as long as there is somebody to read them; only a reset
\* loses the last of them.
UploadInv ==
    /\ got = Run(0, Len(got)) /\ Len(got) <= sent
    /\ tunnel # "dropped" =>
           /\ up = Run(Len(got), Len(up))
           /\ at = "upload" => chunk = Run(Len(got) + Len(up), Len(chunk))
           /\ body = Run(Len(got) + Len(up) + Uploading, Len(body))
           /\ Len(got) + Len(up) + Uploading + Len(body) <= sent
           /\ client # "reset" => Len(got) + Len(up) + Uploading + Len(body) = sent
           /\ upShut => body = <<>>
    /\ gotEof /\ client # "reset" => client = "eof" /\ Len(got) = sent

\* The same of the tunnel's bytes, up to the end of the download.
DownloadInv ==
    /\ received = Run(0, Len(received)) /\ Len(received) <= made
    /\ at = "download" => chunk = Run(Len(received), Len(chunk))
    /\ ~down_eof =>
           /\ down = Run(Len(received) + Downloading, Len(down))
           /\ Len(received) + Downloading + Len(down) = made
    /\ ended => Len(received) = made

BridgeInv == BridgeTypes /\ BridgeControl /\ UploadInv /\ DownloadInv

\* The bytes after none are the first bytes of the stream.
LEMMA RunOfStart ==
    ASSUME NEW n \in Nat
    PROVE  Run(0, n) = Bytes(n)
BY DEF Run, Bytes

\* A step that leaves the upload and its branch alone keeps the upload.
LEMMA UploadKept ==
    ASSUME UploadInv,
           UNCHANGED <<body, client, sent, up, upShut, tunnel, got, gotEof>>,
           \/ UNCHANGED <<at, chunk>>
           \/ at # "upload" /\ at' # "upload"
    PROVE  UploadInv'
BY Zenon DEF UploadInv, Uploading

\* The same of the download.
LEMMA DownloadKept ==
    ASSUME DownloadInv,
           UNCHANGED <<received, ended, down, down_eof, made>>,
           \/ UNCHANGED <<at, chunk>>
           \/ at # "download" /\ at' # "download"
    PROVE  DownloadInv'
BY Zenon DEF DownloadInv, Downloading

\* At the start nothing has moved.
LEMMA BridgeStart == Init => BridgeInv
<1> SUFFICES ASSUME Init PROVE BridgeInv
  BY Zenon
<1>1. Len(<<>>) = 0 /\ <<>> \in Seq(Nat)
  OBVIOUS
<1>2. Run(0, 0) = <<>>
  BY RunType, Zenon
<1>3. BridgeTypes /\ BridgeControl
  BY <1>1, Zenon DEF Init, BridgeTypes, BridgeControl
<1>4. UploadInv
  BY <1>1, <1>2 DEF Init, UploadInv, Uploading
<1>5. DownloadInv
  BY <1>1, <1>2 DEF Init, DownloadInv, Downloading
<1> QED
  BY <1>3, <1>4, <1>5, Zenon DEF BridgeInv

\* The bridge takes a part of the request body.
LEMMA UploadChunkKeeps ==
    ASSUME BridgeInv, NEW n \in 1..MaxBytes, UploadChunk(n)
    PROVE  BridgeInv'
<1> DEFINE b == Len(body)
           k == Len(got) + Len(up)
<1>1. /\ at = "pollUp" /\ ~up_eof /\ n \in 1..b
      /\ chunk' = SubSeq(body, 1, n) /\ body' = SubSeq(body, n + 1, b) /\ at' = "upload"
      /\ up_eof' = up_eof /\ down_eof' = down_eof /\ client' = client /\ sent' = sent
      /\ received' = received /\ ended' = ended /\ up' = up /\ upShut' = upShut
      /\ down' = down /\ tunnel' = tunnel /\ made' = made /\ got' = got /\ gotEof' = gotEof
  BY Zenon DEF UploadChunk, duplexVars, tunnelVars
<1>2. BridgeTypes /\ BridgeControl /\ UploadInv /\ DownloadInv
  BY Zenon DEF BridgeInv
<1>3. body \in Seq(Nat) /\ got \in Seq(Nat) /\ up \in Seq(Nat) /\ sent \in Nat
  BY <1>2, Zenon DEF BridgeTypes
<1>4. b \in Nat /\ k \in Nat /\ n \in Nat /\ n # 0 /\ n \in 0..b
  BY <1>1, <1>3
<1>5. /\ chunk' \in Seq(Nat) /\ Len(chunk') = n /\ chunk' # <<>>
      /\ body' \in Seq(Nat) /\ Len(body') = b - n
  <2>1. chunk' \in Seq(Nat) /\ Len(chunk') = n /\ body' \in Seq(Nat) /\ Len(body') = b - n
    BY <1>1, <1>3, <1>4, SeqParts, Zenon
  <2>2. Len(<<>>) = 0
    BY Zenon
  <2> QED
    BY <1>4, <2>1, <2>2, Zenon
<1>6. BridgeTypes'
  BY <1>1, <1>2, <1>5, Zenon DEF BridgeTypes
<1>7. BridgeControl'
  BY <1>1, <1>2, <1>5, Zenon DEF BridgeControl
<1>8. UploadInv'
  <2>1. Uploading = 0 /\ Uploading' = n
    BY <1>1, <1>5, Zenon DEF Uploading
  <2>2. ~upShut
    BY <1>1, <1>2, Zenon DEF BridgeControl
  <2>3. CASE tunnel = "dropped"
    BY <1>1, <1>2, <2>3, Zenon DEF UploadInv
  <2>4. CASE tunnel # "dropped"
    <3>1. body = Run(k, b) /\ k + b <= sent /\ (client # "reset" => k + b = sent)
      BY <1>2, <1>3, <2>1, <2>4 DEF UploadInv
    <3> HIDE DEF k, b
    <3>2. chunk' = Run(k, n) /\ body' = Run(k + n, b - n)
      BY <1>1, <1>4, <3>1, RunSplits, Zenon
    <3>3. (k + n) + (b - n) = k + b
      BY <1>4
    <3> QED
      BY <1>1, <1>2, <1>5, <2>1, <2>2, <3>1, <3>2, <3>3, Zenon DEF UploadInv, k
  <2> QED
    BY <2>3, <2>4, Zenon
<1>9. DownloadInv'
  BY <1>1, <1>2, DownloadKept, Zenon
<1> QED
  BY <1>6, <1>7, <1>8, <1>9, Zenon DEF BridgeInv

\* The upload ends.
LEMMA UploadEndsKeeps ==
    ASSUME BridgeInv, UploadEnds
    PROVE  BridgeInv'
<1>1. /\ at = "pollUp" /\ ~up_eof /\ (client = "reset" \/ (client = "eof" /\ body = <<>>))
      /\ body' = <<>> /\ upShut' = TRUE /\ up_eof' = TRUE /\ down_eof' = down_eof
      /\ at' = (IF down_eof THEN "done" ELSE "pollUp")
      /\ chunk' = chunk /\ client' = client /\ sent' = sent
      /\ received' = received /\ ended' = ended /\ up' = up
      /\ down' = down /\ tunnel' = tunnel /\ made' = made /\ got' = got /\ gotEof' = gotEof
  BY Zenon DEF UploadEnds, Loop, tunnelVars
<1>2. BridgeTypes /\ BridgeControl /\ UploadInv /\ DownloadInv
  BY Zenon DEF BridgeInv
<1>3. <<>> \in Seq(Nat) /\ Len(<<>>) = 0
  OBVIOUS
<1>4. BridgeTypes'
  BY <1>1, <1>2, <1>3, Zenon DEF BridgeTypes
<1>5. BridgeControl'
  BY <1>1, <1>2, Zenon DEF BridgeControl
<1>6. UploadInv'
  <2> DEFINE k == Len(got) + Len(up)
             b == Len(body)
  <2>1. Uploading = 0 /\ Uploading' = 0
    BY <1>1, Zenon DEF Uploading
  <2>2. k \in Nat /\ b \in Nat /\ sent \in Nat
    BY <1>2 DEF BridgeTypes
  <2>3. CASE tunnel = "dropped"
    BY <1>1, <1>2, <2>3, Zenon DEF UploadInv
  <2>4. CASE tunnel # "dropped"
    <3>1. k + b <= sent /\ (client # "reset" => k + b = sent)
      BY <1>2, <2>1, <2>2, <2>4 DEF UploadInv
    <3>2. client # "reset" => b = 0
      BY <1>1, <1>3, Zenon
    <3> HIDE DEF k, b
    <3>3. k <= sent /\ (client # "reset" => k = sent) /\ k + 0 = k
      BY <2>2, <3>1, <3>2
    <3>4. Run(k, 0) = <<>>
      BY <2>2, RunType, Zenon
    <3> QED
      BY <1>1, <1>2, <1>3, <2>1, <3>3, <3>4, Zenon DEF UploadInv, k
  <2> QED
    BY <2>3, <2>4, Zenon
<1>7. DownloadInv'
  BY <1>1, <1>2, DownloadKept, Zenon
<1> QED
  BY <1>4, <1>5, <1>6, <1>7, Zenon DEF BridgeInv

\* A byte of the chunk goes into the duplex.
LEMMA UploadWritesKeeps ==
    ASSUME BridgeInv, UploadWrites
    PROVE  BridgeInv'
<1> DEFINE c == Len(chunk)
           g == Len(got)
           u == Len(up)
           b == Len(body)
<1>1. /\ at = "upload" /\ tunnel # "dropped"
      /\ up' = Append(up, Head(chunk)) /\ chunk' = Tail(chunk)
      /\ up_eof' = up_eof /\ down_eof' = down_eof
      /\ body' = body /\ client' = client /\ sent' = sent /\ upShut' = upShut
      /\ received' = received /\ ended' = ended
      /\ down' = down /\ tunnel' = tunnel /\ made' = made /\ got' = got /\ gotEof' = gotEof
  BY Zenon DEF UploadWrites, Loop, clientVars, tunnelVars
<1>2. BridgeTypes /\ BridgeControl /\ UploadInv /\ DownloadInv
  BY Zenon DEF BridgeInv
<1>3. ~up_eof /\ chunk # <<>>
  BY <1>1, <1>2, Zenon DEF BridgeControl
<1>4. at' = (IF c = 1 THEN "pollUp" ELSE "upload")
  BY <1>1, <1>3, Zenon DEF UploadWrites, Loop
<1>5. /\ chunk \in Seq(Nat) /\ up \in Seq(Nat) /\ body \in Seq(Nat) /\ got \in Seq(Nat)
      /\ sent \in Nat
  BY <1>2, Zenon DEF BridgeTypes
<1>6. c \in Nat /\ c # 0 /\ g \in Nat /\ u \in Nat /\ b \in Nat
  BY <1>3, <1>5
<1>7. /\ Head(chunk) \in Nat /\ chunk' \in Seq(Nat) /\ Len(chunk') = c - 1
      /\ up' \in Seq(Nat) /\ Len(up') = u + 1 /\ (c # 1 => chunk' # <<>>)
  <2>1. Head(chunk) \in Nat /\ chunk' \in Seq(Nat) /\ Len(chunk') = c - 1
    BY <1>1, <1>3, <1>5, SeqParts, Zenon
  <2>2. \A x \in Nat : Append(up, x) \in Seq(Nat) /\ Len(Append(up, x)) = u + 1
    BY <1>5
  <2>3. Len(<<>>) = 0
    BY Zenon
  <2> HIDE DEF c, u
  <2>4. up' \in Seq(Nat) /\ Len(up') = u + 1
    BY <1>1, <2>1, <2>2, Zenon
  <2>5. c # 1 => chunk' # <<>>
    BY <1>6, <2>1, <2>3
  <2> QED
    BY <2>1, <2>4, <2>5, Zenon
<1>8. BridgeTypes'
  BY <1>1, <1>2, <1>4, <1>7, Zenon DEF BridgeTypes
<1>9. BridgeControl'
  BY <1>1, <1>2, <1>3, <1>4, <1>7, Zenon DEF BridgeControl
<1>10. UploadInv'
  <2>1. Uploading = c /\ Uploading' = c - 1
    BY <1>1, <1>4, <1>7 DEF Uploading
  <2>2. /\ up = Run(g, u) /\ chunk = Run(g + u, c) /\ body = Run(g + u + c, b)
        /\ g + u + c + b <= sent /\ (client # "reset" => g + u + c + b = sent)
    BY <1>1, <1>2, <2>1, Zenon DEF UploadInv
  <2> HIDE DEF c, g, u, b
  <2>3. Head(chunk) = (g + u) + 1 /\ chunk' = Run((g + u) + 1, c - 1)
    <3>1. g + u \in Nat
      BY <1>6
    <3>2. /\ Head(Run(g + u, c)) = (g + u) + 1
          /\ Tail(Run(g + u, c)) = Run((g + u) + 1, c - 1)
      BY <1>6, <3>1, RunMoves, Zenon
    <3> QED
      BY <1>1, <2>2, <3>2, Zenon
  <2>4. up' = Run(g, u + 1)
    BY <1>1, <1>6, <2>2, <2>3, RunMoves, Zenon
  <2>5. (g + u) + 1 = g + (u + 1) /\ g + (u + 1) + (c - 1) = g + u + c
    BY <1>6
  <2>6. /\ Len(got') = g /\ Len(body') = b /\ Len(up') = u + 1 /\ Len(chunk') = c - 1
        /\ body' = Run(g + (u + 1) + (c - 1), b)
        /\ chunk' = Run(g + (u + 1), c - 1)
    BY <1>1, <1>7, <2>2, <2>3, <2>5, Zenon DEF g, b
  <2>7. /\ g + (u + 1) + (c - 1) + b <= sent
        /\ client # "reset" => g + (u + 1) + (c - 1) + b = sent
    BY <2>2, <2>5, Zenon
  <2> QED
    BY <1>1, <1>2, <2>1, <2>4, <2>6, <2>7, Zenon DEF UploadInv
<1>11. DownloadInv'
  BY <1>1, <1>2, <1>4, DownloadKept, Zenon
<1> QED
  BY <1>8, <1>9, <1>10, <1>11, Zenon DEF BridgeInv

\* Nobody takes the upload any more.
LEMMA UploadFailsKeeps ==
    ASSUME BridgeInv, UploadFails
    PROVE  BridgeInv'
<1>1. /\ at = "upload" /\ tunnel = "dropped" /\ chunk' = <<>>
      /\ up_eof' = TRUE /\ down_eof' = down_eof
      /\ at' = (IF down_eof THEN "done" ELSE "pollUp")
      /\ body' = body /\ client' = client /\ sent' = sent
      /\ received' = received /\ ended' = ended /\ up' = up /\ upShut' = upShut
      /\ down' = down /\ tunnel' = tunnel /\ made' = made /\ got' = got /\ gotEof' = gotEof
  BY Zenon DEF UploadFails, Loop, clientVars, duplexVars, tunnelVars
<1>2. BridgeTypes /\ BridgeControl /\ UploadInv /\ DownloadInv
  BY Zenon DEF BridgeInv
<1>3. <<>> \in Seq(Nat)
  OBVIOUS
<1>4. BridgeTypes'
  BY <1>1, <1>2, <1>3, Zenon DEF BridgeTypes
<1>5. BridgeControl'
  BY <1>1, <1>2, Zenon DEF BridgeControl
<1>6. UploadInv'
  BY <1>1, <1>2, Zenon DEF UploadInv
<1>7. DownloadInv'
  BY <1>1, <1>2, DownloadKept, Zenon
<1> QED
  BY <1>4, <1>5, <1>6, <1>7, Zenon DEF BridgeInv

\* The bridge takes what the duplex holds.
LEMMA DownloadChunkKeeps ==
    ASSUME BridgeInv, DownloadChunk
    PROVE  BridgeInv'
<1> DEFINE d == Len(down)
           r == Len(received)
           n == IF d < BRIDGE_BUF THEN d ELSE BRIDGE_BUF
<1>1. /\ at = "pollDown" /\ ~down_eof /\ down # <<>> /\ at' = "download"
      /\ chunk' = SubSeq(down, 1, n) /\ down' = SubSeq(down, n + 1, d)
      /\ up_eof' = up_eof /\ down_eof' = down_eof
      /\ body' = body /\ client' = client /\ sent' = sent
      /\ received' = received /\ ended' = ended /\ up' = up /\ upShut' = upShut
      /\ tunnel' = tunnel /\ made' = made /\ got' = got /\ gotEof' = gotEof
  BY Zenon DEF DownloadChunk, clientVars, tunnelVars
<1>2. BridgeTypes /\ BridgeControl /\ UploadInv /\ DownloadInv
  BY Zenon DEF BridgeInv
<1>3. down \in Seq(Nat) /\ received \in Seq(Nat) /\ made \in Nat
  BY <1>2, Zenon DEF BridgeTypes
<1>4. d \in Nat /\ d # 0 /\ r \in Nat
  BY <1>1, <1>3, SMTT(20)
<1>5. n \in Nat /\ n # 0 /\ n \in 0..d
  BY <1>4, BridgeAssumption
<1> HIDE DEF n
<1>6. chunk' \in Seq(Nat) /\ Len(chunk') = n /\ down' \in Seq(Nat) /\ Len(down') = d - n
  BY <1>1, <1>3, <1>5, SeqParts, Zenon
<1>7. chunk' # <<>>
  <2>1. Len(<<>>) = 0
    BY Zenon
  <2> QED
    BY <1>5, <1>6, <2>1, Zenon
<1>8. BridgeTypes'
  BY <1>1, <1>2, <1>6, Zenon DEF BridgeTypes
<1>9. BridgeControl'
  BY <1>1, <1>2, <1>7, Zenon DEF BridgeControl
<1>10. UploadInv'
  BY <1>1, <1>2, UploadKept, Zenon
<1>11. DownloadInv'
  <2>1. Downloading = 0 /\ Downloading' = n
    BY <1>1, <1>6, Zenon DEF Downloading
  <2>2. down = Run(r + 0, d) /\ r + 0 + d = made
    BY <1>1, <1>2, <2>1, Zenon DEF DownloadInv
  <2> HIDE DEF d, r
  <2>3. r + 0 = r
    BY <1>4
  <2>4. chunk' = Run(r, n) /\ down' = Run(r + n, d - n)
    <3>1. SubSeq(Run(r, d), 1, n) = Run(r, n) /\ SubSeq(Run(r, d), n + 1, d) = Run(r + n, d - n)
      BY <1>4, <1>5, RunSplits, Zenon
    <3> QED
      BY <1>1, <2>2, <2>3, <3>1, Zenon
  <2>5. (r + n) + (d - n) = made
    BY <1>4, <1>5, <2>2, <2>3, SMTT(20)
  <2> QED
    BY <1>1, <1>2, <1>6, <2>1, <2>4, <2>5, Zenon DEF DownloadInv, r
<1> QED
  BY <1>8, <1>9, <1>10, <1>11, Zenon DEF BridgeInv

\* The client takes a byte of the chunk.
LEMMA ClientTakesKeeps ==
    ASSUME BridgeInv, ClientTakes
    PROVE  BridgeInv'
<1> DEFINE c == Len(chunk)
           r == Len(received)
           d == Len(down)
<1>1. /\ at = "download"
      /\ received' = Append(received, Head(chunk)) /\ chunk' = Tail(chunk)
      /\ up_eof' = up_eof /\ down_eof' = down_eof
      /\ body' = body /\ client' = client /\ sent' = sent
      /\ ended' = ended /\ up' = up /\ upShut' = upShut
      /\ down' = down /\ tunnel' = tunnel /\ made' = made /\ got' = got /\ gotEof' = gotEof
  BY Zenon DEF ClientTakes, Loop, duplexVars, tunnelVars
<1>2. BridgeTypes /\ BridgeControl /\ UploadInv /\ DownloadInv
  BY Zenon DEF BridgeInv
<1>3. ~down_eof /\ chunk # <<>> /\ ~ended
  BY <1>1, <1>2, Zenon DEF BridgeControl
<1>4. at' = (IF c = 1 THEN "pollUp" ELSE "download")
  BY <1>1, <1>3, Zenon DEF ClientTakes, Loop
<1>5. chunk \in Seq(Nat) /\ received \in Seq(Nat) /\ down \in Seq(Nat) /\ made \in Nat
  BY <1>2, Zenon DEF BridgeTypes
<1>6. c \in Nat /\ c # 0 /\ r \in Nat /\ d \in Nat
  BY <1>3, <1>5
<1>7. /\ chunk' \in Seq(Nat) /\ Len(chunk') = c - 1 /\ (c # 1 => chunk' # <<>>)
      /\ received' \in Seq(Nat) /\ Len(received') = r + 1
  <2>1. Head(chunk) \in Nat /\ chunk' \in Seq(Nat) /\ Len(chunk') = c - 1
    BY <1>1, <1>3, <1>5, SeqParts, Zenon
  <2>2. \A x \in Nat : Append(received, x) \in Seq(Nat) /\ Len(Append(received, x)) = r + 1
    BY <1>5
  <2>3. Len(<<>>) = 0
    BY Zenon
  <2> HIDE DEF c, r
  <2>4. received' \in Seq(Nat) /\ Len(received') = r + 1
    BY <1>1, <2>1, <2>2, Zenon
  <2>5. c # 1 => chunk' # <<>>
    BY <1>6, <2>1, <2>3
  <2> QED
    BY <2>1, <2>4, <2>5, Zenon
<1>8. BridgeTypes'
  BY <1>1, <1>2, <1>4, <1>7, Zenon DEF BridgeTypes
<1>9. BridgeControl'
  BY <1>1, <1>2, <1>3, <1>4, <1>7, Zenon DEF BridgeControl
<1>10. UploadInv'
  BY <1>1, <1>2, <1>4, UploadKept, Zenon
<1>11. DownloadInv'
  <2>1. Downloading = c /\ Downloading' = c - 1
    BY <1>1, <1>4, <1>7 DEF Downloading
  <2>2. /\ chunk = Run(r, c) /\ down = Run(r + c, d) /\ r + c + d = made
        /\ received = Run(0, r)
    BY <1>1, <1>2, <1>3, <2>1, Zenon DEF DownloadInv
  <2> HIDE DEF c, r, d
  <2>3. Head(chunk) = r + 1 /\ chunk' = Run(r + 1, c - 1)
    <3>1. Head(Run(r, c)) = r + 1 /\ Tail(Run(r, c)) = Run(r + 1, c - 1)
      BY <1>6, RunMoves, Zenon
    <3> QED
      BY <1>1, <2>2, <3>1, Zenon
  <2>4. received' = Run(0, r + 1)
    <3>1. 0 \in Nat /\ 0 + r = r
      BY <1>6
    <3>2. Append(Run(0, r), (0 + r) + 1) = Run(0, r + 1)
      BY <1>6, <3>1, RunMoves, Zenon
    <3> QED
      BY <1>1, <2>2, <2>3, <3>1, <3>2, Zenon
  <2>5. (r + 1) + (c - 1) = r + c /\ r + 1 <= made
    BY <1>6, <2>2
  <2>6. /\ Len(received') = r + 1 /\ Len(down') = d /\ Len(chunk') = c - 1
        /\ down' = Run((r + 1) + (c - 1), d) /\ (r + 1) + (c - 1) + d = made
    BY <1>1, <1>7, <2>2, <2>5, Zenon DEF d
  <2> QED
    BY <1>1, <1>3, <2>1, <2>3, <2>4, <2>5, <2>6, Zenon DEF DownloadInv
<1> QED
  BY <1>8, <1>9, <1>10, <1>11, Zenon DEF BridgeInv

\* The client has reset the stream: what is left of the download is not delivered.
LEMMA DownloadFailsKeeps ==
    ASSUME BridgeInv, DownloadFails
    PROVE  BridgeInv'
<1>1. /\ at = "download" /\ chunk' = <<>> /\ up_eof' = up_eof /\ down_eof' = TRUE
      /\ at' = (IF up_eof THEN "done" ELSE "pollUp")
      /\ body' = body /\ client' = client /\ sent' = sent
      /\ received' = received /\ ended' = ended /\ up' = up /\ upShut' = upShut
      /\ down' = down /\ tunnel' = tunnel /\ made' = made /\ got' = got /\ gotEof' = gotEof
  BY Zenon DEF DownloadFails, Loop, clientVars, duplexVars, tunnelVars
<1>2. BridgeTypes /\ BridgeControl /\ UploadInv /\ DownloadInv
  BY Zenon DEF BridgeInv
<1>3. <<>> \in Seq(Nat)
  OBVIOUS
<1>4. BridgeTypes'
  BY <1>1, <1>2, <1>3, Zenon DEF BridgeTypes
<1>5. BridgeControl'
  BY <1>1, <1>2, Zenon DEF BridgeControl
<1>6. UploadInv'
  BY <1>1, <1>2, UploadKept, Zenon
<1>7. DownloadInv'
  BY <1>1, <1>2, Zenon DEF DownloadInv
<1> QED
  BY <1>4, <1>5, <1>6, <1>7, Zenon DEF BridgeInv

\* The response ends behind the last byte.
LEMMA ResponseEndsKeeps ==
    ASSUME BridgeInv, ResponseEnds
    PROVE  BridgeInv'
<1>1. /\ at = "end" /\ ended' = (client # "reset") /\ up_eof' = up_eof /\ down_eof' = TRUE
      /\ at' = (IF up_eof THEN "done" ELSE "pollUp")
      /\ chunk' = chunk /\ body' = body /\ client' = client /\ sent' = sent
      /\ received' = received /\ up' = up /\ upShut' = upShut
      /\ down' = down /\ tunnel' = tunnel /\ made' = made /\ got' = got /\ gotEof' = gotEof
  BY Zenon DEF ResponseEnds, Loop, duplexVars, tunnelVars
<1>2. BridgeTypes /\ BridgeControl /\ UploadInv /\ DownloadInv
  BY Zenon DEF BridgeInv
<1>3. BridgeTypes'
  BY <1>1, <1>2, Zenon DEF BridgeTypes
<1>4. BridgeControl'
  BY <1>1, <1>2, Zenon DEF BridgeControl
<1>5. UploadInv'
  BY <1>1, <1>2, UploadKept, Zenon
<1>6. Len(received) = made
  <2>1. ~down_eof /\ down = <<>> /\ Downloading = 0
    BY <1>1, <1>2, Zenon DEF BridgeControl, Downloading
  <2>2. Len(received) \in Nat /\ Len(<<>>) = 0
    BY <1>2 DEF BridgeTypes
  <2>3. Len(received) + 0 + Len(<<>>) = made
    BY <1>2, <2>1, Zenon DEF DownloadInv
  <2> QED
    BY <2>2, <2>3
<1>7. DownloadInv'
  BY <1>1, <1>2, <1>6, Zenon DEF DownloadInv
<1> QED
  BY <1>3, <1>4, <1>5, <1>7, Zenon DEF BridgeInv

\* Looking at a branch that is not ready, or at the end of the duplex, moves nothing.
LEMMA PollsKeep ==
    ASSUME BridgeInv, UploadPending \/ DownloadPending \/ DownloadEof
    PROVE  BridgeInv'
<1>1. /\ at \in {"pollUp", "pollDown"} /\ at' \in {"pollUp", "pollDown", "end"}
      /\ at' = "end" => ~down_eof /\ down = <<>> /\ tunnel # "open"
      /\ chunk' = chunk /\ up_eof' = up_eof /\ down_eof' = down_eof
      /\ body' = body /\ client' = client /\ sent' = sent
      /\ received' = received /\ ended' = ended /\ up' = up /\ upShut' = upShut
      /\ down' = down /\ tunnel' = tunnel /\ made' = made /\ got' = got /\ gotEof' = gotEof
  BY Zenon DEF UploadPending, DownloadPending, DownloadEof, clientVars, duplexVars, tunnelVars
<1>2. BridgeTypes /\ BridgeControl /\ UploadInv /\ DownloadInv
  BY Zenon DEF BridgeInv
<1>3. BridgeTypes'
  BY <1>1, <1>2, Zenon DEF BridgeTypes
<1>4. BridgeControl'
  BY <1>1, <1>2, Zenon DEF BridgeControl
<1>5. UploadInv'
  BY <1>1, <1>2, UploadKept, Zenon
<1>6. DownloadInv'
  BY <1>1, <1>2, DownloadKept, Zenon
<1> QED
  BY <1>3, <1>4, <1>5, <1>6, Zenon DEF BridgeInv

\* The client sends a byte.
LEMMA ClientSendsKeeps ==
    ASSUME BridgeInv, ClientSends
    PROVE  BridgeInv'
<1> DEFINE k == Len(got) + Len(up) + Uploading
           b == Len(body)
<1>1. /\ client = "open" /\ sent' = sent + 1 /\ body' = Append(body, sent + 1)
      /\ at' = at /\ chunk' = chunk /\ up_eof' = up_eof /\ down_eof' = down_eof
      /\ client' = client
      /\ received' = received /\ ended' = ended /\ up' = up /\ upShut' = upShut
      /\ down' = down /\ tunnel' = tunnel /\ made' = made /\ got' = got /\ gotEof' = gotEof
  BY Zenon DEF ClientSends, bridgeVars, duplexVars, tunnelVars
<1>2. BridgeTypes /\ BridgeControl /\ UploadInv /\ DownloadInv
  BY Zenon DEF BridgeInv
<1>3. /\ body \in Seq(Nat) /\ got \in Seq(Nat) /\ up \in Seq(Nat) /\ chunk \in Seq(Nat)
      /\ sent \in Nat /\ sent + 1 \in Nat
  BY <1>2 DEF BridgeTypes
<1>4. body' \in Seq(Nat) /\ Len(body') = b + 1 /\ b \in Nat
  BY <1>1, <1>3
<1>5. k \in Nat /\ Uploading' = Uploading
  <2>1. Uploading \in Nat /\ Uploading' = Uploading
    BY <1>1, <1>3 DEF Uploading
  <2>2. Len(got) \in Nat /\ Len(up) \in Nat
    BY <1>3
  <2> QED
    BY <2>1, <2>2
<1>6. BridgeTypes'
  BY <1>1, <1>2, <1>3, <1>4, Zenon DEF BridgeTypes
<1>7. BridgeControl'
  BY <1>1, <1>2, Zenon DEF BridgeControl
<1>8. UploadInv'
  <2>1. ~upShut /\ ~gotEof /\ Len(got) <= sent + 1
    BY <1>1, <1>2, <1>3 DEF BridgeControl, UploadInv
  <2>2. CASE tunnel = "dropped"
    BY <1>1, <1>2, <2>1, <2>2, Zenon DEF UploadInv
  <2>3. CASE tunnel # "dropped"
    <3>1. body = Run(k, b) /\ k + b = sent
      BY <1>1, <1>2, <2>3, Zenon DEF UploadInv
    <3> HIDE DEF k, b
    <3>2. Append(Run(k, b), (k + b) + 1) = Run(k, b + 1)
      BY <1>4, <1>5, RunMoves, Zenon
    <3>3. body' = Run(k, b + 1) /\ k + (b + 1) = sent + 1
      BY <1>1, <1>4, <1>5, <3>1, <3>2
    <3>4. k + (b + 1) <= sent + 1
      BY <1>3, <3>3
    <3> QED
      BY <1>1, <1>2, <1>4, <1>5, <2>1, <3>3, <3>4, Zenon DEF UploadInv, k
  <2> QED
    BY <2>2, <2>3, Zenon
<1>9. DownloadInv'
  BY <1>1, <1>2, DownloadKept, Zenon
<1> QED
  BY <1>6, <1>7, <1>8, <1>9, Zenon DEF BridgeInv

\* The client ends its side or resets the stream.
LEMMA ClientStopsKeeps ==
    ASSUME BridgeInv, ClientEnds \/ ClientResets
    PROVE  BridgeInv'
<1>1. /\ (client = "open" /\ client' = "eof") \/ client' = "reset"
      /\ at' = at /\ chunk' = chunk /\ up_eof' = up_eof /\ down_eof' = down_eof
      /\ body' = body /\ sent' = sent
      /\ received' = received /\ ended' = ended /\ up' = up /\ upShut' = upShut
      /\ down' = down /\ tunnel' = tunnel /\ made' = made /\ got' = got /\ gotEof' = gotEof
  BY Zenon DEF ClientEnds, ClientResets, bridgeVars, duplexVars, tunnelVars
<1>2. BridgeTypes /\ BridgeControl /\ UploadInv /\ DownloadInv
  BY Zenon DEF BridgeInv
<1>3. BridgeTypes'
  BY <1>1, <1>2 DEF BridgeTypes
<1>4. BridgeControl'
  BY <1>1, <1>2, Zenon DEF BridgeControl
<1>5. UploadInv'
  BY <1>1, <1>2, Zenon DEF UploadInv, Uploading
<1>6. DownloadInv'
  BY <1>1, <1>2, DownloadKept, Zenon
<1> QED
  BY <1>3, <1>4, <1>5, <1>6, Zenon DEF BridgeInv

\* The tunnel reads a byte.
LEMMA TunnelReadsKeeps ==
    ASSUME BridgeInv, TunnelReads
    PROVE  BridgeInv'
<1> DEFINE g == Len(got)
           u == Len(up)
           w == Uploading
           b == Len(body)
<1>1. /\ tunnel # "dropped" /\ up # <<>> /\ got' = Append(got, Head(up)) /\ up' = Tail(up)
      /\ at' = at /\ chunk' = chunk /\ up_eof' = up_eof /\ down_eof' = down_eof
      /\ body' = body /\ client' = client /\ sent' = sent
      /\ received' = received /\ ended' = ended /\ upShut' = upShut
      /\ down' = down /\ tunnel' = tunnel /\ made' = made /\ gotEof' = gotEof
  BY Zenon DEF TunnelReads, bridgeVars, clientVars
<1>2. BridgeTypes /\ BridgeControl /\ UploadInv /\ DownloadInv
  BY Zenon DEF BridgeInv
<1>3. /\ body \in Seq(Nat) /\ got \in Seq(Nat) /\ up \in Seq(Nat) /\ chunk \in Seq(Nat)
      /\ sent \in Nat
  BY <1>2, Zenon DEF BridgeTypes
<1>4. g \in Nat /\ u \in Nat /\ u # 0 /\ b \in Nat
  BY <1>1, <1>3
<1>5. w \in Nat /\ Uploading' = w
  BY <1>1, <1>3 DEF Uploading
<1>6. Head(up) \in Nat /\ up' \in Seq(Nat) /\ Len(up') = u - 1
  BY <1>1, <1>3, SeqParts, Zenon
<1>7. got' \in Seq(Nat) /\ Len(got') = g + 1
  <2>1. \A x \in Nat : Append(got, x) \in Seq(Nat) /\ Len(Append(got, x)) = g + 1
    BY <1>3
  <2> QED
    BY <1>1, <1>6, <2>1, Zenon
<1>8. BridgeTypes'
  BY <1>1, <1>2, <1>6, <1>7 DEF BridgeTypes
<1>9. BridgeControl'
  BY <1>1, <1>2, Zenon DEF BridgeControl
<1>10. UploadInv'
  <2>1. /\ up = Run(g, u) /\ got = Run(0, g) /\ body = Run(g + u + w, b)
        /\ at = "upload" => chunk = Run(g + u, Len(chunk))
        /\ g + u + w + b <= sent /\ (client # "reset" => g + u + w + b = sent)
        /\ upShut => body = <<>>
        /\ gotEof /\ client # "reset" => g = sent
    BY <1>1, <1>2, Zenon DEF UploadInv
  <2> HIDE DEF g, u, w, b
  <2>2. Head(up) = g + 1 /\ up' = Run(g + 1, u - 1)
    <3>1. Head(Run(g, u)) = g + 1 /\ Tail(Run(g, u)) = Run(g + 1, u - 1)
      BY <1>4, RunMoves, Zenon
    <3> QED
      BY <1>1, <2>1, <3>1, Zenon
  <2>3. got' = Run(0, g + 1)
    <3>1. 0 \in Nat /\ 0 + g = g
      BY <1>4
    <3>2. Append(Run(0, g), (0 + g) + 1) = Run(0, g + 1)
      BY <1>4, <3>1, RunMoves, Zenon
    <3> QED
      BY <1>1, <2>1, <2>2, <3>1, <3>2, Zenon
  <2>4. g + 1 <= sent /\ ~(gotEof /\ client # "reset")
    BY <1>3, <1>4, <1>5, <2>1
  <2>5. (g + 1) + (u - 1) = g + u
    BY <1>4
  <2>6. /\ Len(got') = g + 1 /\ Len(up') = u - 1 /\ Len(body') = b /\ Len(chunk') = Len(chunk)
        /\ body' = Run((g + 1) + (u - 1) + w, b)
        /\ at' = "upload" => chunk' = Run((g + 1) + (u - 1), Len(chunk))
        /\ (g + 1) + (u - 1) + w + b <= sent
        /\ client # "reset" => (g + 1) + (u - 1) + w + b = sent
    BY <1>1, <1>6, <1>7, <2>1, <2>5, Zenon DEF b
  <2> QED
    BY <1>1, <1>5, <2>1, <2>2, <2>3, <2>4, <2>6, Zenon DEF UploadInv
<1>11. DownloadInv'
  BY <1>1, <1>2, DownloadKept, Zenon
<1> QED
  BY <1>8, <1>9, <1>10, <1>11, Zenon DEF BridgeInv

\* The tunnel reads the end of file: all of the upload has been read by then.
LEMMA TunnelReadsEofKeeps ==
    ASSUME BridgeInv, TunnelReadsEof
    PROVE  BridgeInv'
<1>1. /\ tunnel # "dropped" /\ up = <<>> /\ (upShut \/ at = "done") /\ gotEof' = TRUE
      /\ at' = at /\ chunk' = chunk /\ up_eof' = up_eof /\ down_eof' = down_eof
      /\ body' = body /\ client' = client /\ sent' = sent
      /\ received' = received /\ ended' = ended /\ up' = up /\ upShut' = upShut
      /\ down' = down /\ tunnel' = tunnel /\ made' = made /\ got' = got
  BY Zenon DEF TunnelReadsEof, bridgeVars, clientVars, duplexVars
<1>2. BridgeTypes /\ BridgeControl /\ UploadInv /\ DownloadInv
  BY Zenon DEF BridgeInv
<1>3. BridgeTypes'
  BY <1>1, <1>2, Zenon DEF BridgeTypes
<1>4. BridgeControl'
  BY <1>1, <1>2, Zenon DEF BridgeControl
<1>5. upShut /\ at # "upload" /\ client # "open" /\ client \in {"open", "eof", "reset"}
  BY <1>1, <1>2, Zenon DEF BridgeControl, BridgeTypes
<1>6. body = <<>> /\ Uploading = 0
  BY <1>1, <1>2, <1>5, Zenon DEF UploadInv, Uploading
<1>7. Len(got) \in Nat /\ Len(<<>>) = 0
  BY <1>2 DEF BridgeTypes
<1>8. client # "reset" => Len(got) + Len(<<>>) + 0 + Len(<<>>) = sent
  BY <1>1, <1>2, <1>6, Zenon DEF UploadInv
<1>9. client # "reset" => client = "eof" /\ Len(got) = sent
  BY <1>5, <1>7, <1>8
<1>10. UploadInv'
  BY <1>1, <1>2, <1>9, Zenon DEF UploadInv, Uploading
<1>11. DownloadInv'
  BY <1>1, <1>2, DownloadKept, Zenon
<1> QED
  BY <1>3, <1>4, <1>10, <1>11, Zenon DEF BridgeInv

\* The tunnel writes a byte.
LEMMA TunnelWritesKeeps ==
    ASSUME BridgeInv, TunnelWrites
    PROVE  BridgeInv'
<1> DEFINE k == Len(received) + Downloading
           d == Len(down)
<1>1. /\ tunnel = "open" /\ made' = made + 1 /\ down' = Append(down, made + 1)
      /\ at' = at /\ chunk' = chunk /\ up_eof' = up_eof /\ down_eof' = down_eof
      /\ body' = body /\ client' = client /\ sent' = sent
      /\ received' = received /\ ended' = ended /\ up' = up /\ upShut' = upShut
      /\ tunnel' = tunnel /\ got' = got /\ gotEof' = gotEof
  BY Zenon DEF TunnelWrites, bridgeVars, clientVars
<1>2. BridgeTypes /\ BridgeControl /\ UploadInv /\ DownloadInv
  BY Zenon DEF BridgeInv
<1>3. /\ down \in Seq(Nat) /\ received \in Seq(Nat) /\ chunk \in Seq(Nat)
      /\ made \in Nat /\ made + 1 \in Nat
  BY <1>2 DEF BridgeTypes
<1>4. down' \in Seq(Nat) /\ Len(down') = d + 1 /\ d \in Nat
  BY <1>1, <1>3
<1>5. k \in Nat /\ Downloading' = Downloading
  <2>1. Downloading \in Nat /\ Downloading' = Downloading
    BY <1>1, <1>3 DEF Downloading
  <2>2. Len(received) \in Nat
    BY <1>3
  <2> QED
    BY <2>1, <2>2
<1>6. BridgeTypes'
  BY <1>1, <1>2, <1>3, <1>4, Zenon DEF BridgeTypes
<1>7. BridgeControl'
  BY <1>1, <1>2, Zenon DEF BridgeControl
<1>8. UploadInv'
  BY <1>1, <1>2, UploadKept, Zenon
<1>9. DownloadInv'
  <2>1. ~ended /\ Len(received) <= made + 1
    BY <1>1, <1>2, <1>3 DEF BridgeControl, DownloadInv
  <2>2. CASE down_eof
    BY <1>1, <1>2, <2>1, <2>2, Zenon DEF DownloadInv
  <2>3. CASE ~down_eof
    <3>1. down = Run(k, d) /\ k + d = made
      BY <1>2, <2>3, Zenon DEF DownloadInv
    <3> HIDE DEF k, d
    <3>2. Append(Run(k, d), (k + d) + 1) = Run(k, d + 1)
      BY <1>4, <1>5, RunMoves, Zenon
    <3>3. down' = Run(k, d + 1) /\ k + (d + 1) = made + 1
      BY <1>1, <1>4, <1>5, <3>1, <3>2
    <3> QED
      BY <1>1, <1>2, <1>4, <1>5, <2>1, <3>3, Zenon DEF DownloadInv, k
  <2> QED
    BY <2>2, <2>3, Zenon
<1> QED
  BY <1>6, <1>7, <1>8, <1>9, Zenon DEF BridgeInv

\* The tunnel shuts its half down or drops it.
LEMMA TunnelStopsKeeps ==
    ASSUME BridgeInv, TunnelShutsDown \/ TunnelDrops
    PROVE  BridgeInv'
<1>1. /\ \/ tunnel = "open" /\ tunnel' = "shut" /\ up' = up
         \/ tunnel' = "dropped" /\ up' = <<>>
      /\ at' = at /\ chunk' = chunk /\ up_eof' = up_eof /\ down_eof' = down_eof
      /\ body' = body /\ client' = client /\ sent' = sent
      /\ received' = received /\ ended' = ended /\ upShut' = upShut
      /\ down' = down /\ made' = made /\ got' = got /\ gotEof' = gotEof
  BY Zenon DEF TunnelShutsDown, TunnelDrops, bridgeVars, clientVars, duplexVars
<1>2. BridgeTypes /\ BridgeControl /\ UploadInv /\ DownloadInv
  BY Zenon DEF BridgeInv
<1>3. <<>> \in Seq(Nat)
  OBVIOUS
<1>4. BridgeTypes'
  BY <1>1, <1>2, <1>3, Zenon DEF BridgeTypes
<1>5. BridgeControl'
  BY <1>1, <1>2, Zenon DEF BridgeControl
<1>6. UploadInv'
  <2>1. CASE tunnel' = "dropped"
    BY <1>1, <1>2, <2>1, Zenon DEF UploadInv
  <2>2. CASE tunnel = "open" /\ tunnel' = "shut" /\ up' = up
    BY <1>1, <1>2, <2>2, Zenon DEF UploadInv, Uploading
  <2> QED
    BY <1>1, <2>1, <2>2, Zenon
<1>7. DownloadInv'
  BY <1>1, <1>2, DownloadKept, Zenon
<1> QED
  BY <1>4, <1>5, <1>6, <1>7, Zenon DEF BridgeInv

\* Every step keeps the bridge's invariant.
LEMMA BridgeStep == BridgeInv /\ [Next]_vars => BridgeInv'
<1> SUFFICES ASSUME BridgeInv, [Next]_vars PROVE BridgeInv'
  BY Zenon
<1>1. CASE Upload
  BY <1>1, UploadChunkKeeps, UploadEndsKeeps, PollsKeep, UploadWritesKeeps, UploadFailsKeeps, Zenon
     DEF Upload
<1>2. CASE Download
  BY <1>2, DownloadChunkKeeps, PollsKeep, DownloadFailsKeeps, ResponseEndsKeeps, Zenon DEF Download
<1>3. CASE ClientTakes
  BY <1>3, ClientTakesKeeps, Zenon
<1>4. CASE Client
  BY <1>4, ClientSendsKeeps, ClientStopsKeeps, Zenon DEF Client
<1>5. CASE Tunnel
  BY <1>5, TunnelReadsKeeps, TunnelReadsEofKeeps, TunnelWritesKeeps, TunnelStopsKeeps, Zenon
     DEF Tunnel
<1>6. CASE UNCHANGED vars
  <2>1. /\ at' = at /\ chunk' = chunk /\ up_eof' = up_eof /\ down_eof' = down_eof
        /\ body' = body /\ client' = client /\ sent' = sent
        /\ received' = received /\ ended' = ended /\ up' = up /\ upShut' = upShut
        /\ down' = down /\ tunnel' = tunnel /\ made' = made /\ got' = got /\ gotEof' = gotEof
    BY <1>6, Zenon DEF vars, bridgeVars, clientVars, duplexVars, tunnelVars
  <2>2. BridgeTypes /\ BridgeControl /\ UploadInv /\ DownloadInv
    BY Zenon DEF BridgeInv
  <2>3. BridgeTypes' /\ BridgeControl'
    BY <2>1, <2>2 DEF BridgeTypes, BridgeControl
  <2>4. UploadInv' /\ DownloadInv'
    BY <2>1, <2>2, UploadKept, DownloadKept, Zenon
  <2> QED
    BY <2>3, <2>4, Zenon DEF BridgeInv
<1> QED
  BY <1>1, <1>2, <1>3, <1>4, <1>5, <1>6, Zenon DEF Next

\* What is in place makes what the two ends see a prefix of what was sent.
LEMMA BridgeDelivers == BridgeInv => BridgeFaithful
<1> SUFFICES ASSUME BridgeInv PROVE BridgeFaithful
  BY Zenon
<1> DEFINE g == Len(got)
           u == Len(up)
           r == Len(received)
<1>1. /\ got \in Seq(Nat) /\ up \in Seq(Nat) /\ received \in Seq(Nat)
      /\ sent \in Nat /\ made \in Nat
  BY Zenon DEF BridgeInv, BridgeTypes
<1>2. g \in Nat /\ u \in Nat /\ r \in Nat
  BY <1>1
<1>3. /\ got = Run(0, g) /\ g <= sent /\ received = Run(0, r) /\ r <= made
      /\ gotEof /\ client # "reset" => g = sent
      /\ ended => r = made
  BY Zenon DEF BridgeInv, UploadInv, DownloadInv
<1>4. \E n \in 0..sent : got \o up = Bytes(n)
  <2>1. CASE tunnel = "dropped"
    <3>1. up = <<>>
      BY <2>1, Zenon DEF BridgeInv, BridgeControl
    <3>2. got \o up = got
      BY <1>1, <3>1
    <3> HIDE DEF g
    <3>3. got \o up = Bytes(g) /\ g \in 0..sent
      BY <1>1, <1>2, <1>3, <3>2, RunOfStart, SMTT(20)
    <3> QED
      BY <3>3, Zenon
  <2>2. CASE tunnel # "dropped"
    <3>1. up = Run(g, u) /\ g + u + Uploading + Len(body) <= sent
      BY <2>2, Zenon DEF BridgeInv, UploadInv
    <3>2. Uploading \in Nat /\ Len(body) \in Nat
      BY DEF BridgeInv, BridgeTypes, Uploading
    <3> HIDE DEF g, u
    <3>3. g + u \in 0..sent /\ g + u \in Nat /\ 0 + g = g
      BY <1>1, <1>2, <3>1, <3>2
    <3>4. Run(0, g) \o Run(0 + g, u) = Run(0, g + u)
      <4>1. 0 \in Nat
        BY Zenon
      <4> QED
        BY <1>2, <4>1, RunsJoin, Zenon
    <3>5. got \o up = Bytes(g + u)
      BY <1>3, <3>1, <3>3, <3>4, RunOfStart, Zenon
    <3> QED
      BY <3>3, <3>5, Zenon
  <2> QED
    BY <2>1, <2>2, Zenon
<1> HIDE DEF g, u, r
<1>5. gotEof /\ client # "reset" => got = Bytes(sent)
  BY <1>1, <1>2, <1>3, RunOfStart, Zenon
<1>6. (\E n \in 0..made : received = Bytes(n)) /\ (ended => received = Bytes(made))
  <2>1. received = Bytes(r) /\ r \in 0..made
    BY <1>1, <1>2, <1>3, RunOfStart
  <2> QED
    BY <1>3, <2>1, Zenon
<1> QED
  BY <1>4, <1>5, <1>6, Zenon DEF BridgeFaithful

\* The bridge is faithful in both directions, for every buffer size and capacity of
\* the duplex and however its ends interleave, half-close, reset or go away
\* (pingora_session.rs:43-81).
THEOREM BridgeIsFaithful == Spec => []BridgeFaithful
<1>1. Init => BridgeInv
  BY BridgeStart, Zenon
<1>2. BridgeInv /\ [Next]_vars => BridgeInv'
  BY BridgeStep, Zenon
<1>3. BridgeInv => BridgeFaithful
  BY BridgeDelivers, Zenon
<1> QED
  BY <1>1, <1>2, <1>3, PTL DEF Spec

-----------------------------------------------------------------------------
(* Batched socket calls                                                     *)

\* What every step of a call keeps: the chunk starts where the moved datagrams
\* end, so the buffers used are the first moved of the batch.
CallInv ==
    /\ moved \in Nat /\ off \in Nat /\ want \in Nat /\ kern \in Nat
    /\ pc # "idle" => off = moved /\ used = 1..moved

DatagramInv == CallInv /\ ResultExact

\* Two adjacent intervals make one.
LEMMA Adjacent ==
    ASSUME NEW g \in Nat, NEW n \in Nat
    PROVE  (1..g) \cup ((g + 1)..(g + n)) = 1..(g + n)
  OBVIOUS

\* A system call has room for some datagrams.
LEMMA ChunkNat == Chunk \in Nat
  BY DatagramAssumption, Zenon DEF Chunk

\* A system call that moves n datagrams of the current chunk keeps the invariant:
\* only a full chunk is followed by another.
LEMMA MovesKeeps ==
    ASSUME DatagramInv, NEW n \in 1..MAX_MMSG, IoMoves(n)
    PROVE  DatagramInv'
<1> USE DEF DatagramInv, CallInv
<1>1. n \in Nat /\ n > 0 /\ MAX_MMSG \in Nat
  BY DatagramAssumption
<1>2. Chunk \in Nat /\ n <= Chunk
  BY ChunkNat, Zenon DEF IoMoves
<1>3. off = moved /\ used = 1..moved
  BY Zenon DEF IoMoves
<1>4. used' = 1..moved' /\ moved' = moved + n /\ moved' \in Nat
  BY <1>1, <1>3, Adjacent DEF IoMoves
<1>5. off' = off + Chunk /\ off' \in Nat
  BY <1>2 DEF IoMoves
<1>6. want' \in Nat /\ kern' \in Nat
  BY <1>1 DEF IoMoves
<1>7. CASE n < Chunk \/ off' >= want
  <2>1. pc' = "idle" /\ res' = [kind |-> "ok", n |-> moved']
    BY <1>7, Zenon DEF IoMoves, Idle
  <2>2. ResultExact'
    BY <2>1, <1>1, <1>4 DEF ResultExact
  <2> QED
    BY <2>1, <2>2, <1>4, <1>5, <1>6, Zenon
<1>8. CASE ~(n < Chunk \/ off' >= want)
  <2>1. pc' # "idle"
    BY <1>8, Zenon DEF IoMoves
  <2>2. n = Chunk
    BY <1>1, <1>2, <1>8
  <2>3. off' = moved'
    BY <2>2, <1>3, <1>4, <1>5, Zenon
  <2> QED
    BY <2>1, <2>3, <1>4, <1>5, <1>6, Zenon DEF ResultExact
<1> QED
  BY <1>7, <1>8, Zenon

\* A batched call returns exactly the number of leading buffers it moved, for
\* any MAX_MMSG, batch length and pattern of short counts and errors.
THEOREM CountsAreExact == SockSpec => []ResultExact
<1>1. SockInit => DatagramInv
  <2> SUFFICES ASSUME SockInit PROVE DatagramInv
    BY Zenon
  <2>1. kern \in Nat
    BY DatagramAssumption, Zenon DEF SockInit
  <2> QED
    BY <2>1, Zenon DEF SockInit, DatagramInv, CallInv, ResultExact
<1>2. DatagramInv /\ [SockNext]_sockVars => DatagramInv'
  <2> SUFFICES ASSUME DatagramInv, [SockNext]_sockVars PROVE DatagramInv'
    BY Zenon
  <2> USE DEF DatagramInv, CallInv, ResultExact
  <2>1. CASE KernelMoves
    BY <2>1 DEF KernelMoves, world, call, flags
  <2>2. CASE KernelFails
    BY <2>2, Zenon DEF KernelFails, world, call, flags
  <2>3. CASE Driver
    BY <2>3, Zenon DEF Driver, world, call
  <2>4. ASSUME NEW n \in 1..MaxBatch, Begin(n) PROVE DatagramInv'
    <3>1. n \in Nat
      BY DatagramAssumption
    <3> QED
      BY <2>4, <3>1 DEF Begin, world, flags
  <2>5. CASE PollReady
    BY <2>5, Zenon DEF PollReady, world, call
  <2>6. CASE PollPending
    BY <2>6 DEF PollPending, Idle, world, call
  <2>7. ASSUME NEW n \in 1..MAX_MMSG, IoMoves(n) PROVE DatagramInv'
    BY <2>7, MovesKeeps, Zenon
  <2>8. CASE IoFails
    BY <2>8 DEF IoFails, Idle, world, call
  <2>9. CASE IoEmpty
    BY <2>9 DEF IoEmpty, Idle, world, call
  <2>10. CASE Blocked
    BY <2>10, Zenon DEF Blocked, world, call
  <2>11. CASE UNCHANGED sockVars
    BY <2>11, Zenon DEF sockVars, world, call
  <2> QED
    BY <2>1, <2>2, <2>3, <2>4, <2>5, <2>6, <2>7, <2>8, <2>9, <2>10, <2>11, Zenon
       DEF SockNext, CallStep
<1>3. DatagramInv => ResultExact
  BY Zenon DEF DatagramInv
<1> QED
  BY <1>1, <1>2, <1>3, PTL DEF SockSpec

-----------------------------------------------------------------------------
(* The datagram buffer                                                      *)

\* The vector and its cursor.
Buffers == {b \in [data : Seq(Nat), start : Nat] : b.start <= Len(b.data) /\ Len(b.data) <= MaxLen}

\* The cursor stays within the vector.
BufInv == buf \in Buffers

\* What a caller writes is a short sequence of bytes.
LEMMA PayloadType ==
    ASSUME NEW p \in Payloads
    PROVE  p \in Seq(Nat) /\ Len(p) \in Nat /\ Len(p) <= MaxWrite
<1>1. PICK n \in 0..MaxWrite : p \in [1..n -> ByteVals]
  BY Zenon DEF Payloads
<1>2. n \in Nat /\ n <= MaxWrite
  BY BufferAssumption
<1>3. p \in [1..n -> Nat]
  BY <1>1, BufferAssumption, Zenon
<1>4. p \in Seq(Nat) /\ Len(p) = n
  BY <1>2, <1>3
<1> QED
  BY <1>2, <1>4, Zenon

\* Headroom is a run of zeros.
LEMMA ZerosType ==
    ASSUME NEW n \in Nat
    PROVE  Zeros(n) \in Seq(Nat) /\ Len(Zeros(n)) = n
BY DEF Zeros

\* The bytes of a slice.
LEMMA SliceBytes ==
    ASSUME NEW s \in Seq(Nat), NEW a \in Nat, NEW n \in Nat, a <= n, n <= Len(s)
    PROVE  /\ SubSeq(s, a + 1, n) \in Seq(Nat) /\ Len(SubSeq(s, a + 1, n)) = n - a
           /\ \A i \in 1..(n - a) : SubSeq(s, a + 1, n)[i] = s[a + i]
OBVIOUS

\* The bytes of a prefix.
LEMMA PrefixBytes ==
    ASSUME NEW s \in Seq(Nat), NEW n \in Nat, n <= Len(s)
    PROVE  /\ SubSeq(s, 1, n) \in Seq(Nat) /\ Len(SubSeq(s, 1, n)) = n
           /\ \A i \in 1..n : SubSeq(s, 1, n)[i] = s[i]
BY SMTT(20)

\* The readable bytes after a cut at the end, and after the front is consumed.
LEMMA SliceOfSlice ==
    ASSUME NEW s \in Seq(Nat), NEW k \in Nat, NEW m \in Nat, k <= m, m <= Len(s)
    PROVE  /\ SubSeq(SubSeq(s, 1, m), k + 1, m) = SubSeq(SubSeq(s, k + 1, Len(s)), 1, m - k)
           /\ SubSeq(s, m + 1, Len(s))
                = SubSeq(SubSeq(s, k + 1, Len(s)), (m - k) + 1, Len(s) - k)
<1> DEFINE l == Len(s)
           r == SubSeq(s, k + 1, l)
           f == SubSeq(s, 1, m)
<1>1. l \in Nat /\ k <= l /\ m - k \in Nat /\ l - k \in Nat /\ m - k <= l - k
  OBVIOUS
<1>2. r \in Seq(Nat) /\ Len(r) = l - k /\ \A i \in 1..(l - k) : r[i] = s[k + i]
  <2>1. l <= Len(s)
    BY <1>1
  <2> QED
    BY <1>1, <2>1, SliceBytes, Zenon
<1>3. f \in Seq(Nat) /\ Len(f) = m /\ \A i \in 1..m : f[i] = s[i]
  BY PrefixBytes, Zenon
<1> HIDE DEF l, r, f
<1>4. SubSeq(f, k + 1, m) = SubSeq(r, 1, m - k)
  <2> DEFINE x == SubSeq(f, k + 1, m)
             y == SubSeq(r, 1, m - k)
  <2>1. x \in Seq(Nat) /\ Len(x) = m - k /\ \A i \in 1..(m - k) : x[i] = f[k + i]
    <3>1. m <= Len(f)
      BY <1>3
    <3> QED
      BY <1>3, <3>1, SliceBytes, Zenon
  <2>2. y \in Seq(Nat) /\ Len(y) = m - k /\ \A i \in 1..(m - k) : y[i] = r[i]
    <3>1. m - k <= Len(r)
      BY <1>1, <1>2, Zenon
    <3> QED
      BY <1>1, <1>2, <3>1, PrefixBytes, Zenon
  <2> HIDE DEF x, y
  <2>3. ASSUME NEW i \in 1..(m - k) PROVE x[i] = y[i]
    <3>1. k + i \in 1..m /\ i \in 1..(l - k)
      BY <1>1
    <3> QED
      BY <1>2, <1>3, <2>1, <2>2, <3>1, Zenon
  <2>4. x = y
    BY <2>1, <2>2, <2>3, SeqEqual, Zenon
  <2> QED
    BY <2>4, Zenon DEF x, y
<1>5. SubSeq(s, m + 1, l) = SubSeq(r, (m - k) + 1, l - k)
  <2> DEFINE x == SubSeq(s, m + 1, l)
             y == SubSeq(r, (m - k) + 1, l - k)
  <2>1. x \in Seq(Nat) /\ Len(x) = l - m /\ \A i \in 1..(l - m) : x[i] = s[m + i]
    <3>1. l <= Len(s) /\ m <= l
      BY <1>1 DEF l
    <3> QED
      BY <1>1, <3>1, SliceBytes, Zenon
  <2>2. (l - k) - (m - k) = l - m
    BY <1>1
  <2>3. y \in Seq(Nat) /\ Len(y) = l - m /\ \A i \in 1..(l - m) : y[i] = r[(m - k) + i]
    <3>1. l - k <= Len(r)
      BY <1>1, <1>2
    <3>2. /\ y \in Seq(Nat) /\ Len(y) = (l - k) - (m - k)
          /\ \A i \in 1..((l - k) - (m - k)) : y[i] = r[(m - k) + i]
      BY <1>1, <1>2, <3>1, SliceBytes, Zenon
    <3> QED
      BY <2>2, <3>2, Zenon
  <2> HIDE DEF x, y
  <2>4. ASSUME NEW i \in 1..(l - m) PROVE x[i] = y[i]
    <3>1. (m - k) + i \in 1..(l - k) /\ k + ((m - k) + i) = m + i
      BY <1>1
    <3> QED
      BY <1>2, <2>1, <2>3, <3>1, Zenon
  <2>5. x = y
    BY <2>1, <2>3, <2>4, SeqEqual, Zenon
  <2> QED
    BY <2>5, Zenon DEF x, y
<1> QED
  BY <1>4, <1>5, Zenon DEF l, r, f

\* The order of joining does not matter.
LEMMA JoinsAssociate ==
    ASSUME NEW s \in Seq(Nat), NEW t \in Seq(Nat), NEW u \in Seq(Nat)
    PROVE  s \o t \o u = s \o (t \o u)
BY SMTT(40)

\* The readable bytes behind a new headroom.
LEMMA SliceBehind ==
    ASSUME NEW s \in Seq(Nat), NEW t \in Seq(Nat)
    PROVE  /\ s \o t \in Seq(Nat) /\ Len(s \o t) = Len(s) + Len(t)
           /\ SubSeq(s \o t, Len(s) + 1, Len(s) + Len(t)) = t
OBVIOUS

\* The readable bytes with a suffix.
LEMMA SliceOfConcat ==
    ASSUME NEW s \in Seq(Nat), NEW t \in Seq(Nat), NEW k \in Nat, k <= Len(s)
    PROVE  /\ s \o t \in Seq(Nat) /\ Len(s \o t) = Len(s) + Len(t)
           /\ SubSeq(s \o t, k + 1, Len(s) + Len(t)) = SubSeq(s, k + 1, Len(s)) \o t
<1>1. s \o t \in Seq(Nat) /\ Len(s \o t) = Len(s) + Len(t)
  OBVIOUS
<1>2. SubSeq(s \o t, k + 1, Len(s) + Len(t)) = SubSeq(s, k + 1, Len(s)) \o t
  <2> DEFINE l == Len(s)
             n == Len(t)
             c == s \o t
             r == SubSeq(s, k + 1, l)
             x == SubSeq(c, k + 1, l + n)
             y == r \o t
  <2>1. l \in Nat /\ n \in Nat
    OBVIOUS
  <2>2. /\ c \in Seq(Nat) /\ Len(c) = l + n
        /\ \A i \in 1..(l + n) : c[i] = IF i <= l THEN s[i] ELSE t[i - l]
    BY ConcatProperties, Zenon
  <2>3. r \in Seq(Nat) /\ Len(r) = l - k /\ \A i \in 1..(l - k) : r[i] = s[k + i]
    <3>1. l <= Len(s)
      BY <2>1
    <3> QED
      BY <2>1, <3>1, SliceBytes, Zenon
  <2> HIDE DEF c, r
  <2>4. /\ y \in Seq(Nat) /\ Len(y) = (l - k) + n
        /\ \A i \in 1..((l - k) + n) : y[i] = IF i <= l - k THEN r[i] ELSE t[i - (l - k)]
    <3>1. /\ y \in Seq(Nat) /\ Len(y) = Len(r) + Len(t)
          /\ \A i \in 1..(Len(r) + Len(t)) : y[i] = IF i <= Len(r) THEN r[i] ELSE t[i - Len(r)]
      BY <2>3, ConcatProperties, Zenon
    <3> HIDE DEF y
    <3> QED
      BY <2>3, <3>1, Zenon
  <2> HIDE DEF l, n, y
  <2>5. l + n \in Nat /\ k <= l + n /\ (l + n) - k = (l - k) + n /\ k <= l
    BY <2>1 DEF l
  <2>6. x \in Seq(Nat) /\ Len(x) = (l - k) + n /\ \A i \in 1..((l - k) + n) : x[i] = c[k + i]
    <3>1. l + n <= Len(c)
      BY <2>2, <2>5
    <3>2. /\ x \in Seq(Nat) /\ Len(x) = (l + n) - k
          /\ \A i \in 1..((l + n) - k) : x[i] = c[k + i]
      BY <2>2, <2>5, <3>1, SliceBytes, Zenon
    <3> HIDE DEF x
    <3> QED
      BY <2>5, <3>2, Zenon
  <2> HIDE DEF x
  <2>7. ASSUME NEW i \in 1..((l - k) + n) PROVE x[i] = y[i]
    <3>1. k + i \in 1..(l + n) /\ (k + i) - l = i - (l - k) /\ (k + i <= l <=> i <= l - k)
      BY <2>1, <2>5
    <3>2. i <= l - k => i \in 1..(l - k)
      BY <2>1, <2>5
    <3> QED
      BY <2>2, <2>3, <2>4, <2>6, <3>1, <3>2, Zenon
  <2>8. x = y
    BY <2>4, <2>6, <2>7, SeqEqual, Zenon
  <2> QED
    BY <2>8, Zenon DEF x, y, c, r, l, n
<1> QED
  BY <1>1, <1>2, Zenon

-----------------------------------------------------------------------------
(* The operations of the buffer                                             *)

\* The parts of a buffer, and its readable bytes.
LEMMA BufferFields ==
    ASSUME NEW b \in Buffers
    PROVE  /\ b.data \in Seq(Nat) /\ b.start \in Nat /\ b.start <= Len(b.data)
           /\ Len(b.data) \in Nat /\ Len(b.data) <= MaxLen
           /\ as_slice(b) \in Seq(Nat) /\ Len(as_slice(b)) = Len(b.data) - b.start
           /\ b = [data |-> b.data, start |-> b.start]
<1>1. /\ b \in [data : Seq(Nat), start : Nat] /\ b.start <= Len(b.data)
      /\ Len(b.data) <= MaxLen
  BY Zenon DEF Buffers
<1>2. b.data \in Seq(Nat) /\ b.start \in Nat /\ Len(b.data) \in Nat
  BY <1>1
<1>3. as_slice(b) \in Seq(Nat) /\ Len(as_slice(b)) = Len(b.data) - b.start
  BY <1>1, <1>2, SliceBytes, SMTT(20) DEF as_slice
<1> QED
  BY <1>1, <1>2, <1>3, Zenon

\* A vector with a cursor within it is a buffer.
LEMMA BufferMade ==
    ASSUME NEW v \in Seq(Nat), NEW h \in Nat, h <= Len(v), Len(v) <= MaxLen
    PROVE  /\ [data |-> v, start |-> h] \in Buffers
           /\ as_slice([data |-> v, start |-> h]) = SubSeq(v, h + 1, Len(v))
BY Zenon DEF Buffers, as_slice

\* What one operation does to the readable bytes and to the headroom.
Kept(b, c) == Steps(as_slice(b), b.start, as_slice(c), c.start)

\* truncate cuts the readable bytes at the end.
LEMMA TruncateKeeps ==
    ASSUME NEW b \in Buffers, NEW count \in 0..MaxLen
    PROVE  truncate(b, count) \in Buffers /\ Kept(b, truncate(b, count))
<1> DEFINE v == b.data
           k == b.start
           l == Len(v)
           w == 2^WordBits
           m == Shorter((k + count) % w, l)
           c == truncate(b, count)
<1>1. /\ v \in Seq(Nat) /\ k \in Nat /\ k <= l /\ l \in Nat /\ l <= MaxLen
      /\ Len(as_slice(b)) = l - k /\ b = [data |-> v, start |-> k]
  BY BufferFields, Zenon
<1>2. MaxLen \in Nat /\ 2 * MaxLen < w /\ count \in Nat /\ count <= MaxLen
  BY BufferAssumption
<1>3. c = [data |-> SubSeq(v, 1, m), start |-> k]
  BY <1>1, Zenon DEF truncate
<1> HIDE DEF v, k, l, c
<1>4. k + count \in Nat /\ k + count < w /\ w \in Nat
  <2>1. w \in Int
    BY BufferAssumption
  <2> HIDE DEF w
  <2> QED
    BY <1>1, <1>2, <2>1
<1> HIDE DEF w
<1>5. (k + count) % w = k + count
  BY <1>4
<1>6. m \in Nat /\ k <= m /\ m <= l
  BY <1>1, <1>2, <1>4, <1>5 DEF Shorter
<1> HIDE DEF m
<1>7. SubSeq(v, 1, m) \in Seq(Nat) /\ Len(SubSeq(v, 1, m)) = m
  BY <1>1, <1>6, PrefixBytes, Zenon DEF l
<1>8. m <= MaxLen
  BY <1>1, <1>2, <1>6
<1>9. c \in Buffers /\ as_slice(c) = SubSeq(SubSeq(v, 1, m), k + 1, m) /\ c.start = k
  BY <1>1, <1>3, <1>6, <1>7, <1>8, BufferMade, Zenon
<1>10. as_slice(c) = SubSeq(as_slice(b), 1, m - k)
  BY <1>1, <1>6, <1>9, SliceOfSlice, Zenon DEF as_slice, v, k, l
<1>11. m - k \in 0..Len(as_slice(b))
  BY <1>1, <1>6
<1>12. Kept(b, c)
  BY <1>9, <1>10, <1>11, Zenon DEF Kept, Steps, k
<1> QED
  BY <1>9, <1>12, Zenon DEF c

\* advance consumes the first readable bytes, which become headroom.
LEMMA AdvanceKeeps ==
    ASSUME NEW b \in Buffers, NEW count \in 0..len(b)
    PROVE  advance(b, count) \in Buffers /\ Kept(b, advance(b, count))
<1> DEFINE v == b.data
           k == b.start
           l == Len(v)
           w == 2^WordBits
           m == (k + count) % w
           c == advance(b, count)
<1>1. /\ v \in Seq(Nat) /\ k \in Nat /\ k <= l /\ l \in Nat /\ l <= MaxLen
      /\ Len(as_slice(b)) = l - k /\ b = [data |-> v, start |-> k]
  BY BufferFields, Zenon
<1>2. MaxLen \in Nat /\ 2 * MaxLen < w /\ count \in Nat /\ count <= l - k
  BY <1>1, BufferAssumption DEF len
<1>3. c = [data |-> v, start |-> m]
  BY <1>1, Zenon DEF advance
<1> HIDE DEF v, k, l, c
<1>4. k + count \in Nat /\ k + count < w /\ w \in Nat
  <2>1. w \in Int
    BY BufferAssumption
  <2> HIDE DEF w
  <2> QED
    BY <1>1, <1>2, <2>1
<1> HIDE DEF w
<1>5. m = k + count
  BY <1>4
<1> HIDE DEF m
<1>6. m \in Nat /\ k <= m /\ m <= l /\ m - k = count
  BY <1>1, <1>2, <1>5
<1>7. c \in Buffers /\ as_slice(c) = SubSeq(v, m + 1, l) /\ c.start = m
  BY <1>1, <1>3, <1>6, BufferMade, Zenon DEF l
<1>8. as_slice(c) = SubSeq(as_slice(b), (m - k) + 1, l - k)
  BY <1>1, <1>6, <1>7, SliceOfSlice, Zenon DEF as_slice, v, k, l
<1>9. as_slice(c) = SubSeq(as_slice(b), count + 1, Len(as_slice(b)))
  BY <1>1, <1>6, <1>8, Zenon
<1>10. count \in 0..Len(as_slice(b)) /\ c.start = k + count
  BY <1>1, <1>2, <1>5, <1>7
<1>11. Kept(b, c)
  BY <1>9, <1>10, Zenon DEF Kept, Steps, k
<1> QED
  BY <1>7, <1>11, Zenon DEF c

\* try_add_prefix puts the prefix before the readable bytes, over the headroom.
LEMMA PrefixKeeps ==
    ASSUME NEW b \in Buffers, NEW prefix \in Payloads, b.start >= Len(prefix)
    PROVE  try_add_prefix(b, prefix) \in Buffers /\ Kept(b, try_add_prefix(b, prefix))
<1> DEFINE v == b.data
           k == b.start
           l == Len(v)
           n == Len(prefix)
           h == SubSeq(v, 1, k - n)
           c == try_add_prefix(b, prefix)
<1>1. /\ v \in Seq(Nat) /\ k \in Nat /\ k <= l /\ l \in Nat /\ l <= MaxLen
      /\ as_slice(b) \in Seq(Nat) /\ Len(as_slice(b)) = l - k
  BY BufferFields, Zenon
<1>2. prefix \in Seq(Nat) /\ n \in Nat /\ n <= k
  BY <1>1, PayloadType, Zenon
<1>3. c = [data |-> h \o prefix \o as_slice(b), start |-> k - n]
  BY Zenon DEF try_add_prefix
<1> HIDE DEF c
<1>4. k - n \in Nat /\ k - n <= l
  BY <1>1, <1>2
<1>5. h \in Seq(Nat) /\ Len(h) = k - n
  BY <1>1, <1>4, PrefixBytes, Zenon DEF l
<1> HIDE DEF h, k, v, l, n
<1>6. /\ h \o prefix \o as_slice(b) = h \o (prefix \o as_slice(b))
      /\ prefix \o as_slice(b) \in Seq(Nat) /\ Len(prefix \o as_slice(b)) = n + (l - k)
  <2>1. h \o prefix \o as_slice(b) = h \o (prefix \o as_slice(b))
    <3>1. as_slice(b) \in Seq(Nat) /\ prefix \in Seq(Nat) /\ h \in Seq(Nat)
      BY <1>1, <1>2, <1>5, Zenon
    <3> QED
      BY <3>1, JoinsAssociate, Zenon
  <2>2. /\ prefix \o as_slice(b) \in Seq(Nat)
        /\ Len(prefix \o as_slice(b)) = Len(prefix) + Len(as_slice(b))
    BY <1>1, <1>2, ConcatProperties, Zenon
  <2> QED
    BY <1>1, <2>1, <2>2, Zenon DEF n
<1> DEFINE t == prefix \o as_slice(b)
<1> HIDE DEF t
<1>7. t \in Seq(Nat) /\ Len(t) = n + (l - k) /\ c = [data |-> h \o t, start |-> k - n]
  BY <1>3, <1>6, Zenon DEF t
<1>8. /\ h \o t \in Seq(Nat) /\ Len(h \o t) = Len(h) + Len(t)
      /\ SubSeq(h \o t, Len(h) + 1, Len(h) + Len(t)) = t
  BY <1>5, <1>7, SliceBehind, Zenon
<1>9. Len(h) + Len(t) = l
  BY <1>1, <1>2, <1>5, <1>7
<1>10. c \in Buffers /\ as_slice(c) = t /\ c.start = k - n
  BY <1>1, <1>4, <1>5, <1>7, <1>8, <1>9, BufferMade, Zenon
<1>11. Kept(b, c)
  BY <1>2, <1>10, Zenon DEF Kept, Steps, t, k, n
<1> QED
  BY <1>10, <1>11, Zenon DEF c

\* splice_headroom moves the readable bytes behind the headroom asked for.
LEMMA SpliceKeeps ==
    ASSUME NEW b \in Buffers, NEW headroom \in 0..MaxLen, headroom + len(b) <= MaxLen
    PROVE  splice_headroom(b, headroom) \in Buffers /\ Kept(b, splice_headroom(b, headroom))
<1> DEFINE c == splice_headroom(b, headroom)
           z == Zeros(headroom)
           t == as_slice(b)
<1>1. /\ b.start \in Nat /\ b.start <= Len(b.data) /\ Len(b.data) \in Nat
      /\ t \in Seq(Nat) /\ Len(t) = len(b) /\ len(b) \in Nat
  BY BufferFields DEF len
<1>2. headroom \in Nat /\ MaxLen \in Nat
  BY BufferAssumption
<1>3. z \in Seq(Nat) /\ Len(z) = headroom
  BY <1>2, ZerosType, Zenon
<1>4. CASE b.start >= headroom
  <2>1. c = b
    BY <1>4, Zenon DEF splice_headroom
  <2>2. Kept(b, b)
    BY <1>1 DEF Kept, Steps
  <2> QED
    BY <2>1, <2>2, Zenon
<1>5. CASE ~(b.start >= headroom)
  <2>1. c = [data |-> z \o t, start |-> headroom]
    BY <1>5, Zenon DEF splice_headroom
  <2> HIDE DEF z, t, c
  <2>2. /\ z \o t \in Seq(Nat) /\ Len(z \o t) = Len(z) + Len(t)
        /\ SubSeq(z \o t, Len(z) + 1, Len(z) + Len(t)) = t
    BY <1>1, <1>3, SliceBehind, Zenon
  <2>3. Len(z) + Len(t) <= MaxLen /\ headroom <= Len(z) + Len(t)
    BY <1>1, <1>2, <1>3
  <2>4. c \in Buffers /\ as_slice(c) = t /\ c.start = headroom
    BY <1>2, <1>3, <2>1, <2>2, <2>3, BufferMade, Zenon
  <2>5. headroom >= b.start
    BY <1>1, <1>2, <1>5
  <2>6. Kept(b, c)
    BY <2>4, <2>5, Zenon DEF Kept, Steps, t
  <2> QED
    BY <2>4, <2>6, Zenon DEF c
<1> QED
  BY <1>4, <1>5, Zenon

\* put appends behind the readable bytes.
LEMMA PutKeeps ==
    ASSUME NEW b \in Buffers, NEW bytes \in Payloads, Len(b.data) + Len(bytes) <= MaxLen
    PROVE  put(b, bytes) \in Buffers /\ Kept(b, put(b, bytes))
<1> DEFINE v == b.data
           k == b.start
           c == put(b, bytes)
<1>1. /\ v \in Seq(Nat) /\ k \in Nat /\ k <= Len(v) /\ Len(v) \in Nat
      /\ b = [data |-> v, start |-> k] /\ as_slice(b) = SubSeq(v, k + 1, Len(v))
  BY BufferFields, Zenon DEF as_slice
<1>2. bytes \in Seq(Nat) /\ Len(bytes) \in Nat
  BY PayloadType, Zenon
<1>3. c = [data |-> v \o bytes, start |-> k]
  BY <1>1, Zenon DEF put
<1>4. Len(v) + Len(bytes) <= MaxLen
  BY Zenon
<1> HIDE DEF v, k, c
<1>5. /\ v \o bytes \in Seq(Nat) /\ Len(v \o bytes) = Len(v) + Len(bytes)
      /\ SubSeq(v \o bytes, k + 1, Len(v) + Len(bytes)) = SubSeq(v, k + 1, Len(v)) \o bytes
  BY <1>1, <1>2, SliceOfConcat, Zenon
<1>6. k <= Len(v) + Len(bytes)
  BY <1>1, <1>2
<1>7. c \in Buffers /\ as_slice(c) = as_slice(b) \o bytes /\ c.start = k
  BY <1>1, <1>3, <1>4, <1>5, <1>6, BufferMade, Zenon
<1>8. Kept(b, c)
  BY <1>7, Zenon DEF Kept, Steps, k
<1> QED
  BY <1>7, <1>8, Zenon DEF c

\* clear leaves nothing.
LEMMA EmptyKeeps ==
    ASSUME NEW b \in Buffers
    PROVE  Empty \in Buffers /\ Kept(b, Empty)
<1>1. <<>> \in Seq(Nat) /\ Len(<<>>) = 0 /\ SubSeq(<<>>, 0 + 1, 0) = <<>>
  OBVIOUS
<1>2. 0 <= MaxLen
  BY BufferAssumption
<1>3. Empty \in Buffers /\ as_slice(Empty) = <<>> /\ Empty.start = 0
  BY <1>1, <1>2 DEF Empty, Buffers, as_slice
<1> QED
  BY <1>3, Zenon DEF Kept, Steps

\* The constructors leave the cursor within the vector.
LEMMA BufStart == BufInit => BufInv
<1> SUFFICES ASSUME BufInit PROVE buf \in Buffers
  BY Zenon DEF BufInv
<1>1. CASE buf = Empty
  <2>1. <<>> \in Seq(Nat) /\ Len(<<>>) = 0 /\ 0 <= MaxLen
    BY BufferAssumption
  <2> QED
    BY <1>1, <2>1 DEF Empty, Buffers
<1>2. ASSUME NEW h \in 1..MaxLen, buf = with_headroom(h) PROVE buf \in Buffers
  <2>1. h \in Nat /\ h <= MaxLen
    BY BufferAssumption
  <2>2. Zeros(h) \in Seq(Nat) /\ Len(Zeros(h)) = h /\ h <= Len(Zeros(h))
    <3>1. Zeros(h) \in Seq(Nat) /\ Len(Zeros(h)) = h
      BY <2>1, ZerosType, Zenon
    <3> QED
      BY <2>1, <3>1
  <2> QED
    BY <1>2, <2>1, <2>2, BufferMade, Zenon DEF with_headroom
<1>3. ASSUME NEW v \in Payloads, NEW h \in 0..Len(v), buf = from_vec_with_headroom(v, h)
      PROVE  buf \in Buffers
  <2>1. v \in Seq(Nat) /\ Len(v) \in Nat /\ Len(v) <= MaxWrite
    BY PayloadType, Zenon
  <2>2. h \in Nat /\ h <= Len(v) /\ Len(v) <= MaxLen
    BY <2>1, BufferAssumption
  <2> QED
    BY <1>3, <2>1, <2>2, BufferMade, Zenon DEF from_vec_with_headroom
<1> QED
  BY <1>1, <1>2, <1>3, Zenon DEF BufInit

\* Every operation keeps the cursor in the vector and changes the readable bytes as it says.
LEMMA BufStep == BufInv /\ BufNext => BufInv' /\ Kept(buf, buf')
<1> SUFFICES ASSUME buf \in Buffers, BufNext PROVE buf' \in Buffers /\ Kept(buf, buf')
  BY Zenon DEF BufInv
<1>1. CASE Truncate
  BY <1>1, TruncateKeeps, Zenon DEF Truncate
<1>2. CASE Advance
  BY <1>2, AdvanceKeeps, Zenon DEF Advance
<1>3. CASE AddPrefix
  BY <1>3, PrefixKeeps, Zenon DEF AddPrefix
<1>4. CASE Splice
  BY <1>4, SpliceKeeps, Zenon DEF Splice
<1>5. CASE Put
  BY <1>5, PutKeeps, Zenon DEF Put
<1>6. CASE Clear
  BY <1>6, EmptyKeeps, Zenon DEF Clear
<1> QED
  BY <1>1, <1>2, <1>3, <1>4, <1>5, <1>6, Zenon DEF BufNext

\* No operation of the buffer touches a readable byte it is not asked to touch, for
\* any contents, counts and headroom that a Vec can hold (buffer.rs).
THEOREM PayloadIsKept == BufSpec => PayloadKept
<1>1. BufInit => BufInv
  BY BufStart, Zenon
<1>2. BufInv /\ [BufNext]_buf => BufInv'
  BY BufStep, Zenon DEF BufInv
<1>3. BufInv /\ [BufNext]_buf
        => [Steps(as_slice(buf), buf.start, as_slice(buf'), buf'.start)]_buf
  BY BufStep, Zenon DEF Kept
<1> QED
  BY <1>1, <1>2, <1>3, PTL DEF BufSpec, PayloadKept
=============================================================================
