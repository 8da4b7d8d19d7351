----------------------------- MODULE WebRtcProofs -----------------------------
(***************************************************************************)
(* Proofs about WebRtc for any capacity and any range of sequence numbers: *)
(* the decoder plays packets in order across every wrap, and the writer's  *)
(* buffer is always the newest part of what the microphone gave.           *)
(***************************************************************************)
EXTENDS WebRtc, TLAPS

\* The remainder of what lies at most half a range below.
LEMMA WrapBelow ==
  ASSUME NEW n \in Nat \ {0}, NEW d \in -n .. -1, NEW r, r = 2 * n
  PROVE  d % r >= n
<1>1. d % (2 * n) = d + 2 * n
  OBVIOUS
<1> QED
  BY <1>1

\* Half the range of the sequence numbers.
LEMMA HalfRange == \E n \in Nat \ {0} : SeqRange = 2 * n /\ SeqRange \div 2 = n
<1> DEFINE n == SeqRange \div 2
<1>1. n \in Nat \ {0} /\ SeqRange = 2 * n
  BY SeqAssumption
<1> QED
  BY <1>1

\* A packet as far back as a packet may be is late or repeated.
LEMMA OldIsStale ==
  ASSUME NEW i \in Int, last \in Int, last # 0,
         i <= last, i >= last - SeqRange \div 2
  PROVE  Stale(i)
<1>1. PICK n \in Nat \ {0} : SeqRange = 2 * n /\ SeqRange \div 2 = n
  BY HalfRange
<1>2. SeqRange \div 2 = n
  BY <1>1
<1>3. CASE i = last
  <2>1. 0 % (2 * n) = 0
    OBVIOUS
  <2>2. Delta(i) = 0
    BY <1>1, <1>3, <2>1 DEF Delta
  <2> QED
    BY <2>2 DEF Stale
<1>4. CASE i # last
  <2>1. n \in Nat \ {0} /\ i - last \in -n .. -1
    BY <1>2, <1>4
  <2>2. (i - last) % SeqRange >= n
    BY <1>1, <2>1, WrapBelow
  <2> QED
    BY <1>2, <2>2 DEF Stale, Delta
<1> QED
  BY <1>3, <1>4

\* Only the decoder moves the newest packet.
LEMMA OnlyDecodePlays ==
  ASSUME [Next]_vars, ~Decode
  PROVE  UNCHANGED last
<1> USE DEF downlink
<1>1. CASE UNCHANGED vars
  BY <1>1 DEF vars
<1>2. CASE Owner
  BY <1>2 DEF Owner
<1>3. CASE Attempt
  BY <1>3 DEF Attempt, SpawnPlayer, CreatePeer, Gather, ExchangeSdp, TakeChannel, FirstEvent,
              SendUpdate, SessionUpdated, SetupEndsBadly, Activated, WaitCancelled, WaitEvent,
              Loop, StopCapture, ClosePeer, JoinWriter, StopPlayer
<1>4. CASE Callback
  BY <1>4 DEF Callback, OnDataChannel, PeerEvent, TrackArrives, OnTrack
<1>5. CASE Task
  BY <1>5 DEF Task, CaptureStep, Capture, WriterStep, TakeChunk, Flush, EncodeFrame, WriterEnds,
              DecoderFails
<1> QED
  BY <1>1, <1>2, <1>3, <1>4, <1>5 DEF Next

\* The newest packet is a number, and a packet that is played is newer.
LEMMA DecodeForward ==
  ASSUME last \in Int, Decode
  PROVE  last' \in Int /\ last' > last
<1>1. PICK i \in Arrivals : Play(i)
  BY DEF Decode
<1>2. last' = i /\ ~Stale(i)
  BY <1>1 DEF Play
<1>3. CASE last = 0
  BY <1>2, <1>3 DEF Arrivals
<1>4. CASE last # 0
  <2>1. PICK n \in Nat \ {0} : SeqRange \div 2 = n
    BY HalfRange
  <2>2. MaxPackets \in Nat
    BY AudioAssumption
  <2>3. i \in Int /\ i >= last - SeqRange \div 2
    BY <1>4, <2>1, <2>2 DEF Arrivals
  <2> QED
    BY <1>2, <1>4, <2>3, OldIsStale
<1> QED
  BY <1>3, <1>4

\* A packet is never played after a newer one, for any range of the sequence numbers and any
\* pattern of loss, repetition and reordering within half of it (run_opus_decoder).
THEOREM InOrder == Spec => PlayedInOrder
<1>1. Init => last \in Int
  BY DEF Init, AudioInit
<1>2. last \in Int /\ [Next]_vars => (last \in Int)' /\ [last' # last => last' > last]_last
  BY OnlyDecodePlays, DecodeForward
<1> QED
  BY <1>1, <1>2, PTL DEF Spec, PlayedInOrder

----------------------------------------------------------------------------
(* The writer's buffer.                                                    *)

\* What it is to be the end of a sequence, position by position.
Ends(s, t) ==
  /\ Len(s) <= Len(t)
  /\ \A i \in 1 .. Len(s) : s[i] = t[(Len(t) - Len(s)) + i]

LEMMA SuffixEnds ==
  ASSUME NEW S, NEW s \in Seq(S), NEW t \in Seq(S)
  PROVE  IsSuffix(s, t) <=> Ends(s, t)
<1> DEFINE r == Reverse(s)
           u == Reverse(t)
<1>1. r \in Seq(S) /\ Len(r) = Len(s) /\ \A i \in 1 .. Len(s) : r[i] = s[(Len(s) - i) + 1]
  BY DEF Reverse
<1>2. u \in Seq(S) /\ Len(u) = Len(t) /\ \A i \in 1 .. Len(t) : u[i] = t[(Len(t) - i) + 1]
  BY DEF Reverse
<1>3. IsSuffix(s, t) <=> (Len(r) <= Len(u) /\ SubSeq(r, 1, Len(r)) = SubSeq(u, 1, Len(r)))
  BY DEF IsSuffix, IsPrefix
<1> HIDE DEF r, u
<1>4. ASSUME Len(s) <= Len(t)
      PROVE  (SubSeq(r, 1, Len(r)) = SubSeq(u, 1, Len(r))) <=> \A i \in 1 .. Len(s) : r[i] = u[i]
  <2> DEFINE a == SubSeq(r, 1, Len(r))
             b == SubSeq(u, 1, Len(r))
  <2>1. a \in Seq(S) /\ Len(a) = Len(s) /\ \A i \in 1 .. Len(s) : a[i] = r[i]
    BY <1>1
  <2>2. b \in Seq(S) /\ Len(b) = Len(s) /\ \A i \in 1 .. Len(s) : b[i] = u[i]
    BY <1>1, <1>2, <1>4
  <2> HIDE DEF a, b
  <2>3. (\A i \in 1 .. Len(s) : a[i] = b[i]) => a = b
    BY <2>1, <2>2
  <2>4. a = b <=> \A i \in 1 .. Len(s) : r[i] = u[i]
    BY <2>1, <2>2, <2>3
  <2> QED
    BY <2>4 DEF a, b
<1>5. ASSUME Len(s) <= Len(t), \A i \in 1 .. Len(s) : r[i] = u[i], NEW i \in 1 .. Len(s)
      PROVE  s[i] = t[(Len(t) - Len(s)) + i]
  <2>1. (Len(s) - i) + 1 \in 1 .. Len(s)
    OBVIOUS
  <2>2. PICK j \in 1 .. Len(s) : j = (Len(s) - i) + 1
    BY <2>1
  <2>3. (Len(s) - j) + 1 = i /\ (Len(t) - j) + 1 = (Len(t) - Len(s)) + i /\ j \in 1 .. Len(t)
    BY <1>5, <2>2
  <2>4. r[j] = s[(Len(s) - j) + 1] /\ u[j] = t[(Len(t) - j) + 1]
    BY <1>1, <1>2, <2>3
  <2> QED
    BY <1>5, <2>3, <2>4
<1>6. ASSUME Ends(s, t), NEW i \in 1 .. Len(s)
      PROVE  r[i] = u[i]
  <2>1. (Len(s) - i) + 1 \in 1 .. Len(s)
    OBVIOUS
  <2>2. PICK j \in 1 .. Len(s) : j = (Len(s) - i) + 1
    BY <2>1
  <2>3. s[j] = t[(Len(t) - Len(s)) + j]
    BY <1>6 DEF Ends
  <2>4. (Len(t) - Len(s)) + j = (Len(t) - i) + 1
    BY <2>2
  <2>5. i \in 1 .. Len(t)
    BY <1>6 DEF Ends
  <2>6. r[i] = s[(Len(s) - i) + 1] /\ u[i] = t[(Len(t) - i) + 1]
    BY <1>1, <1>2, <2>5
  <2> QED
    BY <2>2, <2>3, <2>4, <2>6
<1>7. ASSUME IsSuffix(s, t)
      PROVE  Ends(s, t)
  BY <1>1, <1>2, <1>3, <1>4, <1>5, <1>7 DEF Ends
<1>8. ASSUME Ends(s, t)
      PROVE  IsSuffix(s, t)
  <2>1. Len(s) <= Len(t)
    BY <1>8 DEF Ends
  <2>2. \A i \in 1 .. Len(s) : r[i] = u[i]
    BY <1>6, <1>8
  <2> QED
    BY <1>1, <1>2, <1>3, <1>4, <2>1, <2>2
<1> QED
  BY <1>7, <1>8

\* What is left of an end when its oldest elements go is an end.
LEMMA EndsDropped ==
  ASSUME NEW S, NEW s \in Seq(S), NEW t \in Seq(S), Ends(s, t), NEW n \in Nat
  PROVE  /\ SubSeq(s, n + 1, Len(s)) \in Seq(S)
         /\ Ends(SubSeq(s, n + 1, Len(s)), t)
<1> DEFINE d == SubSeq(s, n + 1, Len(s))
<1>1. CASE n <= Len(s)
  <2>1. d \in Seq(S) /\ Len(d) = Len(s) - n /\ \A i \in 1 .. Len(s) - n : d[i] = s[n + i]
    BY <1>1
  <2> HIDE DEF d
  <2>2. ASSUME NEW i \in 1 .. Len(d)
        PROVE  d[i] = t[(Len(t) - Len(d)) + i]
    <3>1. PICK j \in 1 .. Len(s) : j = n + i
      BY <1>1, <2>1
    <3>2. s[j] = t[(Len(t) - Len(s)) + j]
      BY DEF Ends
    <3>3. (Len(t) - Len(s)) + j = (Len(t) - Len(d)) + i
      BY <2>1, <3>1
    <3> QED
      BY <2>1, <3>1, <3>2, <3>3
  <2>3. Len(d) <= Len(t)
    BY <2>1 DEF Ends
  <2>4. Ends(d, t)
    BY <2>2, <2>3 DEF Ends
  <2> QED
    BY <2>1, <2>4 DEF d
<1>2. CASE n > Len(s)
  <2>1. d = <<>>
    BY <1>2
  <2>2. Len(<<>>) = 0 /\ <<>> \in Seq(S) /\ 1 .. 0 = {}
    OBVIOUS
  <2>3. Ends(<<>>, t)
    BY <2>2 DEF Ends
  <2> QED
    BY <2>1, <2>2, <2>3
<1> QED
  BY <1>1, <1>2

\* Two sequences joined, position by position.
LEMMA Joined ==
  ASSUME NEW S, NEW s \in Seq(S), NEW p \in Seq(S)
  PROVE  /\ s \o p \in Seq(S)
         /\ Len(s \o p) = Len(s) + Len(p)
         /\ \A i \in 1 .. Len(s) + Len(p) :
              (s \o p)[i] = IF i <= Len(s) THEN s[i] ELSE p[i - Len(s)]
OBVIOUS

\* An end stays one when the same is added to both.
LEMMA EndsExtended ==
  ASSUME NEW S, NEW s \in Seq(S), NEW t \in Seq(S), NEW p \in Seq(S), Ends(s, t)
  PROVE  s \o p \in Seq(S) /\ Ends(s \o p, t \o p)
<1> DEFINE a == s \o p
           b == t \o p
<1>1. /\ a \in Seq(S) /\ Len(a) = Len(s) + Len(p)
      /\ \A i \in 1 .. Len(s) + Len(p) : a[i] = IF i <= Len(s) THEN s[i] ELSE p[i - Len(s)]
  BY Joined
<1>2. /\ b \in Seq(S) /\ Len(b) = Len(t) + Len(p)
      /\ \A i \in 1 .. Len(t) + Len(p) : b[i] = IF i <= Len(t) THEN t[i] ELSE p[i - Len(t)]
  BY Joined
<1>3. Len(s) <= Len(t)
  BY DEF Ends
<1> HIDE DEF a, b
<1>4. ASSUME NEW i \in 1 .. Len(a)
      PROVE  a[i] = b[(Len(b) - Len(a)) + i]
  <2> DEFINE j == (Len(t) - Len(s)) + i
  <2>1. i \in 1 .. Len(s) + Len(p) /\ j \in 1 .. Len(t) + Len(p) /\ j = (Len(b) - Len(a)) + i
    BY <1>1, <1>2, <1>3
  <2>4. a[i] = IF i <= Len(s) THEN s[i] ELSE p[i - Len(s)]
    BY <1>1, <2>1
  <2>5. b[j] = IF j <= Len(t) THEN t[j] ELSE p[j - Len(t)]
    BY <1>2, <2>1
  <2>2. CASE i <= Len(s)
    <3>1. s[i] = t[j]
      BY <2>1, <2>2 DEF Ends
    <3>2. j <= Len(t)
      BY <2>1, <2>2
    <3> QED
      BY <2>1, <2>2, <2>4, <2>5, <3>1, <3>2
  <2>3. CASE i > Len(s)
    <3>1. j > Len(t) /\ j - Len(t) = i - Len(s)
      BY <2>1, <2>3
    <3>2. a[i] = p[i - Len(s)]
      BY <2>3, <2>4
    <3>3. b[j] = p[j - Len(t)]
      BY <2>5, <3>1
    <3>4. a[i] = b[j]
      BY <3>1, <3>2, <3>3
    <3> QED
      BY <2>1, <3>4
  <2> QED
    BY <2>2, <2>3
<1>5. Len(a) <= Len(b)
  BY <1>1, <1>2, <1>3
<1>6. Ends(a, b)
  BY <1>4, <1>5 DEF Ends
<1> QED
  BY <1>1, <1>6 DEF a, b

\* The line of one more chunk: the phases of the sample before it come to be known.
LEMMA LineGrows ==
  ASSUME NEW past \in Seq(Nat), past # <<>>, NEW c \in Nat
  PROVE  /\ Line48(past) \in Seq(Nat)
         /\ Phases(Last(past)) \in Seq(Nat)
         /\ Line48(Append(past, c)) = Line48(past) \o Phases(Last(past))
<1> DEFINE n == Len(past)
           more == Append(past, c)
           old == Line48(past)
           new == Line48(more)
           tail == Phases(Last(past))
<1>1. n \in Nat /\ n >= 1 /\ past[n] \in Nat /\ \A k \in 1 .. n : past[k] \in Nat
  OBVIOUS
<1>2. Len(more) = n + 1 /\ \A k \in 1 .. n : more[k] = past[k]
  OBVIOUS
<1>3. tail = <<3 * past[n], 3 * past[n] + 1, 3 * past[n] + 2>>
  BY DEF Phases, Last
<1>4. tail \in Seq(Nat) /\ Len(tail) = 3
  BY <1>1, <1>3
<1> HIDE DEF n, more
<1>5. old = [i \in 1 .. 3 * (n - 1) |-> (3 * past[(i - 1) \div 3 + 1]) + ((i - 1) % 3)]
  BY DEF Line48, n
<1>6. new = [i \in 1 .. 3 * n |-> (3 * more[(i - 1) \div 3 + 1]) + ((i - 1) % 3)]
  BY <1>1, <1>2 DEF Line48
<1> HIDE DEF old, new, tail
<1>7. ASSUME NEW i \in 1 .. 3 * n
      PROVE  (i - 1) \div 3 + 1 \in 1 .. n /\ (i - 1) % 3 \in 0 .. 2
  BY <1>1
<1>8. ASSUME NEW i \in 1 .. 3 * (n - 1)
      PROVE  /\ i \in 1 .. 3 * n
             /\ (3 * past[(i - 1) \div 3 + 1]) + ((i - 1) % 3) \in Nat
  <2>1. i \in 1 .. 3 * n
    BY <1>1
  <2>2. PICK k \in 1 .. n : k = (i - 1) \div 3 + 1
    BY <1>7, <2>1
  <2>3. PICK m \in 0 .. 2 : m = (i - 1) % 3
    BY <1>7, <2>1
  <2>4. past[k] \in Nat
    BY <1>1
  <2>5. (3 * past[k]) + m \in Nat
    BY <2>4
  <2> QED
    BY <2>1, <2>2, <2>3, <2>5
<1>9. 3 * (n - 1) \in Nat
  BY <1>1
<1>10. old \in [1 .. 3 * (n - 1) -> Nat]
  BY <1>5, <1>8
<1>11. old \in Seq(Nat) /\ Len(old) = 3 * (n - 1)
  BY <1>9, <1>10
<1> DEFINE whole == old \o tail
<1>12. /\ whole \in Seq(Nat) /\ Len(whole) = 3 * n
       /\ \A i \in 1 .. 3 * n : whole[i] = IF i <= 3 * (n - 1) THEN old[i] ELSE tail[i - 3 * (n - 1)]
  <2>1. /\ whole \in Seq(Nat) /\ Len(whole) = Len(old) + Len(tail)
        /\ \A i \in 1 .. Len(old) + Len(tail) :
             whole[i] = IF i <= Len(old) THEN old[i] ELSE tail[i - Len(old)]
    BY <1>4, <1>11, Joined
  <2>2. Len(old) + Len(tail) = 3 * n
    BY <1>1, <1>4, <1>11
  <2> QED
    BY <1>11, <2>1, <2>2
<1> HIDE DEF whole
<1>13. ASSUME NEW i \in 1 .. 3 * n
       PROVE  new[i] = whole[i]
  <2>1. PICK k \in 1 .. n : k = (i - 1) \div 3 + 1
    BY <1>7
  <2>2. PICK m \in 0 .. 2 : m = (i - 1) % 3
    BY <1>7
  <2>3. new[i] = (3 * past[k]) + m
    BY <1>2, <1>6, <2>1, <2>2
  <2>4. CASE i <= 3 * (n - 1)
    <3>1. i \in 1 .. 3 * (n - 1)
      BY <2>4
    <3>2. old[i] = (3 * past[k]) + m
      BY <1>5, <2>1, <2>2, <3>1
    <3> QED
      BY <1>12, <2>3, <2>4, <3>2
  <2>5. CASE i > 3 * (n - 1)
    <3>1. k = n /\ m = i - 3 * (n - 1) - 1
      BY <1>1, <2>1, <2>2, <2>5
    <3>2. tail[m + 1] = 3 * past[n] + m
      <4>1. m = 0 \/ m = 1 \/ m = 2
        BY <2>2
      <4>2. PICK x \in Nat : x = 3 * past[n]
        BY <1>1
      <4>3. tail = <<x, x + 1, x + 2>>
        BY <1>3, <4>2
      <4>4. tail[m + 1] = x + m
        <5>1. tail[1] = x + 0 /\ tail[2] = x + 1 /\ tail[3] = x + 2
          BY <4>3
        <5>2. (m = 0 => m + 1 = 1) /\ (m = 1 => m + 1 = 2) /\ (m = 2 => m + 1 = 3)
          OBVIOUS
        <5> QED
          BY <4>1, <5>1, <5>2
      <4> QED
        BY <4>2, <4>4
    <3>3. m + 1 = i - 3 * (n - 1)
      BY <1>1, <3>1
    <3>4. whole[i] = tail[i - 3 * (n - 1)]
      BY <1>1, <1>12, <2>5
    <3> QED
      BY <2>3, <3>1, <3>2, <3>3, <3>4
  <2> QED
    BY <1>1, <2>4, <2>5
<1>14. new = whole
  <2>1. whole = [i \in 1 .. 3 * n |-> whole[i]]
    BY <1>12
  <2>2. new = [i \in 1 .. 3 * n |-> new[i]]
    BY <1>6
  <2> QED
    BY <1>13, <2>1, <2>2
<1> QED
  BY <1>4, <1>11, <1>14 DEF new, old, whole, tail, more

LEMMA LineType ==
  ASSUME NEW past \in Seq(Nat), past # <<>>
  PROVE  Line48(past) \in Seq(Nat)
BY LineGrows

LEMMA NothingEnds ==
  ASSUME NEW S, NEW t \in Seq(S)
  PROVE  <<>> \in Seq(S) /\ Ends(<<>>, t)
<1>1. Len(<<>>) = 0 /\ <<>> \in Seq(S) /\ 1 .. 0 = {}
  OBVIOUS
<1> QED
  BY <1>1 DEF Ends

\* Where the attempt is before the wake word.
Early == Setup \cup {"spawn", "connect", "gather", "sdp", "wait"}

UplinkTypeOK ==
  /\ captured \in Nat
  /\ pcm \in Seq(Nat)
  /\ taken \in Seq(Nat)
  /\ samples \in Seq(Nat)
  /\ flushed \in BOOLEAN

\* The queue closes once, with the capture task that fed it, and there is no capture task before
\* the wake word: after the last sample has been held no chunk comes.
ClosedForGood ==
  /\ at \in Early => capture = "none"
  /\ flushed => pcm = <<>> /\ capture = "ended"

\* The first chunk only becomes the previous sample.
NothingBeforeTheFirst == taken = <<>> => samples = <<>>

UplinkInv == UplinkTypeOK /\ ClosedForGood /\ NothingBeforeTheFirst /\ BufferIsNewest

LEMMA UplinkInit == Init => UplinkInv
<1> SUFFICES ASSUME Init
             PROVE  UplinkInv
  OBVIOUS
<1>1. /\ captured = 0 /\ pcm = <<>> /\ taken = <<>> /\ samples = <<>> /\ flushed = FALSE
      /\ capture = "none"
  BY DEF Init, AudioInit
<1>2. UplinkTypeOK
  <2>1. <<>> \in Seq(Nat)
    OBVIOUS
  <2>2. pcm \in Seq(Nat) /\ taken \in Seq(Nat) /\ samples \in Seq(Nat)
    BY <1>1, <2>1, Zenon
  <2> QED
    BY <1>1, <2>2 DEF UplinkTypeOK
<1>3. ClosedForGood /\ NothingBeforeTheFirst /\ BufferIsNewest
  BY <1>1 DEF ClosedForGood, NothingBeforeTheFirst, BufferIsNewest
<1> QED
  BY <1>2, <1>3 DEF UplinkInv

\* What the buffer is the end of, before and after the queue has closed.
LEMMA StreamIs ==
  ASSUME UplinkTypeOK, taken # <<>>
  PROVE  /\ ~flushed => Stream = Line48(taken) /\ Stream \in Seq(Nat)
         /\ flushed => Stream = Line48(taken) \o [i \in 1 .. 3 |-> 3 * Last(taken)]
         /\ [i \in 1 .. 3 |-> 3 * Last(taken)] \in Seq(Nat)
         /\ Stream \in Seq(Nat)
<1> DEFINE h == [i \in 1 .. 3 |-> 3 * Last(taken)]
           l == Line48(taken)
<1>1. l \in Seq(Nat)
  BY LineType DEF UplinkTypeOK
<1>2. Last(taken) \in Nat
  BY DEF UplinkTypeOK, Last
<1>3. h \in Seq(Nat)
  <2>1. PICK x \in Nat : x = 3 * Last(taken)
    BY <1>2
  <2>2. h = [i \in 1 .. 3 |-> x]
    BY <2>1
  <2> QED
    BY <2>2
<1> HIDE DEF h, l
<1>4. l \o <<>> = l /\ l \o h \in Seq(Nat)
  BY <1>1, <1>3
<1>5. Stream = l \o (IF flushed THEN h ELSE <<>>)
  BY DEF Stream, h, l
<1> QED
  BY <1>1, <1>3, <1>4, <1>5 DEF h, l

LEMMA TakeKeeps ==
  ASSUME UplinkInv, TakeChunk
  PROVE  UplinkTypeOK' /\ ~flushed' /\ NothingBeforeTheFirst' /\ BufferIsNewest'
<1> USE DEF UplinkInv
<1>1. PICK c \in Nat : c = Head(pcm)
  BY DEF UplinkTypeOK, TakeChunk
<1>2. /\ taken' = Append(taken, c) /\ taken' \in Seq(Nat) /\ taken' # <<>>
      /\ pcm' \in Seq(Nat) /\ UNCHANGED <<captured, flushed>> /\ ~flushed
      /\ samples' = Trim(Upsample(samples, taken))
  BY <1>1 DEF UplinkTypeOK, ClosedForGood, TakeChunk
<1>3. Line48(taken') \in Seq(Nat)
  BY <1>2, LineType
<1>4. Stream' = Line48(taken')
  BY <1>2, <1>3 DEF Stream
<1>5. ASSUME NEW o \in Seq(Nat), Ends(o, Line48(taken'))
      PROVE  Trim(o) \in Seq(Nat) /\ Ends(Trim(o), Line48(taken'))
  <2>1. PICK n \in Nat : n = IF Len(o) > MaxBuffered THEN Len(o) - MaxBuffered ELSE 0
    BY AudioAssumption
  <2>2. Trim(o) = SubSeq(o, n + 1, Len(o))
    BY <2>1 DEF Trim
  <2> QED
    BY <1>3, <1>5, <2>2, EndsDropped
<1>6. CASE taken = <<>>
  <2>1. Upsample(samples, taken) = <<>>
    BY <1>6 DEF Upsample, NothingBeforeTheFirst
  <2> QED
    BY <1>2, <1>3, <1>4, <1>5, <2>1, NothingEnds, SuffixEnds
       DEF UplinkTypeOK, NothingBeforeTheFirst, BufferIsNewest
<1>7. CASE taken # <<>>
  <2> DEFINE p == Phases(Last(taken))
  <2>1. /\ Line48(taken) \in Seq(Nat) /\ p \in Seq(Nat)
        /\ Line48(taken') = Line48(taken) \o p
    BY <1>2, <1>7, LineGrows DEF UplinkTypeOK
  <2>2. Stream = Line48(taken)
    BY <1>2, <1>7, StreamIs
  <2>3. Ends(samples, Line48(taken))
    BY <1>7, <2>1, <2>2, SuffixEnds DEF BufferIsNewest, UplinkTypeOK
  <2>4. Upsample(samples, taken) = samples \o p
    BY <1>7 DEF Upsample
  <2> HIDE DEF p
  <2>5. samples \o p \in Seq(Nat) /\ Ends(samples \o p, Line48(taken'))
    BY <2>1, <2>3, EndsExtended DEF UplinkTypeOK
  <2>6. samples' \in Seq(Nat) /\ Ends(samples', Line48(taken'))
    BY <1>2, <1>5, <2>4, <2>5
  <2> QED
    BY <1>2, <1>3, <1>4, <2>6, SuffixEnds DEF UplinkTypeOK, NothingBeforeTheFirst, BufferIsNewest
<1> QED
  BY <1>6, <1>7

LEMMA FlushKeeps ==
  ASSUME UplinkInv, Flush
  PROVE  UplinkTypeOK' /\ pcm' = <<>> /\ NothingBeforeTheFirst' /\ BufferIsNewest'
<1> USE DEF UplinkInv
<1>1. /\ samples' = Hold(samples, taken) /\ flushed' = TRUE /\ ~flushed /\ pcm' = <<>>
      /\ UNCHANGED <<captured, pcm, taken>>
  BY DEF Flush
<1>2. CASE taken = <<>>
  BY <1>1, <1>2 DEF Hold, UplinkTypeOK, NothingBeforeTheFirst, BufferIsNewest
<1>3. CASE taken # <<>>
  <2> DEFINE h == [i \in 1 .. 3 |-> 3 * Last(taken)]
  <2>1. Stream = Line48(taken) /\ Stream \in Seq(Nat) /\ h \in Seq(Nat)
    BY <1>1, <1>3, StreamIs
  <2>2. Stream' = Line48(taken) \o h
    BY <1>1 DEF Stream
  <2>3. samples' = samples \o h
    BY <1>1, <1>3 DEF Hold
  <2> HIDE DEF h
  <2>4. Ends(samples, Stream)
    BY <1>3, <2>1, SuffixEnds DEF BufferIsNewest, UplinkTypeOK
  <2>5. samples' \in Seq(Nat) /\ Ends(samples', Stream') /\ Stream' \in Seq(Nat)
    BY <2>1, <2>2, <2>3, <2>4, EndsExtended, Joined DEF UplinkTypeOK
  <2> QED
    BY <1>1, <1>3, <2>5, SuffixEnds DEF UplinkTypeOK, NothingBeforeTheFirst, BufferIsNewest
<1> QED
  BY <1>2, <1>3

LEMMA EncodeKeeps ==
  ASSUME UplinkInv, EncodeFrame
  PROVE  UplinkTypeOK' /\ NothingBeforeTheFirst' /\ BufferIsNewest'
<1> USE DEF UplinkInv
<1>1. /\ samples' = SubSeq(samples, Frame + 1, Len(samples)) /\ samples # <<>>
      /\ UNCHANGED <<captured, pcm, taken, flushed>>
  BY DEF EncodeFrame
<1>2. taken # <<>>
  BY <1>1 DEF NothingBeforeTheFirst
<1>3. Stream' = Stream /\ Stream \in Seq(Nat)
  BY <1>1, <1>2, StreamIs DEF Stream
<1>4. Ends(samples, Stream)
  BY <1>2, <1>3, SuffixEnds DEF BufferIsNewest, UplinkTypeOK
<1>5. Frame \in Nat
  BY AudioAssumption
<1>6. samples' \in Seq(Nat) /\ Ends(samples', Stream)
  BY <1>1, <1>3, <1>4, <1>5, EndsDropped DEF UplinkTypeOK
<1> QED
  BY <1>1, <1>2, <1>3, <1>6, SuffixEnds DEF UplinkTypeOK, NothingBeforeTheFirst, BufferIsNewest

LEMMA CaptureKeeps ==
  ASSUME UplinkInv, Capture
  PROVE  UplinkTypeOK' /\ NothingBeforeTheFirst' /\ BufferIsNewest' /\ UNCHANGED flushed
<1> USE DEF UplinkInv
<1>1. captured' = captured + 1 /\ pcm' = Offer(pcm, captured + 1) /\ UNCHANGED <<taken, samples, flushed>>
  BY DEF Capture
<1>2. pcm' \in Seq(Nat) /\ captured' \in Nat
  BY <1>1 DEF Offer, UplinkTypeOK
<1>3. Stream' = Stream
  BY <1>1 DEF Stream
<1> QED
  BY <1>1, <1>2, <1>3 DEF UplinkTypeOK, NothingBeforeTheFirst, BufferIsNewest

\* Whatever else happens leaves the two directions of the writer alone.
LEMMA OthersKeepUplink ==
  ASSUME [Next]_vars, ~CaptureStep, ~WriterStep
  PROVE  UNCHANGED uplink
<1>1. CASE UNCHANGED vars
  BY <1>1 DEF vars
<1>2. CASE Owner
  BY <1>2 DEF Owner
<1>3. CASE Attempt
  BY <1>3 DEF Attempt, SpawnPlayer, CreatePeer, Gather, ExchangeSdp, TakeChannel, FirstEvent,
              SendUpdate, SessionUpdated, SetupEndsBadly, Activated, WaitCancelled, WaitEvent,
              Loop, StopCapture, ClosePeer, JoinWriter, StopPlayer
<1>4. CASE Callback
  BY <1>4 DEF Callback, OnDataChannel, PeerEvent, TrackArrives, OnTrack
<1>5. CASE Task
  BY <1>5 DEF Task, WriterEnds, Decode, Play, DecoderFails
<1> QED
  BY <1>1, <1>2, <1>3, <1>4, <1>5 DEF Next

\* The capture task starts once, on the wake word, and once ended it does not come back.
LEMMA CaptureStartsOnce ==
  ASSUME at \in Early => capture = "none", [Next]_vars
  PROVE  /\ (at \in Early => capture = "none")'
         /\ capture = "ended" => capture' = "ended"
<1> USE DEF Early, Setup
<1>1. CASE UNCHANGED vars
  BY <1>1 DEF vars, media
<1>2. CASE Owner
  BY <1>2 DEF Owner, media
<1>3. CASE SpawnPlayer \/ CreatePeer \/ Gather \/ ExchangeSdp
  BY <1>3 DEF SpawnPlayer, CreatePeer, Gather, ExchangeSdp, ConnectFails, Return, media
<1>4. CASE TakeChannel \/ FirstEvent \/ SendUpdate \/ SessionUpdated \/ SetupEndsBadly
  BY <1>4 DEF TakeChannel, FirstEvent, SendUpdate, SessionUpdated, SetupEndsBadly, SetupFails, TearDown, media
<1>5. CASE Activated \/ WaitCancelled \/ WaitEvent
  BY <1>5 DEF Activated, WaitCancelled, WaitEvent, TearDown, Return, media
<1>6. CASE Loop \/ StopCapture \/ ClosePeer \/ JoinWriter \/ StopPlayer
  BY <1>6 DEF Loop, TearDown, StopCapture, ClosePeer, JoinWriter, StopPlayer, Return, media
<1>7. CASE Callback
  BY <1>7 DEF Callback, OnDataChannel, PeerEvent, TrackArrives, OnTrack, media
<1>8. CASE Task
  BY <1>8 DEF Task, CaptureStep, WriterStep, WriterEnds, Decode, DecoderFails, media
<1> QED
  BY <1>1, <1>2, <1>3, <1>4, <1>5, <1>6, <1>7, <1>8 DEF Next, Attempt

LEMMA UplinkStep == UplinkInv /\ [Next]_vars => UplinkInv'
<1> SUFFICES ASSUME UplinkInv, [Next]_vars
             PROVE  UplinkInv'
  OBVIOUS
<1>1. /\ (at \in Early => capture = "none")'
      /\ capture = "ended" => capture' = "ended"
  BY CaptureStartsOnce DEF UplinkInv, ClosedForGood
<1>2. UplinkTypeOK /\ NothingBeforeTheFirst /\ BufferIsNewest /\ (flushed => pcm = <<>> /\ capture = "ended")
  BY DEF UplinkInv, ClosedForGood
<1>3. CASE UNCHANGED uplink
  <2>1. UNCHANGED <<captured, pcm, taken, samples, flushed>>
    BY <1>3 DEF uplink
  <2>2. Stream' = Stream
    BY <2>1 DEF Stream
  <2> QED
    BY <1>1, <1>2, <2>1, <2>2
       DEF UplinkInv, UplinkTypeOK, ClosedForGood, NothingBeforeTheFirst, BufferIsNewest
<1>4. CASE CaptureStep
  <2>1. CASE UNCHANGED <<uplink, downlink>>
    BY <1>3, <2>1
  <2>2. CASE Capture
    <3>1. capture = "running" /\ ~flushed
      BY <1>2, <1>4 DEF CaptureStep
    <3> QED
      BY <1>1, <2>2, <3>1, CaptureKeeps DEF UplinkInv, ClosedForGood
  <2> QED
    BY <1>4, <2>1, <2>2 DEF CaptureStep
<1>5. CASE WriterStep
  <2>1. CASE TakeChunk
    BY <1>1, <2>1, TakeKeeps DEF UplinkInv, ClosedForGood
  <2>2. CASE capture = "ended" /\ Flush
    BY <1>1, <2>2, FlushKeeps DEF UplinkInv, ClosedForGood
  <2>3. CASE EncodeFrame
    <3>1. UNCHANGED <<pcm, flushed>>
      BY <2>3 DEF EncodeFrame
    <3> QED
      BY <1>1, <1>2, <2>3, <3>1, EncodeKeeps DEF UplinkInv, ClosedForGood
  <2> QED
    BY <1>5, <2>1, <2>2, <2>3 DEF WriterStep
<1> QED
  BY <1>3, <1>4, <1>5, OthersKeepUplink

\* The buffer of the Opus writer is the newest part of what the microphone gave, for any size of
\* the queue, the buffer and the frame (trim_stale_input, run_opus_writer).
THEOREM NewestKept == Spec => []BufferIsNewest
<1>1. UplinkInv => BufferIsNewest
  BY DEF UplinkInv
<1> QED
  BY <1>1, UplinkInit, UplinkStep, PTL DEF Spec

----------------------------------------------------------------------------
(* What an attempt holds on its way, and what it leaves.                   *)

Holdings ==
  /\ at \in Setup \cup Teardown \cup {"spawn", "connect", "gather", "sdp", "wait", "live", "done"}
  /\ at \in {"spawn", "connect"} => peer = "none" /\ ~rtcp
  /\ at = "spawn" => player = "none"
  /\ at \in Early \ {"wait"} => writer = "none"
  /\ lost => at = "done" /\ result = "err" /\ stopWriter /\ capture # "running"

TakenDown ==
  /\ at \in {"closePeer", "joinWriter", "stopPlayer", "done"} /\ capture = "running" => "capture" \in overdue
  /\ at \in {"joinWriter", "stopPlayer"} /\ peer # "closed" => "peer" \in overdue
  /\ at = "stopPlayer" => ~rtcp /\ writer # "running"

\* Of an attempt that has returned, in whatever way, the player is gone; so are the
\* microphone, the peer, the RTCP task and the writer, but where the timeout of the
\* microphone or the peer ran out, or the attempt was lost while it waited for the wake
\* word, its writer told to stop.  One that returned "ok" left none of them.
ReturnedClean ==
  at = "done" =>
    /\ player # "open"
    /\ capture = "running" => "capture" \in overdue
    /\ ~lost => (peer = "open" => "peer" \in overdue) /\ ~rtcp /\ writer # "running"
    /\ writer = "running" => stopWriter
    /\ result = "ok" => ~lost /\ overdue = {}

\* The microphone is opened by the wake word only.
MicrophoneAfterWake == capture # "none" => activated

AttemptInv == ClosedForGood /\ Holdings /\ TakenDown /\ ReturnedClean /\ MicrophoneAfterWake

LEMMA AttemptInit == Init => AttemptInv
BY DEF Init, AudioInit, AttemptInv, ClosedForGood, Holdings, TakenDown, ReturnedClean,
       MicrophoneAfterWake, Early, Setup, Teardown

LEMMA AttemptStep ==
  ASSUME AttemptInv, [Next]_vars
  PROVE  Holdings' /\ TakenDown' /\ ReturnedClean' /\ MicrophoneAfterWake'
<1> USE DEF AttemptInv, ClosedForGood, Holdings, TakenDown, ReturnedClean, MicrophoneAfterWake,
            Early, Setup, Teardown, signals, peerVars, media
<1>1. CASE UNCHANGED vars
  BY <1>1 DEF vars
<1>2. CASE Owner
  BY <1>2 DEF Owner, RequestCancel, Activate
<1>3. CASE SpawnPlayer
  BY <1>3 DEF SpawnPlayer, Return
<1>4. CASE CreatePeer
  BY <1>4 DEF CreatePeer, Close, Return
<1>5. CASE Gather
  BY <1>5 DEF Gather, ConnectFails, Close, Return
<1>6. CASE ExchangeSdp
  BY <1>6 DEF ExchangeSdp, ConnectFails, Close, Return
<1>7. CASE TakeChannel \/ SendUpdate \/ SetupEndsBadly
  BY <1>7 DEF TakeChannel, SendUpdate, SetupEndsBadly, SetupFails, TearDown
<1>8. CASE FirstEvent
  BY <1>8 DEF FirstEvent, SetupFails, TearDown
<1>9. CASE SessionUpdated
  BY <1>9 DEF SessionUpdated, SetupFails, TearDown
<1>10. CASE Activated \/ WaitCancelled
  BY <1>10 DEF Activated, WaitCancelled, TearDown
<1>11. CASE WaitEvent
  BY <1>11 DEF WaitEvent, Return
<1>12. CASE Loop \/ StopCapture \/ ClosePeer
  BY <1>12 DEF Loop, TearDown, StopCapture, ClosePeer, Close
<1>13. CASE JoinWriter
  BY <1>13 DEF JoinWriter
<1>14. CASE StopPlayer
  BY <1>14 DEF StopPlayer, Return
<1>15. CASE Callback
  BY <1>15 DEF Callback, OnDataChannel, PeerEvent, TrackArrives, OnTrack
<1>16. CASE Task
  BY <1>16 DEF Task, CaptureStep, WriterStep, WriterEnds, Decode, DecoderFails
<1> QED
  BY <1>1, <1>2, <1>3, <1>4, <1>5, <1>6, <1>7, <1>8, <1>9, <1>10, <1>11, <1>12, <1>13, <1>14, <1>15,
     <1>16 DEF Next, Attempt

\* The inductive invariant of an attempt: what it holds at each station, beside the writer's buffer.
THEOREM AttemptInvariant == Spec => [](UplinkInv /\ AttemptInv)
<1>1. Init => UplinkInv /\ AttemptInv
  BY UplinkInit, AttemptInit
<1>2. (UplinkInv /\ AttemptInv) /\ [Next]_vars => (UplinkInv /\ AttemptInv)'
  <2> SUFFICES ASSUME UplinkInv, AttemptInv, [Next]_vars
               PROVE  UplinkInv' /\ AttemptInv'
    OBVIOUS
  <2>1. UplinkInv'
    BY UplinkStep
  <2>2. Holdings' /\ TakenDown' /\ ReturnedClean' /\ MicrophoneAfterWake'
    BY AttemptStep
  <2> QED
    BY <2>1, <2>2 DEF UplinkInv, AttemptInv
<1> QED
  BY <1>1, <1>2, PTL DEF Spec

\* Whatever ended an attempt and wherever it was, it returns with nothing of its own left but what
\* a timeout was reported for or ignored, and the peer of one lost in the wait; an attempt that
\* returns well left nothing (AttemptResources::teardown and the early returns of run_once).
THEOREM NothingHeldOnReturn == Spec => []ReturnedClean
<1>1. UplinkInv /\ AttemptInv => ReturnedClean
  BY DEF AttemptInv
<1> QED
  BY <1>1, AttemptInvariant, PTL

\* The capture task runs only once the wake word has activated the attempt (wait_for_activation).
THEOREM WakeOpensCapture == Spec => []MicrophoneAfterWake
<1>1. UplinkInv /\ AttemptInv => MicrophoneAfterWake
  BY DEF AttemptInv
<1> QED
  BY <1>1, AttemptInvariant, PTL

\* What a returned attempt could not end in time neither hears nor sounds: no chunk reaches a writer,
\* no sample is encoded and no packet played after the return (AttemptResources::teardown).
SilentAfterReturn == [][at = "done" => UNCHANGED <<uplink, downlink>>]_vars

THEOREM NothingHeardOrPlayed == Spec => SilentAfterReturn
<1>1. AttemptInv /\ [Next]_vars => [at = "done" => UNCHANGED <<uplink, downlink>>]_vars
  <2> SUFFICES ASSUME AttemptInv, [Next]_vars, at = "done"
               PROVE  UNCHANGED <<uplink, downlink>>
    OBVIOUS
  <2>1. /\ player # "open"
        /\ writer = "running" => stopWriter /\ capture # "running"
    BY DEF AttemptInv, ReturnedClean, Holdings
  <2>2. CASE UNCHANGED vars
    BY <2>2 DEF vars
  <2>3. CASE Owner
    BY <2>3 DEF Owner
  <2>4. CASE Attempt
    BY <2>4 DEF Attempt, SpawnPlayer, CreatePeer, Gather, ExchangeSdp, TakeChannel, FirstEvent,
                SendUpdate, SessionUpdated, SetupEndsBadly, Setup, Activated, WaitCancelled, WaitEvent,
                Loop, StopCapture, ClosePeer, JoinWriter, StopPlayer
  <2>5. CASE Callback
    BY <2>5 DEF Callback, OnDataChannel, PeerEvent, TrackArrives, OnTrack
  <2>6. CASE Task
    BY <2>1, <2>6 DEF Task, CaptureStep, WriterStep, WriterEnds, Decode, DecoderFails
  <2> QED
    BY <2>2, <2>3, <2>4, <2>5, <2>6 DEF Next
<1>2. UplinkInv /\ AttemptInv => AttemptInv
  OBVIOUS
<1> QED
  BY <1>1, <1>2, AttemptInvariant, PTL DEF Spec, SilentAfterReturn

================================================================================
