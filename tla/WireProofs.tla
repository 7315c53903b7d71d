----------------------------- MODULE WireProofs -----------------------------
(***************************************************************************)
(* Proofs about Wire, for any messages, any sizes of what recv returns and *)
(* any limit of the buffer: however the bytes arrive, the receiving end    *)
(* cuts off the frames that were sent and reads from each what was sent,   *)
(* and a batch as long as client_send makes it fits the length byte.       *)
(***************************************************************************)
EXTENDS Wire, CodecProofs

-----------------------------------------------------------------------------
(* The frames of messages *)

LEMMA ControlFrames ==
    /\ \A nr \in Nat : SFrame(nr) \in WholeFrames
    /\ \A u \in Byte : UFrame(u) \in WholeFrames
<1>1. ASSUME NEW nr \in Nat PROVE SFrame(nr) \in WholeFrames
  <2>1. PICK h, b : h = <<Start, 4, 1, 0>> /\ b = Bytes(2 * nr, 2)
    OBVIOUS
  <2>2. h \in Seq(Byte) /\ Len(h) = 4 /\ h[1] = Start /\ h[2] = 4
    BY <2>1 DEF Start, Byte
  <2>3. b \in Seq(Byte) /\ Len(b) = 2
    BY <2>1, BytesAre
  <2>4. Headed(h, 4, 4)
    BY <2>2 DEF Headed
  <2>5. ASSUME NEW n, NEW len \in Nat, len >= 2, Headed(h, n, len)
        PROVE  Headed(h \o b, n, len + Len(b))
    BY <2>3, <2>5, RestOfFrame
  <2>6. Headed(h \o b, 4, 4 + Len(b))
    BY <2>4, <2>5
  <2>7. SFrame(nr) = h \o b
    BY <2>1 DEF SFrame
  <2>8. 4 + Len(b) = 6 /\ 6 - 2 = 4
    BY <2>3
  <2>9. Headed(SFrame(nr), 6 - 2, 6)
    BY <2>6, <2>7, <2>8
  <2>10. PICK f : f = SFrame(nr)
    OBVIOUS
  <2>11. f \in Seq(Byte) /\ Len(f) = 6 /\ f[1] = Start /\ f[2] = 4
    BY <2>9, <2>10 DEF Headed
  <2>12. Len(f) >= 6 /\ f[2] = Len(f) - 2
    BY <2>11
  <2>13. f \in WholeFrames
    BY <2>11, <2>12 DEF WholeFrames
  <2> QED BY <2>10, <2>13
<1>2. ASSUME NEW u \in Byte PROVE UFrame(u) \in WholeFrames
  <2>1. 0 \in Byte /\ 4 \in Byte /\ Start \in Byte
    BY DEF Byte, Start
  <2> QED BY <2>1 DEF UFrame, WholeFrames
<1> QED BY <1>1, <1>2

LEMMA MessageFrames ==
    ASSUME NEW m, m.kind \in {"I", "SQ", "S", "U"}, Legal(m), FromBatch(m) => ~BuildRaises(m)
    PROVE  Encoded(m) \in WholeFrames
<1>1. CASE m.kind \in {"I", "SQ"}
  <2>1. LegalBatch(m)
    BY <1>1 DEF Legal
  <2>2. /\ m.asdu \in IF m.kind = "I" THEN Encodable \union {Setpoint} ELSE Encodable
        /\ m.events \in Seq(Events) /\ m.events # <<>>
        /\ m.ns \in Nat /\ m.nr \in Nat /\ m.cot \in Nat /\ m.ca \in Nat
        /\ IF FromBatch(m) THEN Len(m.events) <= MaxObj(m.asdu)
           ELSE Len(m.events) < 128 /\ ValuesInRange(m) /\ Len(Encoded(m)) <= 257
    BY <2>1 DEF LegalBatch, SequenceNumbers, Words
  <2>3. Len(m.events) \in Nat
    BY <2>2
  <2>4. CASE FromBatch(m)
    <3>1. m.kind = "I" /\ m.asdu \in Encodable /\ Len(m.events) <= MaxObj(m.asdu)
      BY <2>2, <2>4 DEF FromBatch
    <3>2. Len(m.events) < 128
      BY <2>3, <3>1, BatchFits
    <3>3. BuildIFrame(m) \in WholeFrames
      BY <2>2, <2>3, <2>4, <3>1, <3>2, BatchFrames
    <3>4. m.asdu # Setpoint
      BY <3>1, TypeNumbers
    <3> QED BY <3>1, <3>3, <3>4 DEF Encoded
  <2>5. CASE m.kind = "I" /\ m.asdu = Setpoint
    <3>1. ~FromBatch(m)
      BY <2>5, TypeNumbers DEF FromBatch
    <3>2. Len(m.events) < 128 /\ Len(Encoded(m)) <= 257
      BY <2>2, <3>1
    <3>3. Encoded(m) = SetpointFrame(m)
      BY <2>5 DEF Encoded
    <3>4. PICK body : body = FlattenSeq([i \in 1 .. Len(m.events) |->
               Bytes(m.events[i].ioa, 3) \o Bytes(m.events[i].val, 4) \o <<0>>])
      OBVIOUS
    <3>5. body \in Seq(Byte)
      BY <2>2, <3>4, SetpointBody
    <3>6. Encoded(m) = IFrame(m.ns, m.nr, Asdu(Setpoint, Len(m.events), m.cot, m.ca, body))
      BY <3>3, <3>4 DEF SetpointFrame
    <3>7. Setpoint \in Byte /\ Len(m.events) \in Byte
      BY <2>3, <3>2, ByteRange DEF Setpoint
    <3> QED BY <2>2, <3>2, <3>5, <3>6, <3>7, OtherFrames
  <2>6. CASE m.kind = "SQ"
    <3>1. ~FromBatch(m) /\ m.asdu \in Encodable
      BY <2>2, <2>6 DEF FromBatch
    <3>2. Len(m.events) < 128 /\ Len(Encoded(m)) <= 257 /\ ValuesInRange(m)
      BY <2>2, <3>1
    <3>3. Encoded(m) = Sequential(m)
      BY <2>6 DEF Encoded
    <3>4. PICK body : body = Bytes(m.events[1].ioa, 3) \o FlattenSeq([i \in 1 .. Len(m.events) |->
               SubSeq(EncObj(m.asdu, m.events[i]), 4, 3 + SizeOf(m.asdu))])
      OBVIOUS
    <3>5. \A i \in 1 .. Len(m.events) : InRange(m.asdu, m.events[i])
      BY <3>2 DEF ValuesInRange
    <3>6. body \in Seq(Byte)
      BY <2>2, <3>1, <3>4, <3>5, SequentialBody
    <3>7. Encoded(m) = IFrame(m.ns, m.nr, Asdu(m.asdu, 128 + Len(m.events), m.cot, m.ca, body))
      BY <3>3, <3>4 DEF Sequential
    <3>8. m.asdu \in Byte
      BY <3>1, TypeNumbers
    <3>9. 128 + Len(m.events) \in Byte
      BY <2>3, <3>2, ByteRange
    <3>10. PICK f, c : f = Encoded(m) /\ c = 128 + Len(m.events)
      OBVIOUS
    <3>11. f = IFrame(m.ns, m.nr, Asdu(m.asdu, c, m.cot, m.ca, body)) /\ Len(f) <= 257
           /\ c \in Byte
      BY <3>2, <3>7, <3>9, <3>10
    <3>12. m.cot \in Nat /\ m.ca \in Nat /\ m.ns \in Nat /\ m.nr \in Nat
      BY <2>2
    <3>13. f \in WholeFrames
      BY <3>6, <3>8, <3>11, <3>12, OtherFrames
    <3> QED BY <3>10, <3>13
  <2> QED BY <1>1, <2>2, <2>4, <2>5, <2>6 DEF FromBatch
<1>2. CASE m.kind = "S"
  <2>1. m.nr \in Nat
    BY <1>2 DEF Legal, SequenceNumbers
  <2> QED BY <1>2, <2>1, ControlFrames DEF Encoded
<1>3. CASE m.kind = "U"
  <2>1. m.u \in Byte
    BY <1>3 DEF Legal, Byte
  <2> QED BY <1>3, <2>1, ControlFrames DEF Encoded
<1> QED BY <1>1, <1>2, <1>3

LEMMA StrayBytes ==
    ASSUME NEW m, m.kind = "stray", Legal(m)
    PROVE  Encoded(m) \in Seq(Byte) /\ \A i \in 1 .. Len(Encoded(m)) : Encoded(m)[i] # Start
<1>1. Encoded(m) = m.bytes /\ m.bytes \in Seq(Byte \ {Start})
  BY DEF Encoded, Legal, Byte
<1>2. PICK b : b = m.bytes
  OBVIOUS
<1>3. \A i \in 1 .. Len(b) : b[i] \in Byte /\ b[i] # Start
  BY <1>1, <1>2
<1>4. b \in Seq(Byte)
  BY <1>1, <1>2, <1>3
<1> QED BY <1>1, <1>2, <1>3, <1>4

-----------------------------------------------------------------------------
(* Frames within bytes *)

\* Of the frames F, all behind the first d lie in the bytes b: the i-th behind at[i] of
\* them, in their order, not into one another, and every start byte is part of one.
Placed(b, F, d, at) ==
    /\ at \in [Nat -> Int]
    /\ \A i \in d + 1 .. Len(F) :
          /\ at[i] >= 0 /\ at[i] + Len(F[i]) <= Len(b)
          /\ \A k \in 1 .. Len(F[i]) : b[at[i] + k] = F[i][k]
    /\ \A i, j \in d + 1 .. Len(F) : i < j => at[i] + Len(F[i]) <= at[j]
    /\ \A p \in 1 .. Len(b) :
          b[p] = Start => \E i \in d + 1 .. Len(F) : at[i] < p /\ p <= at[i] + Len(F[i])

LEMMA WholeFrame ==
    ASSUME NEW f \in WholeFrames
    PROVE  /\ f \in Seq(Byte) /\ Len(f) \in Nat /\ Len(f) >= 6
           /\ f[1] = Start /\ f[2] = Len(f) - 2
BY DEF WholeFrames

\* A frame begins with a start byte, where it lies.
LEMMA StartOfPlaced ==
    ASSUME NEW b, NEW F \in Seq(WholeFrames), NEW d \in Nat, NEW at, Placed(b, F, d, at),
           NEW i \in d + 1 .. Len(F)
    PROVE  /\ at[i] \in Nat /\ F[i] \in WholeFrames /\ Len(F[i]) \in Nat /\ Len(F[i]) >= 6
           /\ b[at[i] + 1] = Start /\ b[at[i] + 2] = Len(F[i]) - 2
           /\ at[i] + Len(F[i]) <= Len(b)
<1>1. i \in Nat /\ i \in 1 .. Len(F)
  OBVIOUS
<1>2. F[i] \in WholeFrames
  BY <1>1
<1>3. Len(F[i]) \in Nat /\ Len(F[i]) >= 6 /\ F[i][1] = Start /\ F[i][2] = Len(F[i]) - 2
  BY <1>2, WholeFrame
<1>4. at[i] \in Int /\ at[i] >= 0 /\ at[i] + Len(F[i]) <= Len(b)
      /\ \A k \in 1 .. Len(F[i]) : b[at[i] + k] = F[i][k]
  BY <1>1 DEF Placed
<1>5. 1 \in 1 .. Len(F[i]) /\ 2 \in 1 .. Len(F[i])
  BY <1>3
<1> QED BY <1>2, <1>3, <1>4, <1>5, SMTT(30)

\* Behind bytes without a start byte no frame has begun yet.
LEMMA NoneBefore ==
    ASSUME NEW b, NEW F \in Seq(WholeFrames), NEW d \in Nat, NEW at, Placed(b, F, d, at),
           NEW n \in Nat, \A q \in 1 .. n : b[q] # Start
    PROVE  \A i \in d + 1 .. Len(F) : at[i] >= n
<1> SUFFICES ASSUME NEW i \in d + 1 .. Len(F) PROVE at[i] >= n
  OBVIOUS
<1>1. at[i] \in Nat /\ b[at[i] + 1] = Start
  BY StartOfPlaced
<1>2. ~(at[i] + 1 \in 1 .. n)
  BY <1>1
<1> QED BY <1>1, <1>2

\* The first start byte is that of the first frame.
LEMMA FirstFrame ==
    ASSUME NEW b, NEW F \in Seq(WholeFrames), NEW d \in Nat, NEW at, Placed(b, F, d, at),
           NEW p \in 1 .. Len(b), b[p] = Start, \A q \in 1 .. p - 1 : b[q] # Start
    PROVE  d + 1 \in d + 1 .. Len(F) /\ at[d + 1] = p - 1
<1>1. PICK i \in d + 1 .. Len(F) : at[i] < p /\ p <= at[i] + Len(F[i])
  BY DEF Placed
<1>2. d + 1 \in d + 1 .. Len(F)
  BY <1>1
<1>3. p \in Nat /\ p - 1 \in Nat
  OBVIOUS
<1>4. at[i] >= p - 1 /\ at[d + 1] >= p - 1
  <2>1. PICK n \in Nat : n = p - 1
    BY <1>3
  <2>2. \A k \in d + 1 .. Len(F) : at[k] >= n
    BY <2>1, NoneBefore
  <2> QED BY <1>2, <2>1, <2>2
<1>5. at[i] \in Nat /\ at[d + 1] \in Nat /\ Len(F[d + 1]) \in Nat /\ Len(F[d + 1]) >= 6
  BY <1>2, StartOfPlaced
<1>6. at[i] = p - 1
  BY <1>1, <1>3, <1>4, <1>5
<1>7. CASE i = d + 1
  BY <1>2, <1>6, <1>7
<1>8. CASE i # d + 1
  <2>1. d + 1 < i
    BY <1>8
  <2>2. at[d + 1] + Len(F[d + 1]) <= at[i]
    BY <1>2, <2>1 DEF Placed
  <2> QED BY <1>3, <1>4, <1>5, <1>6, <2>2
<1> QED BY <1>7, <1>8

\* c is b without its first n bytes, which hold the first of the frames, if e is d + 1, or
\* no part of one
LEMMA Dropped ==
    ASSUME NEW b, NEW F \in Seq(WholeFrames), NEW d \in Nat, NEW at, Placed(b, F, d, at),
           NEW c, NEW n \in Nat, Len(b) \in Nat, Len(c) \in Nat, Len(b) = Len(c) + n,
           \A p \in 1 .. Len(c) : c[p] = b[n + p],
           NEW e \in Nat, \/ e = d
                          \/ e = d + 1 /\ e <= Len(F) /\ at[e] + Len(F[e]) <= n,
           \A i \in e + 1 .. Len(F) : at[i] >= n
    PROVE  \E a : Placed(c, F, e, a)
<1> DEFINE a == [i \in Nat |-> at[i] - n]
<1>1. at \in [Nat -> Int] /\ a \in [Nat -> Int]
  BY DEF Placed
<1>2. \A i \in Nat : a[i] = at[i] - n /\ at[i] \in Int
  BY <1>1
<1> HIDE DEF a
<1>3. ASSUME NEW i \in e + 1 .. Len(F)
      PROVE  /\ a[i] >= 0 /\ a[i] + Len(F[i]) <= Len(c)
             /\ \A k \in 1 .. Len(F[i]) : c[a[i] + k] = F[i][k]
  <2>1. i \in Nat /\ i \in d + 1 .. Len(F)
    OBVIOUS
  <2>2. at[i] \in Nat /\ Len(F[i]) \in Nat /\ at[i] + Len(F[i]) <= Len(b) /\ at[i] >= n
    BY <2>1, StartOfPlaced
  <2>3. a[i] >= 0 /\ a[i] + Len(F[i]) <= Len(c) /\ a[i] = at[i] - n
    BY <1>2, <2>1, <2>2
  <2>4. ASSUME NEW k \in 1 .. Len(F[i]) PROVE c[a[i] + k] = F[i][k]
    <3>1. b[at[i] + k] = F[i][k]
      BY <2>1 DEF Placed
    <3>2. PICK x, y, l : x = at[i] /\ y = a[i] /\ l = Len(F[i])
      OBVIOUS
    <3>3. /\ x \in Nat /\ y = x - n /\ x >= n /\ l \in Nat /\ k \in 1 .. l
          /\ y + l <= Len(c)
      BY <2>2, <2>3, <3>2
    <3>4. y + k \in 1 .. Len(c) /\ n + (y + k) = x + k
      BY <3>3
    <3>5. a[i] + k \in 1 .. Len(c) /\ n + (a[i] + k) = at[i] + k
      BY <3>2, <3>4
    <3> QED BY <3>1, <3>5
  <2> QED BY <2>3, <2>4
<1>4. ASSUME NEW i \in e + 1 .. Len(F), NEW j \in e + 1 .. Len(F), i < j
      PROVE  a[i] + Len(F[i]) <= a[j]
  <2>1. i \in d + 1 .. Len(F) /\ j \in d + 1 .. Len(F) /\ i \in Nat /\ j \in Nat
    OBVIOUS
  <2>2. at[i] + Len(F[i]) <= at[j]
    BY <1>4, <2>1 DEF Placed
  <2>3. Len(F[i]) \in Nat
    BY <2>1, StartOfPlaced
  <2>4. PICK x, y, l : x = at[i] /\ y = at[j] /\ l = Len(F[i])
    OBVIOUS
  <2>5. x \in Int /\ y \in Int /\ l \in Nat /\ x + l <= y
    BY <1>2, <2>1, <2>2, <2>3, <2>4
  <2>6. x - n + l <= y - n
    BY <2>5
  <2> QED BY <1>2, <2>1, <2>4, <2>6
<1>5. ASSUME NEW p \in 1 .. Len(c), c[p] = Start
      PROVE  \E i \in e + 1 .. Len(F) : a[i] < p /\ p <= a[i] + Len(F[i])
  <2>1. n + p \in 1 .. Len(b) /\ b[n + p] = Start
    BY <1>5
  <2>2. PICK i \in d + 1 .. Len(F) : at[i] < n + p /\ n + p <= at[i] + Len(F[i])
    BY <2>1 DEF Placed
  <2>3. i \in Nat /\ at[i] \in Nat /\ Len(F[i]) \in Nat
    BY StartOfPlaced
  <2>4. i \in e + 1 .. Len(F)
    BY <2>2, <2>3
  <2>5. a[i] < p /\ p <= a[i] + Len(F[i])
    BY <1>2, <2>2, <2>3
  <2> QED BY <2>4, <2>5
<1>6. Placed(c, F, e, a)
  BY <1>1, <1>3, <1>4, <1>5 DEF Placed
<1> QED BY <1>6

\* c is b with bytes behind it that hold no start byte
LEMMA StrayAdded ==
    ASSUME NEW b, NEW F \in Seq(WholeFrames), NEW d \in Nat, NEW at, Placed(b, F, d, at),
           NEW c, Len(b) \in Nat, Len(c) \in Nat, Len(b) <= Len(c),
           \A p \in 1 .. Len(b) : c[p] = b[p],
           \A p \in Len(b) + 1 .. Len(c) : c[p] # Start
    PROVE  Placed(c, F, d, at)
<1>1. at \in [Nat -> Int]
  BY DEF Placed
<1>2. ASSUME NEW i \in d + 1 .. Len(F)
      PROVE  /\ at[i] >= 0 /\ at[i] + Len(F[i]) <= Len(c)
             /\ \A k \in 1 .. Len(F[i]) : c[at[i] + k] = F[i][k]
  <2>1. at[i] \in Nat /\ Len(F[i]) \in Nat /\ at[i] + Len(F[i]) <= Len(b)
    BY StartOfPlaced
  <2>2. ASSUME NEW k \in 1 .. Len(F[i]) PROVE c[at[i] + k] = F[i][k]
    <3>1. b[at[i] + k] = F[i][k]
      BY DEF Placed
    <3>2. at[i] + k \in 1 .. Len(b)
      BY <2>1
    <3> QED BY <3>1, <3>2
  <2> QED BY <2>1, <2>2
<1>3. \A i, j \in d + 1 .. Len(F) : i < j => at[i] + Len(F[i]) <= at[j]
  BY DEF Placed
<1>4. ASSUME NEW p \in 1 .. Len(c), c[p] = Start
      PROVE  \E i \in d + 1 .. Len(F) : at[i] < p /\ p <= at[i] + Len(F[i])
  <2>1. p \in 1 .. Len(b)
    BY <1>4
  <2>2. b[p] = Start
    BY <1>4, <2>1
  <2> QED BY <2>1, <2>2 DEF Placed
<1> QED BY <1>1, <1>2, <1>3, <1>4 DEF Placed

\* c is b with the frame f behind it
LEMMA FrameAdded ==
    ASSUME NEW b, NEW F \in Seq(WholeFrames), NEW d \in Nat, d <= Len(F),
           NEW at, Placed(b, F, d, at), NEW f \in WholeFrames,
           NEW c, Len(b) \in Nat, Len(c) = Len(b) + Len(f),
           \A p \in 1 .. Len(b) : c[p] = b[p],
           \A k \in 1 .. Len(f) : c[Len(b) + k] = f[k]
    PROVE  \E a : Placed(c, Append(F, f), d, a)
<1> DEFINE G == Append(F, f)
           l == Len(F) + 1
           a == [at EXCEPT ![l] = Len(b)]
<1>1. /\ Len(F) \in Nat /\ l \in Nat /\ Len(G) = l /\ G[l] = f
      /\ \A i \in 1 .. Len(F) : G[i] = F[i]
  OBVIOUS
<1>2. at \in [Nat -> Int]
  BY DEF Placed
<1>3. a \in [Nat -> Int] /\ a[l] = Len(b) /\ \A i \in Nat : i # l => a[i] = at[i]
  BY <1>1, <1>2
<1> HIDE DEF G, a
<1>4. Len(f) \in Nat
  BY WholeFrame
<1>5. \A i \in d + 1 .. l : i # l => i \in d + 1 .. Len(F)
  BY <1>1
<1>6. ASSUME NEW i \in d + 1 .. Len(F)
      PROVE  /\ i # l /\ a[i] = at[i] /\ G[i] = F[i]
             /\ a[i] \in Nat /\ Len(F[i]) \in Nat /\ a[i] + Len(F[i]) <= Len(b)
  <2>1. i \in Nat /\ i \in 1 .. Len(F) /\ i # l
    BY <1>1
  <2>2. a[i] = at[i] /\ G[i] = F[i]
    BY <1>1, <1>3, <2>1
  <2>3. at[i] \in Nat /\ Len(F[i]) \in Nat /\ at[i] + Len(F[i]) <= Len(b)
    BY StartOfPlaced
  <2> QED BY <2>1, <2>2, <2>3
<1>7. ASSUME NEW i \in d + 1 .. l
      PROVE  /\ a[i] >= 0 /\ a[i] + Len(G[i]) <= Len(c)
             /\ \A k \in 1 .. Len(G[i]) : c[a[i] + k] = G[i][k]
  <2>1. CASE i = l
    <3>1. a[i] = Len(b) /\ G[i] = f
      BY <1>1, <1>3, <2>1
    <3> QED BY <1>4, <3>1
  <2>2. CASE i # l
    <3>1. i \in d + 1 .. Len(F)
      BY <1>5, <2>2
    <3>2. /\ a[i] = at[i] /\ G[i] = F[i]
          /\ a[i] \in Nat /\ Len(F[i]) \in Nat /\ a[i] + Len(F[i]) <= Len(b)
      BY <1>6, <3>1
    <3>3. ASSUME NEW k \in 1 .. Len(F[i]) PROVE c[a[i] + k] = F[i][k]
      <4>1. b[a[i] + k] = F[i][k]
        BY <3>1, <3>2 DEF Placed
      <4>2. a[i] + k \in 1 .. Len(b)
        BY <3>2
      <4> QED BY <4>1, <4>2
    <3> QED BY <1>4, <3>2, <3>3
  <2> QED BY <2>1, <2>2
<1>8. ASSUME NEW i \in d + 1 .. l, NEW j \in d + 1 .. l, i < j
      PROVE  a[i] + Len(G[i]) <= a[j]
  <2>1. i # l
    BY <1>1, <1>8
  <2>2. i \in d + 1 .. Len(F)
    BY <1>5, <2>1
  <2>3. /\ a[i] = at[i] /\ G[i] = F[i]
        /\ a[i] \in Nat /\ Len(F[i]) \in Nat /\ a[i] + Len(F[i]) <= Len(b)
    BY <1>6, <2>2
  <2>4. CASE j = l
    BY <1>3, <2>3, <2>4
  <2>5. CASE j # l
    <3>1. j \in d + 1 .. Len(F) /\ a[j] = at[j]
      BY <1>5, <1>6, <2>5
    <3>2. at[i] + Len(F[i]) <= at[j]
      BY <1>8, <2>2, <3>1 DEF Placed
    <3> QED BY <2>3, <3>1, <3>2
  <2> QED BY <2>4, <2>5
<1>9. ASSUME NEW p \in 1 .. Len(c), c[p] = Start
      PROVE  \E i \in d + 1 .. l : a[i] < p /\ p <= a[i] + Len(G[i])
  <2>1. CASE p \in 1 .. Len(b)
    <3>1. b[p] = Start
      BY <1>9, <2>1
    <3>2. PICK i \in d + 1 .. Len(F) : at[i] < p /\ p <= at[i] + Len(F[i])
      BY <2>1, <3>1 DEF Placed
    <3>3. a[i] = at[i] /\ G[i] = F[i]
      BY <1>6
    <3>4. i \in d + 1 .. l
      BY <1>1
    <3> QED BY <3>2, <3>3, <3>4
  <2>2. CASE p \notin 1 .. Len(b)
    <3>1. l \in d + 1 .. l
      BY <1>1
    <3>2. Len(b) < p /\ p <= Len(b) + Len(f)
      BY <1>4, <2>2
    <3> QED BY <1>1, <1>3, <3>1, <3>2
  <2> QED BY <2>1, <2>2
<1>10. Placed(c, G, d, a)
  BY <1>1, <1>3, <1>7, <1>8, <1>9 DEF Placed
<1> QED BY <1>10 DEF G

-----------------------------------------------------------------------------
(* The inductive invariant *)

FrameOf(m) == Encoded(m)
Frames     == [i \in 1 .. Len(sent) |-> FrameOf(sent[i])]
Origin(e)  == MessagesOf(IF e = "client" THEN ServerScripts ELSE ClientScripts)

\* What is sent comes from a script, and a batch that build_i_frame raises on is no frame.
Sendable ==
    /\ script \in Seq(Origin(end)) /\ sent \in Seq(Origin(end))
    /\ \A i \in 1 .. Len(sent) :
          sent[i].kind # "stray" /\ (FromBatch(sent[i]) => ~BuildRaises(sent[i]))
    /\ \A m \in raised : FromBatch(m) /\ BuildRaises(m)

\* Each frame was cut off as it was sent, in its order.
Delivered ==
    /\ got \in Seq({Seen(end, f) : f \in WholeFrames}) /\ Len(got) <= Len(sent)
    /\ \A i \in 1 .. Len(got) : got[i] = Seen(end, Encoded(sent[i]))

\* The others lie in the bytes that the receiver has or that are under way.
Chopped == \E at : Placed(rx_buf \o stream, Frames, Len(got), at)

\* What waits for more bytes is a part of one frame.
PartOfOne ==
    rec = "recv" =>
        \/ Len(rx_buf) < 6
        \/ Len(got) < Len(sent) /\ Len(rx_buf) < Len(Encoded(sent[Len(got) + 1]))

\* What the frames that were cut off say is what the frames that were sent say.
Reassembled ==
    /\ Len(got) <= Len(sent)
    /\ \A i \in 1 .. Len(got) : got[i] = Seen(end, Encoded(sent[i]))

IInv == TypeOK /\ Sendable /\ Delivered /\ Chopped /\ PartOfOne /\ rec # "overflow"

-----------------------------------------------------------------------------
(* Facts about a state *)

LEMMA MessagesLegal ==
    ASSUME NEW m \in Messages
    PROVE  /\ m.kind \in {"I", "SQ", "S", "U", "stray"} /\ Legal(m)
           /\ m.kind # "stray" /\ (FromBatch(m) => ~BuildRaises(m)) => Encoded(m) \in WholeFrames
BY WireAssumption, MessageFrames

LEMMA OriginMessages ==
    ASSUME NEW e, NEW m \in Origin(e)
    PROVE  m \in Messages
BY DEF Origin, Messages, MessagesOf

LEMMA BufferTypes ==
    ASSUME TypeOK
    PROVE  /\ rx_buf \in Seq(Byte) /\ stream \in Seq(Byte)
           /\ Len(rx_buf) \in Nat /\ Len(stream) \in Nat
           /\ end \in {"client", "server"} /\ rec \in {"recv", "loop", "overflow"}
<1>1. rx_buf \in Seq(Byte) /\ stream \in Seq(Byte)
  BY DEF TypeOK, Byte
<1> QED BY <1>1 DEF TypeOK

LEMMA SentFrames ==
    ASSUME Sendable
    PROVE  /\ Frames \in Seq(WholeFrames) /\ Len(Frames) = Len(sent) /\ Len(sent) \in Nat
           /\ \A i \in 1 .. Len(sent) : /\ Frames[i] = Encoded(sent[i])
                                        /\ sent[i] \in Origin(end) /\ sent[i] \in Messages
<1>1. Len(sent) \in Nat /\ \A i \in 1 .. Len(sent) : sent[i] \in Origin(end)
  BY DEF Sendable
<1>2. ASSUME NEW i \in 1 .. Len(sent)
      PROVE  /\ sent[i] \in Origin(end) /\ sent[i] \in Messages
             /\ FrameOf(sent[i]) \in WholeFrames /\ FrameOf(sent[i]) = Encoded(sent[i])
  <2>1. sent[i] \in Origin(end) /\ sent[i] \in Messages
    BY <1>1, OriginMessages
  <2>2. sent[i].kind # "stray" /\ (FromBatch(sent[i]) => ~BuildRaises(sent[i]))
    BY DEF Sendable
  <2> QED BY <2>1, <2>2, MessagesLegal DEF FrameOf
<1>3. Frames \in Seq(WholeFrames) /\ Len(Frames) = Len(sent)
      /\ \A i \in 1 .. Len(sent) : Frames[i] = FrameOf(sent[i])
  BY <1>1, <1>2 DEF Frames
<1> QED BY <1>1, <1>2, <1>3

LEMMA Rest ==
    ASSUME NEW r \in Seq(Byte), NEW p \in 1 .. Len(r) + 1
    PROVE  /\ SubSeq(r, p, Len(r)) \in Seq(Byte)
           /\ Len(SubSeq(r, p, Len(r))) = Len(r) - (p - 1)
           /\ \A k \in 1 .. Len(SubSeq(r, p, Len(r))) : SubSeq(r, p, Len(r))[k] = r[p - 1 + k]
<1>1. Len(r) \in Nat /\ Len(r) \in p - 1 .. Len(r)
  OBVIOUS
<1>2. /\ SubSeq(r, p, Len(r)) \in Seq(Byte) /\ Len(SubSeq(r, p, Len(r))) = Len(r) - p + 1
      /\ \A k \in 1 .. Len(r) - p + 1 : SubSeq(r, p, Len(r))[k] = r[p + k - 1]
  BY <1>1, Part
<1>3. Len(r) - p + 1 = Len(r) - (p - 1) /\ \A k \in Nat : p + k - 1 = p - 1 + k
  BY <1>1
<1> QED BY <1>2, <1>3

LEMMA FirstOf ==
    ASSUME NEW r \in Seq(Byte), NEW p, p = SelectInSeq(r, LAMBDA byte : byte = Start)
    PROVE  \/ p = 0 /\ \A q \in 1 .. Len(r) : r[q] # Start
           \/ p \in 1 .. Len(r) /\ r[p] = Start /\ \A q \in 1 .. p - 1 : r[q] # Start
<1> DEFINE I == {i \in 1 .. Len(r) : r[i] = Start}
<1>1. p = IF I # {} THEN (CHOOSE x \in I : \A y \in I : x <= y) ELSE 0
  BY DEF SelectInSeq, Min
<1>2. CASE I = {}
  BY <1>1, <1>2
<1>3. CASE I # {}
  <2>1. I \in SUBSET Nat
    OBVIOUS
  <2>2. \E x \in I : \A y \in I : x <= y
    <3> HIDE DEF I
    <3> QED BY <1>3, <2>1, LeastElement
  <2>3. p \in I /\ \A y \in I : p <= y
    <3> HIDE DEF I
    <3> QED BY <1>1, <1>3, <2>2
  <2>4. p \in 1 .. Len(r) /\ r[p] = Start
    BY <2>3
  <2>5. ASSUME NEW q \in 1 .. p - 1 PROVE r[q] # Start
    <3>1. q \in 1 .. Len(r) /\ ~(p <= q)
      BY <2>4
    <3>2. q \notin I
      BY <2>3, <3>1
    <3> QED BY <3>1, <3>2
  <2> QED BY <2>4, <2>5
<1> QED BY <1>2, <1>3

\* The buffer from its first start byte on, if it has one.
LEMMA AlignedBuffer ==
    ASSUME rx_buf \in Seq(Byte)
    PROVE  \/ FirstStart = 0 /\ \A q \in 1 .. Len(rx_buf) : rx_buf[q] # Start
           \/ /\ FirstStart \in 1 .. Len(rx_buf) /\ rx_buf[FirstStart] = Start
              /\ \A q \in 1 .. FirstStart - 1 : rx_buf[q] # Start
              /\ Aligned \in Seq(Byte) /\ Len(Aligned) = Len(rx_buf) - (FirstStart - 1)
              /\ \A k \in 1 .. Len(Aligned) : Aligned[k] = rx_buf[FirstStart - 1 + k]
<1>1. PICK r, p, a : r = rx_buf /\ p = FirstStart /\ a = Aligned
  OBVIOUS
<1>2. r \in Seq(Byte) /\ p = SelectInSeq(r, LAMBDA byte : byte = Start) /\ a = SubSeq(r, p, Len(r))
  BY <1>1 DEF FirstStart, Aligned
<1>3. \/ p = 0 /\ \A q \in 1 .. Len(r) : r[q] # Start
      \/ p \in 1 .. Len(r) /\ r[p] = Start /\ \A q \in 1 .. p - 1 : r[q] # Start
  BY <1>2, FirstOf
<1>4. ASSUME p \in 1 .. Len(r)
      PROVE  /\ a \in Seq(Byte) /\ Len(a) = Len(r) - (p - 1)
             /\ \A k \in 1 .. Len(a) : a[k] = r[p - 1 + k]
  <2>1. r \in Seq(Byte) /\ a = SubSeq(r, p, Len(r))
    BY <1>2
  <2> QED BY <1>4, <2>1, Rest
<1> QED BY <1>1, <1>3, <1>4

-----------------------------------------------------------------------------
(* The invariant is inductive *)

LEMMA InitInvariant ==
    ASSUME Init
    PROVE  IInv
<1>1. /\ stream = <<>> /\ rx_buf = <<>> /\ rec = "recv"
      /\ raised = {} /\ sent = <<>> /\ got = <<>>
  BY DEF Init, BufferInit
<1>2. \/ end = "client" /\ script \in ServerScripts
      \/ end = "server" /\ script \in ClientScripts
  BY DEF Init
<1>3. script \in Seq(Origin(end)) /\ script \in Seq(Messages)
  <2>1. PICK scripts : /\ scripts = IF end = "client" THEN ServerScripts ELSE ClientScripts
                       /\ script \in scripts
    BY <1>2
  <2>2. script \in Seq(Messages)
    BY <1>2, WireAssumption
  <2>3. \A i \in 1 .. Len(script) : script[i] \in MessagesOf(scripts)
    BY <2>1 DEF MessagesOf
  <2>4. script \in Seq(MessagesOf(scripts))
    BY <2>2, <2>3
  <2> QED BY <2>1, <2>2, <2>4 DEF Origin
<1>4. TypeOK
  BY <1>1, <1>2, <1>3 DEF TypeOK
<1>5. Sendable /\ Delivered /\ PartOfOne
  BY <1>1, <1>3 DEF Sendable, Delivered, PartOfOne
<1>6. Chopped
  <2>1. PICK b, F, d, at : /\ b = rx_buf \o stream /\ F = Frames /\ d = Len(got)
                           /\ at = [i \in Nat |-> 0]
    OBVIOUS
  <2>2. Len(b) = 0 /\ Len(F) = 0 /\ d = 0 /\ at \in [Nat -> Int]
    BY <1>1, <2>1 DEF Frames
  <2>3. Placed(b, F, d, at)
    BY <2>2 DEF Placed
  <2> QED BY <2>1, <2>3 DEF Chopped
<1> QED BY <1>1, <1>4, <1>5, <1>6 DEF IInv

\* A receiver that has not cut off a frame leaves all that was sent and made of it.
LEMMA NothingCut ==
    ASSUME Sendable, Delivered, UNCHANGED <<end, raised, script, sent, got>>
    PROVE  Sendable' /\ Delivered' /\ Frames' = Frames
BY DEF Sendable, Delivered, Frames

\* Both ends' bytes one behind the other.
LEMMA Bytewise ==
    ASSUME NEW r \in Seq(Byte), NEW s \in Seq(Byte)
    PROVE  /\ r \o s \in Seq(Byte) /\ Len(r \o s) \in Nat /\ Len(r \o s) = Len(r) + Len(s)
           /\ \A p \in 1 .. Len(r) : (r \o s)[p] = r[p]
           /\ \A p \in 1 .. Len(s) : (r \o s)[Len(r) + p] = s[p]
<1>1. /\ r \o s \in Seq(Byte) /\ Len(r \o s) = Len(r) + Len(s)
      /\ \A p \in 1 .. Len(r) : (r \o s)[p] = r[p]
      /\ \A p \in 1 .. Len(s) : (r \o s)[Len(r) + p] = s[p]
  BY JoinedBytes
<1>2. Len(r) \in Nat /\ Len(s) \in Nat
  OBVIOUS
<1> QED BY <1>1, <1>2

LEMMA JoinedBehind ==
    ASSUME NEW r \in Seq(Byte), NEW s \in Seq(Byte), NEW f \in Seq(Byte),
           NEW t, t = s \o f, NEW b, b = r \o s, NEW c, c = r \o t
    PROVE  /\ Len(b) \in Nat /\ Len(f) \in Nat /\ Len(c) = Len(b) + Len(f)
           /\ \A p \in 1 .. Len(b) : c[p] = b[p]
           /\ \A k \in 1 .. Len(f) : c[Len(b) + k] = f[k]
<1>1. Len(r) \in Nat /\ Len(s) \in Nat /\ Len(f) \in Nat
  OBVIOUS
<1>2. /\ t \in Seq(Byte) /\ Len(t) = Len(s) + Len(f)
      /\ \A k \in 1 .. Len(s) : t[k] = s[k]
      /\ \A k \in 1 .. Len(f) : t[Len(s) + k] = f[k]
  BY Bytewise
<1>3. /\ Len(c) = Len(r) + Len(t)
      /\ \A k \in 1 .. Len(r) : c[k] = r[k]
      /\ \A k \in 1 .. Len(t) : c[Len(r) + k] = t[k]
  BY <1>2, Bytewise
<1>4. /\ Len(b) = Len(r) + Len(s)
      /\ \A k \in 1 .. Len(r) : b[k] = r[k]
      /\ \A k \in 1 .. Len(s) : b[Len(r) + k] = s[k]
  BY Bytewise
<1>5. Len(b) \in Nat /\ Len(c) = Len(b) + Len(f)
  <2>1. Len(c) = Len(r) + (Len(s) + Len(f))
    BY <1>2, <1>3
  <2> QED BY <1>1, <1>4, <2>1
<1>6. ASSUME NEW p \in 1 .. Len(b) PROVE c[p] = b[p]
  <2>1. CASE p \in 1 .. Len(r)
    BY <1>3, <1>4, <2>1
  <2>2. CASE p \notin 1 .. Len(r)
    <3>1. PICK k : k = p - Len(r)
      OBVIOUS
    <3>2. k \in 1 .. Len(s) /\ p = Len(r) + k
      BY <1>1, <1>4, <2>2, <3>1
    <3>3. k \in 1 .. Len(t)
      BY <1>1, <1>2, <3>2
    <3> QED BY <1>2, <1>3, <1>4, <3>2, <3>3
  <2> QED BY <2>1, <2>2
<1>7. ASSUME NEW k \in 1 .. Len(f) PROVE c[Len(b) + k] = f[k]
  <2>1. PICK j : j = Len(s) + k
    OBVIOUS
  <2>2. j \in 1 .. Len(t) /\ Len(b) + k = Len(r) + j
    BY <1>1, <1>2, <1>4, <2>1
  <2> QED BY <1>2, <1>3, <2>1, <2>2
<1> QED BY <1>1, <1>5, <1>6, <1>7

\* The buffer without its first n bytes.
LEMMA SuffixJoined ==
    ASSUME NEW r \in Seq(Byte), NEW s \in Seq(Byte), NEW t \in Seq(Byte), NEW n \in Nat,
           Len(r) = Len(t) + n, \A k \in 1 .. Len(t) : t[k] = r[n + k]
    PROVE  /\ Len(r \o s) = Len(t \o s) + n
           /\ \A q \in 1 .. Len(t \o s) : (t \o s)[q] = (r \o s)[n + q]
<1>1. Len(r) \in Nat /\ Len(s) \in Nat /\ Len(t) \in Nat
  OBVIOUS
<1>2. Len(r \o s) = Len(r) + Len(s) /\ Len(t \o s) = Len(t) + Len(s)
  BY Bytewise
<1>3. ASSUME NEW q \in 1 .. Len(t \o s) PROVE (t \o s)[q] = (r \o s)[n + q]
  <2>1. CASE q \in 1 .. Len(t)
    <3>1. n + q \in 1 .. Len(r)
      BY <1>1, <2>1
    <3>2. (t \o s)[q] = t[q] /\ (r \o s)[n + q] = r[n + q]
      BY <2>1, <3>1, Bytewise
    <3> QED BY <2>1, <3>2
  <2>2. CASE q \notin 1 .. Len(t)
    <3>1. PICK p \in 1 .. Len(s) : q = Len(t) + p /\ n + q = Len(r) + p
      <4>1. q - Len(t) \in 1 .. Len(s)
        BY <1>1, <1>2, <2>2
      <4> QED BY <1>1, <4>1
    <3>2. (t \o s)[Len(t) + p] = s[p] /\ (r \o s)[Len(r) + p] = s[p]
      BY Bytewise
    <3> QED BY <3>1, <3>2
  <2> QED BY <2>1, <2>2
<1> QED BY <1>1, <1>2, <1>3

\* Moving the first n bytes of s behind r changes no byte.
Moved(r, s, n, u, v) == u = r \o SubSeq(s, 1, n) /\ v = SubSeq(s, n + 1, Len(s))

LEMMA MovedBytes ==
    ASSUME NEW r \in Seq(Byte), NEW s \in Seq(Byte), NEW n \in Nat, n <= Len(s),
           NEW u, NEW v, Moved(r, s, n, u, v)
    PROVE  /\ u \in Seq(Byte) /\ v \in Seq(Byte) /\ Len(u) = Len(r) + n
           /\ Len(u \o v) = Len(r \o s)
           /\ \A p \in 1 .. Len(r \o s) : (u \o v)[p] = (r \o s)[p]
<1>1. /\ Len(r) \in Nat /\ Len(s) \in Nat
      /\ u = r \o SubSeq(s, 1, n) /\ v = SubSeq(s, n + 1, Len(s))
  BY DEF Moved
<1>2. PICK w : w = SubSeq(s, 1, n)
  OBVIOUS
<1>3. w \in Seq(Byte) /\ Len(w) = n /\ \A k \in 1 .. n : w[k] = s[k]
  <2>1. 1 \in 1 .. Len(s) + 1 /\ n \in 1 - 1 .. Len(s)
    BY <1>1
  <2>2. /\ w \in Seq(Byte) /\ Len(w) = n - 1 + 1
        /\ \A k \in 1 .. n - 1 + 1 : w[k] = s[1 + k - 1]
    BY <1>2, <2>1, Part
  <2>3. n - 1 + 1 = n /\ \A k \in 1 .. n : 1 + k - 1 = k
    OBVIOUS
  <2> QED BY <2>2, <2>3
<1>4. v \in Seq(Byte) /\ Len(v) = Len(s) - n /\ \A k \in 1 .. Len(v) : v[k] = s[n + k]
  <2>1. PICK m : m = n + 1
    OBVIOUS
  <2>2. m \in 1 .. Len(s) + 1 /\ m - 1 = n /\ v = SubSeq(s, m, Len(s))
    BY <1>1, <2>1
  <2>3. /\ v \in Seq(Byte) /\ Len(v) = Len(s) - (m - 1)
        /\ \A k \in 1 .. Len(v) : v[k] = s[m - 1 + k]
    BY <2>2, Rest
  <2> QED BY <2>2, <2>3
<1>5. /\ u \in Seq(Byte) /\ Len(u) = Len(r) + n
      /\ \A p \in 1 .. Len(r) : u[p] = r[p]
      /\ \A p \in 1 .. n : u[Len(r) + p] = s[p]
  <2>1. /\ u \in Seq(Byte) /\ Len(u) = Len(r) + Len(w)
        /\ \A p \in 1 .. Len(r) : u[p] = r[p]
        /\ \A p \in 1 .. Len(w) : u[Len(r) + p] = w[p]
    BY <1>1, <1>2, <1>3, Bytewise
  <2> QED BY <1>3, <2>1
<1>6. Len(u \o v) = Len(u) + Len(v) /\ Len(r \o s) = Len(r) + Len(s)
  BY <1>4, <1>5, Bytewise
<1>7. ASSUME NEW p \in 1 .. Len(r \o s) PROVE (u \o v)[p] = (r \o s)[p]
  <2>1. CASE p \in 1 .. Len(r)
    <3>1. p \in 1 .. Len(u)
      BY <1>1, <1>5, <2>1
    <3>2. (u \o v)[p] = u[p] /\ (r \o s)[p] = r[p]
      BY <1>4, <1>5, <2>1, <3>1, Bytewise
    <3> QED BY <1>5, <2>1, <3>2
  <2>2. CASE p \in Len(r) + 1 .. Len(r) + n
    <3>1. PICK k \in 1 .. n : p = Len(r) + k
      <4>1. PICK k : k = p - Len(r)
        OBVIOUS
      <4>2. k \in 1 .. n /\ p = Len(r) + k
        BY <1>1, <2>2, <4>1
      <4> QED BY <4>2
    <3>2. p \in 1 .. Len(u) /\ k \in 1 .. Len(s)
      BY <1>1, <1>5, <2>2
    <3>3. (u \o v)[p] = u[p] /\ (r \o s)[Len(r) + k] = s[k]
      BY <1>4, <1>5, <3>2, Bytewise, Zenon
    <3> QED BY <1>5, <3>1, <3>3
  <2>3. CASE p > Len(r) + n
    <3>1. PICK k \in 1 .. Len(v) : p = Len(u) + k /\ p = Len(r) + (n + k)
      <4>1. PICK k : k = p - (Len(r) + n)
        OBVIOUS
      <4>2. k \in 1 .. Len(v) /\ p = (Len(r) + n) + k
        BY <1>1, <1>4, <1>6, <2>3, <4>1
      <4>3. (Len(r) + n) + k = Len(r) + (n + k)
        BY <1>1, <4>2
      <4> QED BY <1>5, <4>2, <4>3
    <3>2. PICK j : j = n + k
      OBVIOUS
    <3>3. j \in 1 .. Len(s)
      BY <1>1, <1>4, <3>2
    <3>4. (u \o v)[Len(u) + k] = v[k]
      <4>1. u \in Seq(Byte) /\ v \in Seq(Byte)
        BY <1>4, <1>5
      <4>2. \A x \in 1 .. Len(v) : (u \o v)[Len(u) + x] = v[x]
        BY <4>1, Bytewise
      <4> QED BY <4>2
    <3>5. (r \o s)[Len(r) + j] = s[j]
      BY <3>3, Bytewise
    <3> QED BY <1>4, <3>1, <3>2, <3>4, <3>5
  <2>4. p \in Int /\ p >= 1
    BY <1>1, <1>6
  <2>5. p \in 1 .. Len(r) \/ p \in Len(r) + 1 .. Len(r) + n \/ p > Len(r) + n
    BY <1>1, <2>4
  <2> QED BY <2>1, <2>2, <2>3, <2>5
<1>8. Len(u \o v) = Len(r \o s)
  <2>1. Len(u) = Len(r) + n /\ Len(v) = Len(s) - n
    BY <1>4, <1>5
  <2>2. \A x, y \in Nat : (x + n) + (y - n) = x + y
    OBVIOUS
  <2>3. Len(u) + Len(v) = Len(r) + Len(s)
    BY <1>1, <2>1, <2>2
  <2> QED BY <1>6, <2>3
<1> QED BY <1>4, <1>5, <1>7, <1>8

\* A step after which the bytes of both ends are the same, or lack what holds no start byte.
LEMMA SameFrames ==
    ASSUME TypeOK, Sendable, Delivered, Chopped, TypeOK',
           UNCHANGED <<end, raised, script, sent, got>>,
           NEW n \in Nat, Len(rx_buf \o stream) = Len(rx_buf' \o stream') + n,
           \A q \in 1 .. Len(rx_buf' \o stream') : (rx_buf' \o stream')[q] = (rx_buf \o stream)[n + q],
           \A q \in 1 .. n : (rx_buf \o stream)[q] # Start
    PROVE  Sendable' /\ Delivered' /\ Chopped'
<1>1. Sendable' /\ Delivered' /\ Frames' = Frames /\ got' = got
  BY NothingCut
<1>2. PICK b, c, F, d : b = rx_buf \o stream /\ c = rx_buf' \o stream' /\ F = Frames /\ d = Len(got)
  OBVIOUS
<1>3. PICK at : Placed(b, F, d, at)
  BY <1>2 DEF Chopped
<1>4. F \in Seq(WholeFrames) /\ d \in Nat
  BY <1>2, SentFrames DEF Delivered
<1>5. Len(b) \in Nat /\ Len(c) \in Nat
  <2>1. rx_buf \in Seq(Byte) /\ stream \in Seq(Byte)
    BY BufferTypes
  <2>2. rx_buf' \in Seq(Byte) /\ stream' \in Seq(Byte)
    BY DEF TypeOK, Byte
  <2> QED BY <1>2, <2>1, <2>2, Bytewise
<1>6. \A i \in d + 1 .. Len(F) : at[i] >= n
  <2>1. \A q \in 1 .. n : b[q] # Start
    BY <1>2
  <2> QED BY <1>3, <1>4, <2>1, NoneBefore
<1>7. \E a : Placed(c, F, d, a)
  BY <1>2, <1>3, <1>4, <1>5, <1>6, Dropped
<1> QED BY <1>1, <1>2, <1>7 DEF Chopped

LEMMA Appended ==
    ASSUME NEW q \in Seq(WholeFrames), NEW x \in WholeFrames
    PROVE  /\ Append(q, x) = [i \in 1 .. Len(q) + 1 |-> Append(q, x)[i]]
           /\ \A i \in 1 .. Len(q) + 1 : Append(q, x)[i] = IF i = Len(q) + 1 THEN x ELSE q[i]
<1>1. PICK a : a = Append(q, x)
  OBVIOUS
<1>2. /\ a \in Seq(WholeFrames) /\ Len(a) = Len(q) + 1 /\ a[Len(q) + 1] = x
      /\ \A i \in 1 .. Len(q) : a[i] = q[i]
  BY <1>1
<1>3. Len(q) \in Nat
  OBVIOUS
<1>4. \A i \in 1 .. Len(q) + 1 : a[i] = IF i = Len(q) + 1 THEN x ELSE q[i]
  <2> TAKE i \in 1 .. Len(q) + 1
  <2>1. i = Len(q) + 1 \/ i \in 1 .. Len(q)
    BY <1>3
  <2> QED BY <1>2, <1>3, <2>1
<1>5. a = [i \in 1 .. Len(q) + 1 |-> a[i]]
  BY <1>2
<1> QED BY <1>1, <1>4, <1>5

LEMMA SendInvariant ==
    ASSUME IInv, Send
    PROVE  IInv'
<1> USE DEF IInv
<1>1. PICK m : m = Head(script)
  OBVIOUS
<1>2. /\ script # <<>> /\ script' = Tail(script)
      /\ FromBatch(m) => raised = {} /\ ~BuildRaises(m)
      /\ stream' = stream \o Encoded(m) /\ rx_buf' = rx_buf /\ rec' = rec
      /\ sent' = IF m.kind = "stray" THEN sent ELSE Append(sent, m)
      /\ end' = end /\ raised' = raised /\ got' = got
  BY <1>1 DEF Send, NextMessage, Transmit
<1>3. /\ script \in Seq(Messages) /\ sent \in Seq(Messages) /\ raised \subseteq Messages
      /\ script \in Seq(Origin(end)) /\ sent \in Seq(Origin(end)) /\ Len(sent) \in Nat
  BY DEF TypeOK, Sendable
<1>4. m \in Origin(end) /\ m \in Messages
  BY <1>1, <1>2, <1>3
<1>5. /\ script' \in Seq(Messages) /\ sent' \in Seq(Messages)
      /\ script' \in Seq(Origin(end)) /\ sent' \in Seq(Origin(end))
  BY <1>2, <1>3, <1>4
<1>6. m.kind # "stray" => Encoded(m) \in WholeFrames
  BY <1>2, <1>4, MessagesLegal
<1>7. Encoded(m) \in Seq(Byte)
  <2>1. CASE m.kind = "stray"
    BY <1>4, <2>1, MessagesLegal, StrayBytes
  <2>2. CASE m.kind # "stray"
    BY <1>6, <2>2, WholeFrame
  <2> QED BY <2>1, <2>2
<1>8. PICK r, s, t, f : r = rx_buf /\ s = stream /\ t = stream' /\ f = Encoded(m)
  OBVIOUS
<1>9. r \in Seq(Byte) /\ s \in Seq(Byte) /\ f \in Seq(Byte) /\ t = s \o f
  BY <1>2, <1>7, <1>8, BufferTypes
<1>10. t \in Seq(Byte)
  BY <1>9, JoinedBytes
<1>11. TypeOK'
  BY <1>2, <1>3, <1>5, <1>8, <1>10 DEF TypeOK, Byte
<1>12. \A i \in 1 .. Len(sent) : i \in 1 .. Len(sent') /\ sent'[i] = sent[i]
  BY <1>2, <1>3, <1>4
<1>13. \A i \in 1 .. Len(sent') :
           i \in 1 .. Len(sent) \/ (m.kind # "stray" /\ i = Len(sent) + 1 /\ sent'[i] = m)
  <2>1. CASE m.kind = "stray"
    BY <1>2, <2>1
  <2>2. CASE m.kind # "stray"
    BY <1>2, <1>3, <1>4, <2>2
  <2> QED BY <2>1, <2>2
<1>14. Sendable'
  <2>1. ASSUME NEW i \in 1 .. Len(sent')
        PROVE  sent'[i].kind # "stray" /\ (FromBatch(sent'[i]) => ~BuildRaises(sent'[i]))
    <3>1. CASE i \in 1 .. Len(sent)
      BY <1>12, <3>1 DEF Sendable
    <3>2. CASE m.kind # "stray" /\ sent'[i] = m
      BY <1>2, <3>2
    <3> QED BY <1>13, <3>1, <3>2
  <2>2. \A b \in raised' : FromBatch(b) /\ BuildRaises(b)
    BY <1>2 DEF Sendable
  <2> QED BY <1>2, <1>5, <2>1, <2>2 DEF Sendable
<1>15. Len(sent') \in Nat /\ Len(sent) <= Len(sent')
  <2>1. Len(sent') = Len(sent) \/ Len(sent') = Len(sent) + 1
    BY <1>2, <1>3, <1>4
  <2> QED BY <1>3, <2>1
<1>16. Delivered'
  <2>1. /\ got \in Seq({Seen(end, g) : g \in WholeFrames}) /\ Len(got) <= Len(sent)
        /\ Len(got) \in Nat /\ \A i \in 1 .. Len(got) : got[i] = Seen(end, Encoded(sent[i]))
    BY DEF Delivered
  <2>2. \A i \in 1 .. Len(got) : i \in 1 .. Len(sent)
    BY <1>3, <2>1
  <2>3. \A i \in 1 .. Len(got) : got[i] = Seen(end, Encoded(sent'[i]))
    BY <1>12, <2>1, <2>2
  <2> QED BY <1>2, <1>3, <1>15, <2>1, <2>3 DEF Delivered
<1>17. PartOfOne'
  <2>1. ASSUME rec = "recv", Len(got) < Len(sent)
        PROVE  Len(got) < Len(sent') /\ sent'[Len(got) + 1] = sent[Len(got) + 1]
    <3>1. Len(got) \in Nat /\ Len(got) + 1 \in 1 .. Len(sent)
      BY <1>3, <2>1 DEF Delivered
    <3> QED BY <1>3, <1>12, <1>15, <2>1, <3>1
  <2> QED BY <1>2, <2>1 DEF PartOfOne
<1>18. Chopped'
  <2>1. PICK b, c, F, d : /\ b = r \o s /\ c = r \o t /\ F = Frames /\ d = Len(got)
    OBVIOUS
  <2>2. PICK at : Placed(b, F, d, at)
    BY <1>8, <2>1 DEF Chopped
  <2>3. F \in Seq(WholeFrames) /\ d \in Nat /\ d <= Len(F) /\ Len(F) = Len(sent)
    BY <2>1, SentFrames DEF Delivered
  <2>4. /\ Len(b) \in Nat /\ Len(f) \in Nat /\ Len(c) = Len(b) + Len(f)
        /\ \A p \in 1 .. Len(b) : c[p] = b[p]
        /\ \A k \in 1 .. Len(f) : c[Len(b) + k] = f[k]
    BY <1>9, <2>1, JoinedBehind
  <2>5. CASE m.kind = "stray"
    <3>1. \A k \in 1 .. Len(f) : f[k] # Start
      BY <1>4, <1>8, <2>5, MessagesLegal, StrayBytes
    <3>2. ASSUME NEW p \in Len(b) + 1 .. Len(c) PROVE c[p] # Start
      <4>1. PICK k : k = p - Len(b)
        OBVIOUS
      <4>2. k \in 1 .. Len(f) /\ p = Len(b) + k
        BY <2>4, <4>1
      <4> QED BY <2>4, <3>1, <4>2
    <3>3. Len(c) \in Nat /\ Len(b) <= Len(c)
      BY <2>4
    <3>4. Placed(c, F, d, at)
      BY <2>2, <2>3, <2>4, <3>2, <3>3, StrayAdded
    <3>5. Frames' = F
      BY <1>2, <2>1, <2>5 DEF Frames
    <3> QED BY <1>2, <1>8, <2>1, <3>4, <3>5 DEF Chopped
  <2>6. CASE m.kind # "stray"
    <3>1. f \in WholeFrames
      BY <1>6, <1>8, <2>6
    <3>2. \E a : Placed(c, Append(F, f), d, a)
      BY <2>2, <2>3, <2>4, <3>1, FrameAdded
    <3>3. Frames' = Append(F, f)
      <4>1. sent' = Append(sent, m) /\ f = FrameOf(m)
        BY <1>2, <1>8, <2>6 DEF FrameOf
      <4>2. Frames' = [i \in 1 .. Len(sent) + 1 |-> FrameOf(sent'[i])]
        BY <1>3, <1>4, <4>1 DEF Frames
      <4>3. F = [i \in 1 .. Len(sent) |-> FrameOf(sent[i])]
        BY <2>1 DEF Frames
      <4>4. ASSUME NEW i \in 1 .. Len(sent) + 1
            PROVE  Frames'[i] = IF i = Len(sent) + 1 THEN f ELSE F[i]
        <5>1. CASE i = Len(sent) + 1
          BY <1>3, <1>4, <4>1, <4>2, <5>1
        <5>2. CASE i # Len(sent) + 1
          <6>1. i \in 1 .. Len(sent)
            BY <1>3, <5>2
          <6> QED BY <1>12, <4>2, <4>3, <5>2, <6>1
        <5> QED BY <5>1, <5>2
      <4>5. Len(F) = Len(sent)
        BY <2>3
      <4>6. /\ Append(F, f) = [i \in 1 .. Len(sent) + 1 |-> Append(F, f)[i]]
            /\ \A i \in 1 .. Len(sent) + 1 :
                  Append(F, f)[i] = IF i = Len(sent) + 1 THEN f ELSE F[i]
        BY <2>3, <3>1, <4>5, Appended
      <4>7. Frames' = [i \in 1 .. Len(sent) + 1 |-> Frames'[i]]
        BY <4>2
      <4> QED BY <4>4, <4>6, <4>7
    <3> QED BY <1>2, <1>8, <2>1, <3>2, <3>3 DEF Chopped
  <2> QED BY <2>5, <2>6
<1>19. rec' # "overflow"
  BY <1>2
<1> QED BY <1>11, <1>14, <1>16, <1>17, <1>18, <1>19

LEMMA RaiseInvariant ==
    ASSUME IInv, SenderRaises
    PROVE  IInv'
<1> USE DEF IInv
<1>1. PICK m : m = Head(script)
  OBVIOUS
<1>2. /\ script # <<>> /\ script' = Tail(script) /\ FromBatch(m) /\ BuildRaises(m) /\ raised' = {m}
      /\ stream' = stream /\ rx_buf' = rx_buf /\ rec' = rec
      /\ end' = end /\ sent' = sent /\ got' = got
  BY <1>1 DEF SenderRaises, NextMessage, buffer
<1>3. script \in Seq(Messages) /\ script \in Seq(Origin(end))
  BY DEF TypeOK, Sendable
<1>4. m \in Messages /\ script' \in Seq(Messages) /\ script' \in Seq(Origin(end))
  BY <1>1, <1>2, <1>3
<1>5. TypeOK'
  BY <1>2, <1>4 DEF TypeOK
<1>6. Sendable'
  BY <1>2, <1>4 DEF Sendable
<1>7. Delivered' /\ PartOfOne'
  BY <1>2 DEF Delivered, PartOfOne
<1>8. Chopped'
  BY <1>2 DEF Chopped, Frames
<1> QED BY <1>2, <1>5, <1>6, <1>7, <1>8

LEMMA ReceiveInvariant ==
    ASSUME IInv, ReceiveBytes
    PROVE  IInv'
<1> USE DEF IInv
<1>1. /\ rec = "recv" /\ UNCHANGED <<end, raised, script, sent, got>>
      /\ rec' = IF end = "server" /\ Len(rx_buf') > MaxRxBuf THEN "overflow" ELSE "loop"
  BY DEF ReceiveBytes, Receive
<1>2. PICK n \in Pieces : /\ n <= Len(stream) /\ rx_buf' = rx_buf \o SubSeq(stream, 1, n)
                          /\ stream' = SubSeq(stream, n + 1, Len(stream))
  BY DEF ReceiveBytes, Receive
<1>3. n \in Nat /\ MaxRxBuf \in Nat /\ n + 5 <= MaxRxBuf
      /\ \A m \in MessagesOf(ClientScripts) :
            m.kind # "stray" => n + Len(Encoded(m)) - 1 <= MaxRxBuf
  BY WireAssumption
<1>4. rx_buf \in Seq(Byte) /\ stream \in Seq(Byte) /\ Len(rx_buf) \in Nat
  BY BufferTypes
<1>5. /\ rx_buf' \in Seq(Byte) /\ stream' \in Seq(Byte) /\ Len(rx_buf') = Len(rx_buf) + n
      /\ Len(rx_buf' \o stream') = Len(rx_buf \o stream)
      /\ \A p \in 1 .. Len(rx_buf \o stream) :
            (rx_buf' \o stream')[p] = (rx_buf \o stream)[p]
  <2>1. PICK r, s, u, v : r = rx_buf /\ s = stream /\ u = rx_buf' /\ v = stream'
    OBVIOUS
  <2>2. /\ r \in Seq(Byte) /\ s \in Seq(Byte) /\ n \in Nat /\ n <= Len(s)
        /\ Moved(r, s, n, u, v)
    BY <1>2, <1>3, <1>4, <2>1 DEF Moved
  <2>3. /\ u \in Seq(Byte) /\ v \in Seq(Byte) /\ Len(u) = Len(r) + n
        /\ Len(u \o v) = Len(r \o s)
        /\ \A p \in 1 .. Len(r \o s) : (u \o v)[p] = (r \o s)[p]
    BY <2>2, MovedBytes
  <2> QED BY <2>1, <2>3
<1>6. TypeOK'
  BY <1>1, <1>5 DEF TypeOK, Byte
<1>7. Sendable' /\ Delivered' /\ Chopped'
  <2>1. Len(rx_buf \o stream) = Len(rx_buf' \o stream') + 0
    BY <1>4, <1>5, Bytewise
  <2>2. \A q \in 1 .. Len(rx_buf' \o stream') :
            (rx_buf' \o stream')[q] = (rx_buf \o stream)[0 + q]
    BY <1>5
  <2>3. \A q \in 1 .. 0 : (rx_buf \o stream)[q] # Start
    OBVIOUS
  <2> QED BY <1>1, <1>6, <2>1, <2>2, <2>3, SameFrames
<1>8. rec' # "overflow"
  <2> SUFFICES ASSUME end = "server" PROVE ~(Len(rx_buf') > MaxRxBuf)
    BY <1>1
  <2>1. CASE Len(rx_buf) < 6
    BY <1>3, <1>4, <1>5, <2>1
  <2>2. CASE Len(got) < Len(sent) /\ Len(rx_buf) < Len(Encoded(sent[Len(got) + 1]))
    <3>1. PICK m : m = sent[Len(got) + 1]
      OBVIOUS
    <3>2. Len(got) \in Nat /\ Len(sent) \in Nat /\ Len(got) + 1 \in 1 .. Len(sent)
      BY <2>2, SentFrames DEF Delivered
    <3>3. m \in Origin(end) /\ m \in Messages /\ m.kind # "stray"
          /\ (FromBatch(m) => ~BuildRaises(m))
      BY <3>1, <3>2, SentFrames DEF Sendable
    <3>4. m \in MessagesOf(ClientScripts)
      BY <3>3 DEF Origin
    <3>5. n + Len(Encoded(m)) - 1 <= MaxRxBuf
      BY <1>3, <3>3, <3>4
    <3>6. Len(Encoded(m)) \in Nat
      BY <3>3, MessagesLegal, WholeFrame
    <3>7. Len(rx_buf) < Len(Encoded(m))
      BY <2>2, <3>1
    <3> QED BY <1>3, <1>4, <1>5, <3>5, <3>6, <3>7
  <2> QED BY <1>1, <2>1, <2>2 DEF PartOfOne
<1>9. PartOfOne'
  BY <1>1 DEF PartOfOne
<1> QED BY <1>6, <1>7, <1>8, <1>9

LEMMA DiscardInvariant ==
    ASSUME IInv, DiscardBytes
    PROVE  IInv'
<1> USE DEF IInv
<1>1. /\ UNCHANGED <<end, raised, script, sent, got>> /\ FirstStart = 0
      /\ rx_buf' = <<>> /\ rec' = "recv" /\ stream' = stream
  BY DEF DiscardBytes, Discard
<1>2. /\ rx_buf \in Seq(Byte) /\ stream \in Seq(Byte) /\ Len(rx_buf) \in Nat
      /\ <<>> \in Seq(Byte) /\ Len(<<>>) = 0
  BY BufferTypes
<1>3. \A q \in 1 .. Len(rx_buf) : rx_buf[q] # Start
  BY <1>1, <1>2, AlignedBuffer
<1>4. TypeOK'
  BY <1>1 DEF TypeOK
<1>5. Sendable' /\ Delivered' /\ Chopped'
  <2>1. PICK n \in Nat : n = Len(rx_buf)
    BY <1>2
  <2>2. /\ Len(rx_buf \o stream) = Len(rx_buf' \o stream') + n
        /\ \A q \in 1 .. Len(rx_buf' \o stream') :
              (rx_buf' \o stream')[q] = (rx_buf \o stream)[n + q]
    <3>1. PICK r, s, t : r = rx_buf /\ s = stream /\ t = <<>>
      OBVIOUS
    <3>2. /\ r \in Seq(Byte) /\ s \in Seq(Byte) /\ t \in Seq(Byte) /\ Len(r) = Len(t) + n
          /\ \A k \in 1 .. Len(t) : t[k] = r[n + k]
      BY <1>2, <2>1, <3>1
    <3>3. /\ Len(r \o s) = Len(t \o s) + n
          /\ \A q \in 1 .. Len(t \o s) : (t \o s)[q] = (r \o s)[n + q]
      BY <3>2, SuffixJoined
    <3> QED BY <1>1, <3>1, <3>3
  <2>3. \A q \in 1 .. n : (rx_buf \o stream)[q] # Start
    BY <1>2, <1>3, <2>1, Bytewise
  <2> QED BY <1>1, <1>4, <2>2, <2>3, SameFrames
<1>6. PartOfOne' /\ rec' # "overflow"
  BY <1>1, <1>2 DEF PartOfOne
<1> QED BY <1>4, <1>5, <1>6

\* The first frame that was not cut off lies where the aligned buffer begins.
LEMMA AlignedFrame ==
    ASSUME IInv, FirstStart # 0
    PROVE  /\ FirstStart \in 1 .. Len(rx_buf) /\ \A q \in 1 .. FirstStart - 1 : rx_buf[q] # Start
           /\ Aligned \in Seq(Byte) /\ Len(Aligned) \in Nat
           /\ Len(rx_buf) = Len(Aligned) + (FirstStart - 1)
           /\ \A k \in 1 .. Len(Aligned) : Aligned[k] = rx_buf[FirstStart - 1 + k]
           /\ Len(got) + 1 \in Len(got) + 1 .. Len(Frames)
           /\ \A at : Placed(rx_buf \o stream, Frames, Len(got), at)
                         => at[Len(got) + 1] = FirstStart - 1
           /\ Len(Aligned) >= 2 => FrameLen(Aligned) = Len(Frames[Len(got) + 1])
<1> USE DEF IInv
<1>1. rx_buf \in Seq(Byte) /\ stream \in Seq(Byte) /\ Len(rx_buf) \in Nat
  BY BufferTypes
<1>2. PICK p, a : p = FirstStart /\ a = Aligned
  OBVIOUS
<1>3. /\ p \in 1 .. Len(rx_buf) /\ rx_buf[p] = Start
      /\ \A q \in 1 .. p - 1 : rx_buf[q] # Start
      /\ a \in Seq(Byte) /\ Len(a) = Len(rx_buf) - (p - 1)
      /\ \A k \in 1 .. Len(a) : a[k] = rx_buf[p - 1 + k]
  BY <1>1, <1>2, AlignedBuffer
<1>4. Len(a) \in Nat /\ Len(rx_buf) = Len(a) + (p - 1) /\ p - 1 \in Nat
  BY <1>1, <1>3
<1>5. PICK b, F, d : b = rx_buf \o stream /\ F = Frames /\ d = Len(got)
  OBVIOUS
<1>6. F \in Seq(WholeFrames) /\ d \in Nat
  BY <1>5, SentFrames DEF Delivered
<1>7. Len(b) \in Nat /\ Len(rx_buf) <= Len(b) /\ \A q \in 1 .. Len(rx_buf) : b[q] = rx_buf[q]
  <2>1. Len(b) = Len(rx_buf) + Len(stream) /\ \A q \in 1 .. Len(rx_buf) : b[q] = rx_buf[q]
    BY <1>1, <1>5, Bytewise
  <2> QED BY <1>1, <2>1
<1>8. p \in 1 .. Len(b) /\ b[p] = Start /\ \A q \in 1 .. p - 1 : b[q] # Start
  <2>1. p \in 1 .. Len(rx_buf) /\ rx_buf[p] = Start
    BY <1>3
  <2>2. p \in 1 .. Len(b)
    BY <1>1, <1>7, <2>1
  <2>3. b[p] = Start
    BY <1>7, <2>1
  <2>4. ASSUME NEW q \in 1 .. p - 1 PROVE b[q] # Start
    <3>1. q \in 1 .. Len(rx_buf)
      BY <1>1, <2>1
    <3>2. rx_buf[q] # Start
      BY <1>3
    <3> QED BY <1>7, <3>1, <3>2
  <2> QED BY <2>2, <2>3, <2>4
<1>9. ASSUME NEW at, Placed(b, F, d, at)
      PROVE  d + 1 \in d + 1 .. Len(F) /\ at[d + 1] = p - 1
  BY <1>6, <1>8, <1>9, FirstFrame
<1>10. PICK at : Placed(b, F, d, at)
  BY <1>5 DEF Chopped
<1>11. d + 1 \in d + 1 .. Len(F) /\ at[d + 1] = p - 1
  BY <1>9, <1>10
<1>12. ASSUME Len(a) >= 2 PROVE FrameLen(a) = Len(F[d + 1])
  <2>1. b[at[d + 1] + 2] = Len(F[d + 1]) - 2 /\ Len(F[d + 1]) \in Nat
    BY <1>6, <1>10, <1>11, StartOfPlaced
  <2>2. 2 \in 1 .. Len(a) /\ p - 1 + 2 \in 1 .. Len(rx_buf)
    BY <1>4, <1>12
  <2>3. a[2] = rx_buf[p - 1 + 2]
    BY <1>3, <2>2
  <2>4. rx_buf[p - 1 + 2] = b[p - 1 + 2]
    BY <1>7, <2>2
  <2>5. a[2] = Len(F[d + 1]) - 2
    BY <1>11, <2>1, <2>3, <2>4
  <2> QED BY <2>1, <2>5 DEF FrameLen
<1> QED BY <1>2, <1>3, <1>4, <1>5, <1>9, <1>11, <1>12

LEMMA WaitInvariant ==
    ASSUME IInv, WaitBytes
    PROVE  IInv'
<1> USE DEF IInv
<1>1. /\ UNCHANGED <<end, raised, script, sent, got>> /\ rec' = "recv" /\ stream' = stream
      /\ ~Complete /\ (Len(rx_buf) >= 6 => FirstStart # 0)
      /\ rx_buf' = IF Len(rx_buf) < 6 THEN rx_buf ELSE Aligned
  BY DEF WaitBytes, WaitForMore
<1>2. rx_buf \in Seq(Byte) /\ stream \in Seq(Byte) /\ Len(rx_buf) \in Nat
  BY BufferTypes
<1>3. CASE Len(rx_buf) < 6
  <2>1. rx_buf' = rx_buf
    BY <1>1, <1>3
  <2>2. TypeOK' /\ PartOfOne' /\ rec' # "overflow"
    BY <1>1, <1>3, <2>1 DEF TypeOK, PartOfOne
  <2>3. Sendable' /\ Delivered' /\ Frames' = Frames
    BY <1>1, NothingCut
  <2>4. Chopped'
    BY <1>1, <2>1, <2>3 DEF Chopped
  <2> QED BY <2>2, <2>3, <2>4
<1>4. CASE ~(Len(rx_buf) < 6)
  <2>1. FirstStart # 0 /\ rx_buf' = Aligned /\ Len(rx_buf) >= 6
    BY <1>1, <1>2, <1>4
  <2>2. /\ FirstStart \in 1 .. Len(rx_buf) /\ \A q \in 1 .. FirstStart - 1 : rx_buf[q] # Start
        /\ Aligned \in Seq(Byte) /\ Len(Aligned) \in Nat
        /\ Len(rx_buf) = Len(Aligned) + (FirstStart - 1)
        /\ \A k \in 1 .. Len(Aligned) : Aligned[k] = rx_buf[FirstStart - 1 + k]
        /\ Len(got) + 1 \in Len(got) + 1 .. Len(Frames)
        /\ Len(Aligned) >= 2 => FrameLen(Aligned) = Len(Frames[Len(got) + 1])
    BY <2>1, AlignedFrame
  <2>3. TypeOK' /\ rec' # "overflow"
    BY <1>1, <2>1, <2>2 DEF TypeOK, Byte
  <2>4. Sendable' /\ Delivered' /\ Chopped'
    <3>1. PICK r, s, t, n : r = rx_buf /\ s = stream /\ t = Aligned /\ n = FirstStart - 1
      OBVIOUS
    <3>2. /\ r \in Seq(Byte) /\ s \in Seq(Byte) /\ t \in Seq(Byte) /\ n \in Nat
          /\ n <= Len(r) /\ Len(r) = Len(t) + n /\ \A k \in 1 .. Len(t) : t[k] = r[n + k]
      <4>1. r \in Seq(Byte) /\ s \in Seq(Byte) /\ t \in Seq(Byte)
        BY <1>2, <2>2, <3>1
      <4>2. FirstStart - 1 \in Nat /\ FirstStart - 1 <= Len(rx_buf)
        BY <1>2, <2>2
      <4>3. n \in Nat /\ n <= Len(r)
        BY <3>1, <4>2
      <4>4. Len(r) = Len(t) + n
        BY <2>2, <3>1
      <4>5. \A k \in 1 .. Len(t) : t[k] = r[n + k]
        BY <2>2, <3>1
      <4> QED BY <4>1, <4>3, <4>4, <4>5
    <3>3. /\ Len(r \o s) = Len(t \o s) + n
          /\ \A q \in 1 .. Len(t \o s) : (t \o s)[q] = (r \o s)[n + q]
      BY <3>2, SuffixJoined
    <3>4. \A q \in 1 .. n : (r \o s)[q] # Start
      <4>1. \A q \in 1 .. n : r[q] # Start /\ q \in 1 .. Len(r)
        BY <2>2, <3>1, <3>2
      <4> QED BY <3>2, <4>1, Bytewise
    <3>5. r = rx_buf /\ t = rx_buf' /\ s = stream /\ s = stream'
      BY <1>1, <2>1, <3>1
    <3>6. /\ Len(rx_buf \o stream) = Len(rx_buf' \o stream') + n
          /\ \A q \in 1 .. Len(rx_buf' \o stream') :
                (rx_buf' \o stream')[q] = (rx_buf \o stream)[n + q]
          /\ \A q \in 1 .. n : (rx_buf \o stream)[q] # Start
      BY <3>3, <3>4, <3>5, Zenon
    <3>7. n \in Nat
      BY <3>2
    <3> QED BY <1>1, <2>3, <3>6, <3>7, SameFrames
  <2>5. PartOfOne'
    <3>1. CASE Len(Aligned) < 2
      BY <2>1, <2>2, <3>1 DEF PartOfOne
    <3>2. CASE Len(Aligned) >= 2
      <4>1. ~(Len(Aligned) >= FrameLen(Aligned))
        BY <1>1, <2>1, <3>2 DEF Complete
      <4>2. /\ Len(got) \in Nat /\ Len(sent) \in Nat /\ Len(Frames) = Len(sent)
            /\ Frames \in Seq(WholeFrames)
            /\ \A i \in 1 .. Len(sent) : Frames[i] = Encoded(sent[i])
        BY SentFrames DEF Delivered
      <4>3. Len(got) < Len(sent) /\ Len(got) + 1 \in 1 .. Len(sent)
        BY <2>2, <4>2
      <4>4. Frames[Len(got) + 1] \in WholeFrames /\ Frames[Len(got) + 1] = Encoded(sent[Len(got) + 1])
        BY <4>2, <4>3
      <4>5. Len(Encoded(sent[Len(got) + 1])) \in Nat
        BY <4>4, WholeFrame
      <4>6. Len(Aligned) < Len(Encoded(sent[Len(got) + 1]))
        BY <2>2, <3>2, <4>1, <4>4, <4>5
      <4> QED BY <1>1, <2>1, <4>3, <4>6 DEF PartOfOne
    <3> QED BY <2>2, <3>1, <3>2
  <2> QED BY <2>3, <2>4, <2>5
<1> QED BY <1>3, <1>4

LEMMA ProcessInvariant ==
    ASSUME IInv, ProcessFrame
    PROVE  IInv'
<1> USE DEF IInv
<1>1. /\ UNCHANGED <<end, raised, script, sent>> /\ rec' = rec /\ rec = "loop" /\ stream' = stream
      /\ FirstStart # 0 /\ Len(Aligned) >= 2 /\ Len(Aligned) >= FrameLen(Aligned)
      /\ got' = Append(got, Seen(end, CutFrame))
      /\ rx_buf' = SubSeq(Aligned, FrameLen(Aligned) + 1, Len(Aligned))
  BY DEF ProcessFrame, Cut, Complete
<1>2. PICK r, s, t, p, a, l, d, b, c, F :
          /\ r = rx_buf /\ s = stream /\ t = rx_buf' /\ p = FirstStart - 1 /\ a = Aligned
          /\ l = FrameLen(Aligned) /\ d = Len(got) /\ b = r \o s /\ c = t \o s /\ F = Frames
  OBVIOUS
<1>3. r \in Seq(Byte) /\ s \in Seq(Byte) /\ Len(r) \in Nat
  BY <1>2, BufferTypes
<1>4. /\ p \in Nat /\ a \in Seq(Byte) /\ Len(a) \in Nat /\ Len(r) = Len(a) + p
      /\ \A k \in 1 .. Len(a) : a[k] = r[p + k]
      /\ d + 1 \in d + 1 .. Len(F) /\ l = Len(F[d + 1]) /\ l <= Len(a)
  <2>1. FirstStart \in Nat \ {0} /\ d \in Nat
    <3>1. d \in Nat
      BY <1>1, <1>2 DEF Delivered
    <3>2. FirstStart \in Nat \ {0}
      BY <1>1, AlignedFrame
    <3> QED BY <3>1, <3>2
  <2> QED BY <1>1, <1>2, <2>1, AlignedFrame
<1>5. PICK at : Placed(b, F, d, at) /\ at[d + 1] = p
  <2>1. PICK at : Placed(b, F, d, at)
    BY <1>2 DEF Chopped
  <2> QED BY <1>1, <1>2, <2>1, AlignedFrame
<1>6. /\ F \in Seq(WholeFrames) /\ d \in Nat /\ Len(sent) \in Nat /\ Len(F) = Len(sent)
      /\ d + 1 \in 1 .. Len(sent) /\ F[d + 1] = Encoded(sent[d + 1])
  <2>1. /\ F \in Seq(WholeFrames) /\ d \in Nat /\ Len(sent) \in Nat /\ Len(F) = Len(sent)
        /\ \A i \in 1 .. Len(sent) : F[i] = Encoded(sent[i])
    BY <1>2, SentFrames DEF Delivered
  <2>2. d + 1 \in 1 .. Len(sent)
    BY <1>4, <2>1
  <2> QED BY <2>1, <2>2
<1>7. F[d + 1] \in WholeFrames /\ l \in Nat /\ l >= 6 /\ F[d + 1] \in Seq(Byte)
  BY <1>4, <1>6, WholeFrame
<1>8. CutFrame = F[d + 1]
  <2>1. PICK u : u = SubSeq(a, 1, l)
    OBVIOUS
  <2>2. 1 \in 1 .. Len(a) + 1 /\ l \in 1 - 1 .. Len(a) /\ l - 1 + 1 = l
    BY <1>4, <1>7
  <2>3. /\ u \in Seq(Byte) /\ Len(u) = l /\ \A k \in 1 .. l : u[k] = a[1 + k - 1]
    BY <1>4, <2>1, <2>2, Part
  <2>4. ASSUME NEW k \in 1 .. l PROVE u[k] = F[d + 1][k]
    <3>1. 1 + k - 1 = k /\ k \in 1 .. Len(a) /\ p + k \in 1 .. Len(r)
      BY <1>3, <1>4, <1>7
    <3>2. u[k] = r[p + k]
      BY <1>4, <2>3, <3>1
    <3>3. r[p + k] = b[p + k]
      BY <1>2, <1>3, <3>1, Bytewise
    <3>4. b[p + k] = F[d + 1][k]
      BY <1>4, <1>5 DEF Placed
    <3> QED BY <3>2, <3>3, <3>4
  <2>5. u = F[d + 1]
    <3>1. PICK f : f = F[d + 1]
      OBVIOUS
    <3>2. f \in Seq(Byte) /\ Len(f) = l /\ u \in Seq(Byte) /\ Len(u) = l
      BY <1>4, <1>7, <2>3, <3>1
    <3>3. \A k \in 1 .. l : u[k] = f[k]
      BY <2>4, <3>1
    <3> QED BY <3>1, <3>2, <3>3, SameBytes
  <2> QED BY <1>2, <2>1, <2>5 DEF CutFrame
<1>9. /\ t \in Seq(Byte) /\ Len(a) = Len(t) + l
      /\ \A k \in 1 .. Len(t) : t[k] = a[l + k]
  <2>1. PICK m : m = l + 1
    OBVIOUS
  <2>2. m \in 1 .. Len(a) + 1 /\ m - 1 = l /\ t = SubSeq(a, m, Len(a))
    BY <1>1, <1>2, <1>4, <1>7, <2>1
  <2>3. /\ t \in Seq(Byte) /\ Len(t) = Len(a) - (m - 1)
        /\ \A k \in 1 .. Len(t) : t[k] = a[m - 1 + k]
    BY <1>4, <2>2, Rest
  <2>4. Len(a) = Len(t) + l
    <3>1. Len(a) \in Nat /\ l \in Nat /\ m - 1 = l /\ Len(t) = Len(a) - (m - 1)
      BY <1>4, <1>7, <2>2, <2>3
    <3>2. Len(t) = Len(a) - l
      BY <3>1
    <3> QED BY <3>1, <3>2
  <2> QED BY <2>2, <2>3, <2>4
<1>10. PICK n \in Nat : n = p + l
  BY <1>4, <1>7
<1>11. /\ Len(b) \in Nat /\ Len(c) \in Nat /\ Len(b) = Len(c) + n
       /\ \A q \in 1 .. Len(c) : c[q] = b[n + q]
  <2>1. Len(t) \in Nat /\ Len(r) = Len(t) + n
    BY <1>4, <1>7, <1>9, <1>10
  <2>2. ASSUME NEW k \in 1 .. Len(t) PROVE t[k] = r[n + k]
    <3>1. PICK j : j = l + k
      OBVIOUS
    <3>2. Len(a) \in Nat /\ p \in Nat /\ l \in Nat /\ Len(t) \in Nat /\ k \in 1 .. Len(t)
      BY <1>4, <1>7, <2>1
    <3>3. Len(a) = Len(t) + l /\ n = p + l
      BY <1>9, <1>10
    <3>4. j \in 1 .. Len(a)
      BY <3>1, <3>2, <3>3
    <3>5. p + j = n + k
      BY <3>1, <3>2, <3>3
    <3> QED BY <1>4, <1>9, <3>1, <3>4, <3>5
  <2>3. /\ Len(r \o s) = Len(t \o s) + n
        /\ \A q \in 1 .. Len(t \o s) : (t \o s)[q] = (r \o s)[n + q]
    <3>1. r \in Seq(Byte) /\ s \in Seq(Byte) /\ t \in Seq(Byte) /\ Len(r) = Len(t) + n
      BY <1>3, <1>9, <2>1
    <3>2. \A k \in 1 .. Len(t) : t[k] = r[n + k]
      BY <2>2
    <3> QED BY <3>1, <3>2, SuffixJoined
  <2>4. Len(r \o s) \in Nat /\ Len(t \o s) \in Nat
    BY <1>3, <1>9, Bytewise
  <2> QED BY <1>2, <2>3, <2>4
<1>12. TypeOK'
  BY <1>1, <1>2, <1>9 DEF TypeOK, Byte
<1>13. Sendable' /\ Frames' = Frames
  BY <1>1 DEF Sendable, Frames
<1>14. /\ got \in Seq({Seen(end, f) : f \in WholeFrames}) /\ Seen(end, CutFrame) = Seen(end, F[d + 1])
       /\ Seen(end, CutFrame) \in {Seen(end, f) : f \in WholeFrames}
  BY <1>7, <1>8 DEF Delivered
<1>15. /\ got' \in Seq({Seen(end, f) : f \in WholeFrames}) /\ Len(got') = d + 1
       /\ got'[d + 1] = Seen(end, F[d + 1]) /\ \A i \in 1 .. d : got'[i] = got[i]
  BY <1>1, <1>2, <1>14
<1>16. Delivered'
  <2>1. ASSUME NEW i \in 1 .. d + 1 PROVE got'[i] = Seen(end, Encoded(sent[i]))
    <3>1. CASE i = d + 1
      BY <1>6, <1>15, <3>1
    <3>2. CASE i # d + 1
      <4>1. i \in 1 .. d
        BY <1>6, <3>2
      <4> QED BY <1>2, <1>15, <4>1 DEF Delivered
    <3> QED BY <3>1, <3>2
  <2>2. d + 1 <= Len(sent)
    BY <1>6
  <2> QED BY <1>1, <1>15, <2>1, <2>2 DEF Delivered
<1>17. Chopped'
  <2>1. PICK e : e = d + 1
    OBVIOUS
  <2>2. e \in Nat /\ e = d + 1 /\ e <= Len(F) /\ at[e] + Len(F[e]) <= n
    BY <1>4, <1>5, <1>6, <1>7, <1>10, <2>1
  <2>3. ASSUME NEW i \in e + 1 .. Len(F) PROVE at[i] >= n
    <3>1. i \in d + 1 .. Len(F) /\ e \in d + 1 .. Len(F) /\ e < i
      BY <1>6, <2>2
    <3>2. at[e] + Len(F[e]) <= at[i]
      BY <1>5, <3>1 DEF Placed
    <3> QED BY <1>4, <1>5, <1>10, <2>1, <3>2
  <2>4. \E x : Placed(c, F, e, x)
    BY <1>5, <1>6, <1>11, <2>2, <2>3, Dropped
  <2> QED BY <1>1, <1>2, <1>13, <1>15, <2>1, <2>4 DEF Chopped
<1>18. PartOfOne' /\ rec' # "overflow"
  BY <1>1 DEF PartOfOne
<1> QED BY <1>12, <1>13, <1>16, <1>17, <1>18

LEMMA StutterInvariant ==
    ASSUME IInv, UNCHANGED vars
    PROVE  IInv'
<1>1. /\ stream' = stream /\ rx_buf' = rx_buf /\ rec' = rec /\ end' = end /\ raised' = raised
      /\ script' = script /\ sent' = sent /\ got' = got
  BY DEF vars, buffer
<1> QED BY <1>1 DEF IInv, TypeOK, Sendable, Delivered, Chopped, Frames, PartOfOne

LEMMA NextInvariant ==
    ASSUME IInv, [Next]_vars
    PROVE  IInv'
BY SendInvariant, RaiseInvariant, ReceiveInvariant, DiscardInvariant, WaitInvariant,
   ProcessInvariant, StutterInvariant DEF Next, Receiver

LEMMA Inductive == Spec => []IInv
<1>1. Init => IInv
  BY InitInvariant
<1>2. IInv /\ [Next]_vars => IInv'
  BY NextInvariant
<1> QED BY <1>1, <1>2, PTL DEF Spec

LEMMA ShortWaits ==
    ASSUME IInv
    PROVE  NoFrameWaits
<1> USE DEF IInv
<1>1. /\ Len(got) \in Nat /\ Len(sent) \in Nat /\ Len(got) <= Len(sent)
      /\ sent \in Seq(Messages) /\ Len(rx_buf) \in Nat
  BY SentFrames, BufferTypes DEF Delivered, TypeOK
<1>2. ASSUME rec = "recv", Waiting # <<>>
      PROVE  Len(rx_buf) < Len(Encoded(Waiting[1]))
  <2>1. PICK s, d : s = sent /\ d = Len(got) + 1
    OBVIOUS
  <2>2. s \in Seq(Messages) /\ d \in 1 .. Len(s) + 1 /\ Len(s) \in d - 1 .. Len(s)
        /\ Waiting = SubSeq(s, d, Len(s))
    BY <1>1, <2>1 DEF Waiting
  <2>3. /\ Waiting \in Seq(Messages) /\ Len(Waiting) = Len(s) - d + 1
        /\ \A k \in 1 .. Len(s) - d + 1 : Waiting[k] = s[d + k - 1]
    BY <2>2, Part
  <2>4. d \in 1 .. Len(s)
    BY <1>2, <2>2, <2>3
  <2>5. Waiting[1] = sent[d]
    <3>1. 1 \in 1 .. Len(s) - d + 1 /\ d + 1 - 1 = d
      BY <2>2, <2>4
    <3> QED BY <2>1, <2>3, <3>1
  <2>6. Encoded(sent[d]) \in WholeFrames
    <3>1. Frames \in Seq(WholeFrames) /\ Len(Frames) = Len(sent) /\ Frames[d] = Encoded(sent[d])
      BY <2>1, <2>4, SentFrames
    <3> QED BY <2>1, <2>4, <3>1
  <2>7. Len(Encoded(sent[d])) \in Nat /\ Len(Encoded(sent[d])) >= 6
    BY <2>6, WholeFrame
  <2>8. Len(rx_buf) < 6 \/ Len(rx_buf) < Len(Encoded(sent[d]))
    BY <1>2, <2>1 DEF PartOfOne
  <2> QED BY <1>1, <2>5, <2>7, <2>8
<1> QED BY <1>2 DEF NoFrameWaits

LEMMA OnlyValuesRaise ==
    ASSUME TypeOK, Sendable
    PROVE  FullBatchFits
<1> SUFFICES ASSUME NEW b \in raised PROVE ~ValuesInRange(b)
  BY DEF FullBatchFits
<1>1. b \in Messages /\ FromBatch(b) /\ BuildRaises(b)
  BY DEF TypeOK, Sendable
<1>2. LegalBatch(b) /\ b.kind = "I" /\ b.asdu \in Encodable
  BY <1>1, MessagesLegal DEF Legal, FromBatch
<1>3. /\ b.events \in Seq(Events) /\ b.cot \in Nat /\ b.ca \in Nat
      /\ Len(b.events) <= MaxObj(b.asdu)
  BY <1>1, <1>2 DEF LegalBatch, Words
<1>4. PICK n \in Nat : n = Len(b.events)
  BY <1>3
<1>5. 6 + n * (3 + SizeOf(b.asdu)) + 4 <= 255 /\ n < 128
  BY <1>2, <1>3, <1>4, BatchFits
<1>6. Len(AsduOf(b)) = 6 + n * (3 + SizeOf(b.asdu))
  <2>1. Len(b.events) < 256
    BY <1>4, <1>5
  <2> QED BY <1>2, <1>3, <1>4, <2>1, BatchBytes
<1>7. SizeOf(b.asdu) \in Nat
  BY <1>2, Sizes
<1>8. ~(Len(AsduOf(b)) + 4 > 255)
  BY <1>5, <1>6, <1>7
<1> QED BY <1>1, <1>8 DEF BuildRaises

-----------------------------------------------------------------------------
(* The objects of a set point are read back *)

\* what an object of a set point holds behind its address
SetpointHeld(ev, d) == d \in Seq(Byte) /\ Len(d) = 5 /\ Lies(Bytes(ev.val, 4), d, 0)

SetpointObject(ev) == Bytes(ev.ioa, 3) \o Bytes(ev.val, 4) \o <<0>>

LEMMA SetpointLies ==
    ASSUME NEW ev \in Events, NEW o, o = SetpointObject(ev)
    PROVE  /\ o \in Seq(Byte) /\ Len(o) = 8 /\ Lies(Bytes(ev.ioa, 3), o, 0)
           /\ SetpointHeld(ev, SubSeq(o, 4, 8)) /\ Lies(SubSeq(o, 4, 8), o, 3)
<1>1. PICK b, c, z : b = Bytes(ev.ioa, 3) /\ c = Bytes(ev.val, 4) /\ z = <<0>>
  OBVIOUS
<1>2. b \in Seq(Byte) /\ Len(b) = 3 /\ c \in Seq(Byte) /\ Len(c) = 4
  BY <1>1, EventFields, BytesAre
<1>3. z \in Seq(Byte) /\ Len(z) = 1
  <2>1. 0 \in Byte
    BY ByteRange
  <2> QED BY <1>1, <2>1
<1>4. o = (b \o c) \o z
  BY <1>1 DEF SetpointObject
<1>5. o \in Seq(Byte) /\ Len(o) = 8
  <2>1. PICK h : h = b \o c
    OBVIOUS
  <2>2. h \in Seq(Byte) /\ Len(h) = Len(b) + Len(c)
    BY <1>2, <2>1, JoinedBytes
  <2>3. o = h \o z
    BY <1>4, <2>1
  <2>4. o \in Seq(Byte) /\ Len(o) = Len(h) + Len(z)
    <3>1. h \o z \in Seq(Byte) /\ Len(h \o z) = Len(h) + Len(z)
      BY <1>3, <2>2, JoinedBytes
    <3> QED BY <2>3, <3>1
  <2> QED BY <1>2, <1>3, <2>2, <2>4
<1>6. Lies(b, o, 0) /\ Lies(c, o, 3)
  <2>1. Lies(b, (b \o c) \o z, 0) /\ Lies(c, (b \o c) \o z, Len(b))
    BY <1>2, <1>3, ThreeLie
  <2> QED BY <1>2, <1>4, <2>1
<1>7. PICK d, p, n : d = SubSeq(o, 4, 8) /\ p = 3 /\ n = 5
  OBVIOUS
<1>8. p \in Nat /\ n \in Nat /\ p + n <= Len(o) /\ d = SubSeq(o, p + 1, p + n)
  BY <1>5, <1>7
<1>9. d \in Seq(Byte) /\ Len(d) = n /\ \A k \in 1 .. n : d[k] = o[p + k]
  BY <1>5, <1>8, Slice
<1>10. Lies(d, o, 3)
  BY <1>5, <1>7, <1>9 DEF Lies
<1>11. Lies(c, d, 0)
  <2>1. 0 + Len(c) <= Len(d) /\ \A k \in 1 .. Len(c) : k \in 1 .. n /\ 0 + k = k
    BY <1>2, <1>7, <1>9
  <2>2. \A k \in 1 .. Len(c) : o[p + k] = c[k]
    BY <1>6, <1>7 DEF Lies
  <2>3. \A k \in 1 .. Len(c) : d[0 + k] = c[k]
    BY <1>9, <2>1, <2>2
  <2> QED BY <2>1, <2>3 DEF Lies
<1> QED BY <1>1, <1>5, <1>6, <1>7, <1>9, <1>10, <1>11 DEF SetpointHeld

LEMMA SetpointRead ==
    ASSUME NEW ev \in Events, InRange(Setpoint, ev), NEW d, SetpointHeld(ev, d)
    PROVE  Signed(SubSeq(d, 1, 4)) = ev.val
<1>1. PICK b : b = Bytes(ev.val, 4)
  OBVIOUS
<1>2. ev.val \in Int /\ FitsSigned(ev.val, 4)
  BY EventFields DEF InRange
<1>3. b \in Seq(Byte) /\ Len(b) = 4 /\ Signed(b) = ev.val
  BY <1>1, <1>2, BytesAre, SignedBytes
<1>4. d \in Seq(Byte) /\ Lies(b, d, 0) /\ 0 \in Nat
  BY <1>1 DEF SetpointHeld
<1>5. SubSeq(d, 1, 4) = b
  <2>1. SubSeq(d, 0 + 1, 0 + Len(b)) = b
    BY <1>3, <1>4, LiesExactly
  <2>2. 0 + 1 = 1 /\ 0 + Len(b) = 4
    BY <1>3
  <2> QED BY <2>1, <2>2
<1>6. PICK r : r = SubSeq(d, 1, 4)
  OBVIOUS
<1> QED BY <1>3, <1>5, <1>6

\* the objects of a batch, and their data
ObjectList(t, events) == [i \in 1 .. Len(events) |-> EncObj(t, events[i])]
DataList(t, events)   == [i \in 1 .. Len(events) |-> DataOf(t, events[i])]
SetpointList(events)  == [i \in 1 .. Len(events) |-> SetpointObject(events[i])]
HeldList(events)      == [i \in 1 .. Len(events) |-> SubSeq(SetpointObject(events[i]), 4, 8)]

LEMMA ListOfBytes ==
    ASSUME NEW n \in Nat, NEW s, s = [i \in 1 .. n |-> s[i]], \A i \in 1 .. n : s[i] \in Seq(Byte)
    PROVE  s \in Seq(Seq(Byte)) /\ Len(s) = n
OBVIOUS

LEMMA EncodedObjects ==
    ASSUME NEW t \in Encodable, NEW events \in Seq(Events),
           \A i \in 1 .. Len(events) : InRange(t, events[i])
    PROVE  /\ ObjectsOf(t, events, ObjectList(t, events), DataList(t, events))
           /\ DataList(t, events) \in Seq(Seq(Byte)) /\ Len(DataList(t, events)) = Len(events)
           /\ \A i \in 1 .. Len(events) :
                 /\ Len(DataList(t, events)[i]) = SizeOf(t)
                 /\ Carries(t, events[i], DataList(t, events)[i])
<1>1. PICK n, objs, data : n = Len(events) /\ objs = ObjectList(t, events)
                           /\ data = DataList(t, events)
  OBVIOUS
<1>2. n \in Nat
  BY <1>1
<1>3. /\ objs = [i \in 1 .. n |-> EncObj(t, events[i])]
      /\ data = [i \in 1 .. n |-> DataOf(t, events[i])]
  BY <1>1 DEF ObjectList, DataList
<1>4. ASSUME NEW i \in 1 .. n
      PROVE  /\ InRange(t, events[i]) /\ objs[i] \in Seq(Byte) /\ Len(objs[i]) = SizeOf(t) + 3
             /\ data[i] \in Seq(Byte) /\ Len(data[i]) = SizeOf(t)
             /\ Lies(Bytes(events[i].ioa, 3), objs[i], 0) /\ Lies(data[i], objs[i], 3)
             /\ Carries(t, events[i], data[i])
  <2>1. PICK ev, o, d : ev = events[i] /\ o = objs[i] /\ d = data[i]
    OBVIOUS
  <2>2. ev \in Events /\ InRange(t, ev) /\ o = EncObj(t, ev) /\ d = DataOf(t, ev)
    BY <1>1, <1>3, <2>1
  <2>3. o \in Seq(Byte) /\ Len(o) = SizeOf(t) + 3
    <3>1. o \in Seq(Byte) /\ Len(o) = 3 + SizeOf(t)
      BY <2>2, ObjectBytes
    <3>2. SizeOf(t) \in Nat
      BY Sizes
    <3> QED BY <3>1, <3>2
  <2>4. Lies(Bytes(ev.ioa, 3), o, 0)
    BY <2>2, ObjectLies
  <2>5. Carries(t, ev, d) /\ Lies(d, o, 3)
    BY <2>2, DataLies
  <2>6. d \in Seq(Byte) /\ Len(d) = SizeOf(t)
    BY <2>5 DEF Carries
  <2> QED BY <2>1, <2>2, <2>3, <2>4, <2>5, <2>6
<1>5. objs \in Seq(Seq(Byte)) /\ Len(objs) = n /\ data \in Seq(Seq(Byte)) /\ Len(data) = n
  <2>1. objs = [i \in 1 .. n |-> objs[i]] /\ data = [i \in 1 .. n |-> data[i]]
    BY <1>3
  <2>2. (\A i \in 1 .. n : objs[i] \in Seq(Byte)) /\ (\A i \in 1 .. n : data[i] \in Seq(Byte))
    BY <1>4
  <2> QED BY <1>2, <2>1, <2>2, ListOfBytes
<1>6. ObjectsOf(t, events, objs, data)
  BY <1>1, <1>4, <1>5 DEF ObjectsOf
<1> QED BY <1>1, <1>4, <1>5, <1>6

LEMMA SetpointObjects ==
    ASSUME NEW events \in Seq(Events), \A i \in 1 .. Len(events) : InRange(Setpoint, events[i])
    PROVE  /\ ObjectsOf(Setpoint, events, SetpointList(events), HeldList(events))
           /\ \A i \in 1 .. Len(events) : SetpointHeld(events[i], HeldList(events)[i])
<1>1. PICK n, objs, data : n = Len(events) /\ objs = SetpointList(events)
                           /\ data = HeldList(events)
  OBVIOUS
<1>2. n \in Nat
  BY <1>1
<1>3. /\ objs = [i \in 1 .. n |-> SetpointObject(events[i])]
      /\ data = [i \in 1 .. n |-> SubSeq(SetpointObject(events[i]), 4, 8)]
  BY <1>1 DEF SetpointList, HeldList
<1>4. SizeOf(Setpoint) = 5
  BY DEF SizeOf, ASDU_DATA_SIZE, Setpoint, OneByte, SinglePoint, DoublePoint, Query,
         StepPosition, Measured16, Timed
<1>5. ASSUME NEW i \in 1 .. n
      PROVE  /\ InRange(Setpoint, events[i]) /\ objs[i] \in Seq(Byte)
             /\ Len(objs[i]) = SizeOf(Setpoint) + 3
             /\ data[i] \in Seq(Byte) /\ Len(data[i]) = SizeOf(Setpoint)
             /\ Lies(Bytes(events[i].ioa, 3), objs[i], 0) /\ Lies(data[i], objs[i], 3)
             /\ SetpointHeld(events[i], data[i])
  <2>1. PICK ev, o, d : ev = events[i] /\ o = objs[i] /\ d = data[i]
    OBVIOUS
  <2>2. ev \in Events /\ InRange(Setpoint, ev) /\ o = SetpointObject(ev) /\ d = SubSeq(o, 4, 8)
    BY <1>1, <1>3, <2>1
  <2>3. /\ o \in Seq(Byte) /\ Len(o) = 8 /\ Lies(Bytes(ev.ioa, 3), o, 0)
        /\ SetpointHeld(ev, d) /\ Lies(d, o, 3)
    BY <2>2, SetpointLies
  <2>4. d \in Seq(Byte) /\ Len(d) = 5
    BY <2>3 DEF SetpointHeld
  <2> QED BY <1>4, <2>1, <2>2, <2>3, <2>4
<1>6. objs \in Seq(Seq(Byte)) /\ Len(objs) = n
  <2>1. objs = [i \in 1 .. n |-> objs[i]]
    BY <1>3
  <2>2. \A i \in 1 .. n : objs[i] \in Seq(Byte)
    BY <1>5
  <2> QED BY <1>2, <2>1, <2>2, ListOfBytes
<1>7. ObjectsOf(Setpoint, events, objs, data)
  BY <1>1, <1>5, <1>6 DEF ObjectsOf
<1> QED BY <1>1, <1>5, <1>7

-----------------------------------------------------------------------------
(* Each frame is understood *)

\* What the frame of a message says, and what its objects hold.
Conveyed(m, data) ==
    /\ Means(Encoded(m), m.ns, m.nr, m.asdu, m.cot, m.ca, m.events, data)
    /\ m.events \in Seq(Events)
    /\ \A i \in 1 .. Len(m.events) :
          /\ InRange(m.asdu, m.events[i])
          /\ IF m.asdu = Setpoint THEN SetpointHeld(m.events[i], data[i])
             ELSE m.asdu \in Encodable /\ Carries(m.asdu, m.events[i], data[i])

LEMMA WholeLength ==
    ASSUME NEW f \in WholeFrames
    PROVE  Len(f) <= 257
<1>1. f \in Seq(Byte) /\ Len(f) \in Nat /\ Len(f) >= 6 /\ f[2] = Len(f) - 2
  BY WholeFrame
<1>2. f[2] \in Byte
  <2>1. 2 \in 1 .. Len(f)
    BY <1>1
  <2> QED BY <1>1, <2>1
<1>3. f[2] <= 255
  <2>1. f[2] \in Nat
    BY <1>2, ByteRange
  <2> QED BY <1>2, <2>1, ByteRange
<1> QED BY <1>1, <1>3

LEMMA MessageMeans ==
    ASSUME NEW m, m.kind \in {"I", "SQ"}, Legal(m), FromBatch(m) => ~BuildRaises(m)
    PROVE  \E data : Conveyed(m, data)
<1>1. PICK f, t, n, events : f = Encoded(m) /\ t = m.asdu /\ events = m.events /\ n = Len(events)
  OBVIOUS
<1>2. f \in WholeFrames /\ Len(f) <= 257
  <2>1. f \in WholeFrames
    BY <1>1, MessageFrames
  <2> QED BY <2>1, WholeLength
<1>3. LegalBatch(m)
  BY DEF Legal
<1>4. /\ t \in IF m.kind = "I" THEN Encodable \union {Setpoint} ELSE Encodable
      /\ events \in Seq(Events) /\ events # <<>>
      /\ m.ns \in Nat /\ m.nr \in Nat /\ m.cot \in Nat /\ m.ca \in Nat
      /\ Fits(2 * m.ns, 2) /\ Fits(2 * m.nr, 2) /\ Fits(m.cot, 2) /\ Fits(m.ca, 2)
      /\ m.kind = "SQ" => \A i \in 1 .. Len(events) : events[i].ioa = events[1].ioa + i - 1
      /\ IF FromBatch(m) THEN Len(events) <= MaxObj(t)
         ELSE Len(events) < 128 /\ ValuesInRange(m)
  BY <1>1, <1>3 DEF LegalBatch, SequenceNumbers, Words
<1>5. ValuesInRange(m) /\ n < 128 /\ n \in Nat
  <2>1. n \in Nat
    BY <1>1, <1>4
  <2>2. CASE FromBatch(m)
    <3>1. t \in Encodable /\ n <= MaxObj(t)
      BY <1>1, <1>4, <2>2 DEF FromBatch
    <3>2. n < 128
      BY <2>1, <3>1, BatchFits
    <3>3. ValuesInRange(m)
      BY <2>2 DEF BuildRaises
    <3> QED BY <2>1, <3>2, <3>3
  <2>3. CASE ~FromBatch(m)
    BY <1>1, <1>4, <2>1, <2>3
  <2> QED BY <2>2, <2>3
<1>6. \A i \in 1 .. Len(events) : InRange(t, events[i])
  BY <1>1, <1>5 DEF ValuesInRange
<1>7. n \in Byte /\ 128 + n \in Byte
  BY <1>5, ByteRange
<1>8. CASE m.kind = "I" /\ t \in Encodable
  <2>1. PICK objs, data : objs = ObjectList(t, events) /\ data = DataList(t, events)
    OBVIOUS
  <2>2. /\ ObjectsOf(t, events, objs, data)
        /\ \A i \in 1 .. Len(events) : Carries(t, events[i], data[i])
    BY <1>4, <1>6, <1>8, <2>1, EncodedObjects
  <2>3. t \in Byte /\ t # Setpoint /\ SizeOf(t) \in {1, 2, 3, 5, 8, 9, 10, 12} /\ SizeOf(t) \in Nat
    BY <1>8, TypeNumbers, Sizes
  <2>4. PICK body : body = FlattenSeq(objs)
    OBVIOUS
  <2>5. body \in Seq(Byte)
    <3>1. PICK k : k = SizeOf(t) + 3
      OBVIOUS
    <3>2. k \in Nat /\ objs \in Seq(Seq(Byte)) /\ \A i \in 1 .. Len(objs) : Len(objs[i]) = k
      BY <2>2, <2>3, <3>1 DEF ObjectsOf
    <3> QED BY <2>4, <3>2, FlattenSeqs
  <2>6. f = IFrame(m.ns, m.nr, Asdu(t, n, m.cot, m.ca, body))
    BY <1>1, <1>8, <2>1, <2>3, <2>4 DEF Encoded, BuildIFrame, AsduOf, ObjectList
  <2>7. Says(f, m.ns, m.nr, t, n, m.cot, m.ca, body)
    BY <1>4, <1>7, <2>3, <2>5, <2>6 DEF Says
  <2>8. Says(f, m.ns, m.nr, t, Len(events), m.cot, m.ca, FlattenSeq(objs)) /\ Len(events) < 128
    BY <1>1, <1>5, <2>4, <2>7
  <2>9. Means(f, m.ns, m.nr, t, m.cot, m.ca, events, data)
    BY <1>2, <1>4, <2>2, <2>3, <2>8, ObjectsMean
  <2> QED BY <1>1, <1>4, <1>6, <1>8, <2>2, <2>3, <2>9 DEF Conveyed
<1>9. CASE m.kind = "SQ"
  <2>1. PICK data : data = DataList(t, events)
    OBVIOUS
  <2>2. /\ data \in Seq(Seq(Byte)) /\ Len(data) = Len(events)
        /\ \A i \in 1 .. Len(events) : Len(data[i]) = SizeOf(t) /\ Carries(t, events[i], data[i])
    BY <1>4, <1>6, <1>9, <2>1, EncodedObjects
  <2>3. /\ t \in Encodable /\ t \in Byte /\ t # Setpoint
        /\ SizeOf(t) \in {1, 2, 3, 5, 8, 9, 10, 12} /\ SizeOf(t) \in Nat
    BY <1>4, <1>9, TypeNumbers, Sizes
  <2>4. PICK b, flat, body : /\ b = Bytes(events[1].ioa, 3) /\ flat = FlattenSeq(data)
                             /\ body = b \o flat
    OBVIOUS
  <2>5. body \in Seq(Byte)
    <3>1. PICK k : k = SizeOf(t)
      OBVIOUS
    <3>2. k \in Nat /\ \A i \in 1 .. Len(data) : Len(data[i]) = k
      BY <2>2, <2>3, <3>1
    <3>3. flat \in Seq(Byte)
      BY <2>2, <2>4, <3>2, FlattenSeqs
    <3>4. b \in Seq(Byte)
      <4>1. events[1] \in Events
        BY <1>4
      <4> QED BY <2>4, <4>1, EventFields, BytesAre
    <3> QED BY <2>4, <3>3, <3>4, JoinedBytes
  <2>6. f = IFrame(m.ns, m.nr, Asdu(t, 128 + n, m.cot, m.ca, body))
    BY <1>1, <1>9, <2>1, <2>4 DEF Encoded, Sequential, DataList, DataOf
  <2>7. Says(f, m.ns, m.nr, t, 128 + n, m.cot, m.ca, body)
    BY <1>4, <1>7, <2>3, <2>5, <2>6 DEF Says
  <2>8. /\ Says(f, m.ns, m.nr, t, 128 + Len(events), m.cot, m.ca,
                Bytes(events[1].ioa, 3) \o FlattenSeq(data))
        /\ Len(events) < 128 /\ InRange(t, events[1])
    <3>1. 1 \in 1 .. Len(events)
      BY <1>4
    <3> QED BY <1>1, <1>5, <1>6, <2>4, <2>7, <3>1
  <2>9. Means(f, m.ns, m.nr, t, m.cot, m.ca, events, data)
    <3>1. \A i \in 1 .. Len(events) : events[i].ioa = events[1].ioa + i - 1
      BY <1>4, <1>9
    <3>2. \A i \in 1 .. Len(events) : Len(data[i]) = SizeOf(t)
      BY <2>2
    <3> QED BY <1>2, <1>4, <2>2, <2>3, <2>8, <3>1, <3>2, SequenceMeans
  <2> QED BY <1>1, <1>4, <1>6, <2>2, <2>3, <2>9 DEF Conveyed
<1>10. CASE m.kind = "I" /\ t = Setpoint
  <2>1. PICK objs, data : objs = SetpointList(events) /\ data = HeldList(events)
    OBVIOUS
  <2>2. /\ ObjectsOf(t, events, objs, data)
        /\ \A i \in 1 .. Len(events) : SetpointHeld(events[i], data[i])
    BY <1>4, <1>6, <1>10, <2>1, SetpointObjects
  <2>3. t \in Byte /\ SizeOf(t) \in {1, 2, 3, 5, 8, 9, 10, 12} /\ SizeOf(t) \in Nat
    <3>1. SizeOf(t) = 5
      BY <1>10 DEF SizeOf, ASDU_DATA_SIZE, Setpoint, OneByte, SinglePoint, DoublePoint, Query,
                   StepPosition, Measured16, Timed
    <3>2. t \in Byte
      BY <1>10, ByteRange DEF Setpoint
    <3> QED BY <3>1, <3>2
  <2>4. PICK body : body = FlattenSeq(objs)
    OBVIOUS
  <2>5. body \in Seq(Byte)
    <3>1. PICK k : k = SizeOf(t) + 3
      OBVIOUS
    <3>2. k \in Nat /\ objs \in Seq(Seq(Byte)) /\ \A i \in 1 .. Len(objs) : Len(objs[i]) = k
      BY <2>2, <2>3, <3>1 DEF ObjectsOf
    <3> QED BY <2>4, <3>2, FlattenSeqs
  <2>6. f = IFrame(m.ns, m.nr, Asdu(t, n, m.cot, m.ca, body))
    BY <1>1, <1>10, <2>1, <2>4 DEF Encoded, SetpointFrame, SetpointList, SetpointObject
  <2>7. Says(f, m.ns, m.nr, t, n, m.cot, m.ca, body)
    BY <1>4, <1>7, <2>3, <2>5, <2>6 DEF Says
  <2>8. Says(f, m.ns, m.nr, t, Len(events), m.cot, m.ca, FlattenSeq(objs)) /\ Len(events) < 128
    BY <1>1, <1>5, <2>4, <2>7
  <2>9. Means(f, m.ns, m.nr, t, m.cot, m.ca, events, data)
    BY <1>2, <1>4, <2>2, <2>3, <2>8, ObjectsMean
  <2> QED BY <1>1, <1>4, <1>6, <1>10, <2>2, <2>9 DEF Conveyed
<1> QED BY <1>4, <1>8, <1>9, <1>10

LEMMA NumbersSeen ==
    ASSUME NEW m, m.kind \in {"I", "SQ"}, NEW data, Conveyed(m, data), NEW f, f = Encoded(m)
    PROVE  /\ IsI(f) /\ f[7] = m.asdu /\ Number(f, 3) = m.ns /\ Number(f, 5) = m.nr
           /\ \E a : /\ a = SubSeq(f, 7, Len(f)) /\ ~(Len(a) < 6) /\ a[1] = m.asdu
                     /\ Unsigned(SubSeq(a, 3, 4)) = m.cot /\ Unsigned(SubSeq(a, 5, 6)) = m.ca
                     /\ Parsed(a) = Listed(m.events, data)
<1>1. Means(f, m.ns, m.nr, m.asdu, m.cot, m.ca, m.events, data)
  BY DEF Conveyed
<1>2. /\ f[3] % 2 = 0 /\ f[7] = m.asdu
      /\ Unsigned(SubSeq(f, 3, 4)) \div 2 = m.ns /\ Unsigned(SubSeq(f, 5, 6)) \div 2 = m.nr
  BY <1>1 DEF Means
<1>3. 3 + 1 = 4 /\ 5 + 1 = 6
  OBVIOUS
<1>4. Number(f, 3) = m.ns /\ Number(f, 5) = m.nr
  BY <1>2, <1>3 DEF Number
<1> QED BY <1>1, <1>2, <1>4 DEF Means, IsI

\* The client understands what a server's I-frame says.
LEMMA ClientUnderstands ==
    ASSUME NEW m, m.kind \in {"I", "SQ"}, NEW data, Conveyed(m, data), m.asdu # Setpoint,
           end = "client"
    PROVE  Understood(m, Seen(end, Encoded(m)))
<1>1. PICK f, g, t, events, n : /\ f = Encoded(m) /\ g = Seen(end, f) /\ t = m.asdu
                                /\ events = m.events /\ n = Len(events)
  OBVIOUS
<1>2. IsI(f) /\ f[7] = t /\ Number(f, 3) = m.ns /\ Number(f, 5) = m.nr
  BY <1>1, NumbersSeen
<1>3. PICK a : /\ a = SubSeq(f, 7, Len(f)) /\ ~(Len(a) < 6) /\ a[1] = t
               /\ Unsigned(SubSeq(a, 3, 4)) = m.cot /\ Unsigned(SubSeq(a, 5, 6)) = m.ca
               /\ Parsed(a) = Listed(events, data)
  BY <1>1, NumbersSeen
<1>4. g = [kind |-> "I", ns |-> m.ns, nr |-> m.nr, asdu |-> t, objs |-> DecodeIFrameObjects(f)]
  BY <1>1, <1>2 DEF Seen
<1>5. PICK objs : objs = Parsed(a)
  OBVIOUS
<1>6. /\ events \in Seq(Events) /\ n \in Nat
      /\ \A i \in 1 .. n : InRange(t, events[i]) /\ t \in Encodable /\ Carries(t, events[i], data[i])
  BY <1>1 DEF Conveyed
<1>7. /\ objs = [i \in 1 .. n |-> [ioa |-> events[i].ioa, data |-> data[i]]] /\ Len(objs) = n
  <2>1. objs = [i \in 1 .. n |-> [ioa |-> events[i].ioa, data |-> data[i]]]
    BY <1>1, <1>3, <1>5 DEF Listed
  <2> QED BY <1>6, <2>1
<1>8. ASSUME n # 0 PROVE t \in DOMAIN ASDU_DATA_SIZE
  <2>1. 1 \in 1 .. n
    BY <1>6, <1>8
  <2>2. t \in Encodable
    BY <1>6, <2>1
  <2> QED BY <2>2 DEF ASDU_DATA_SIZE
<1>9. PICK seen : seen = DecodeIFrameObjects(f)
  OBVIOUS
<1>10. CASE t \in DOMAIN ASDU_DATA_SIZE
  <2>1. seen = [i \in 1 .. n |-> [obj |-> DecodeObject(t, objs[i]), asdu |-> t,
                                  cot |-> m.cot, coa |-> m.ca]]
    BY <1>3, <1>5, <1>7, <1>9, <1>10 DEF DecodeIFrameObjects
  <2>2. Len(seen) = n
    BY <1>6, <2>1
  <2>3. ASSUME NEW i \in 1 .. n
        PROVE  /\ Arrives(t, events[i], seen[i].obj)
               /\ seen[i].asdu = t /\ seen[i].cot = m.cot /\ seen[i].coa = m.ca
    <3>1. PICK ev, o, d : ev = events[i] /\ d = data[i] /\ o = [ioa |-> ev.ioa, data |-> d]
      OBVIOUS
    <3>2. ev \in Events /\ t \in Encodable /\ InRange(t, ev) /\ Carries(t, ev, d)
      BY <1>1, <1>6, <3>1
    <3>3. objs[i] = o
      BY <1>7, <3>1
    <3>4. Arrives(t, ev, DecodeObject(t, o))
      BY <3>1, <3>2, ObjectRead
    <3> QED BY <2>1, <3>1, <3>3, <3>4
  <2> QED BY <1>1, <1>4, <1>9, <2>2, <2>3 DEF Understood
<1>11. CASE t \notin DOMAIN ASDU_DATA_SIZE
  <2>1. n = 0
    BY <1>8, <1>11
  <2>2. seen = <<>>
    BY <1>3, <1>9, <1>11 DEF DecodeIFrameObjects
  <2> QED BY <1>1, <1>4, <1>9, <2>1, <2>2 DEF Understood
<1> QED BY <1>10, <1>11

\* The server understands what a client's I-frame says.
LEMMA ServerUnderstands ==
    ASSUME NEW m, m.kind \in {"I", "SQ"}, NEW data, Conveyed(m, data), end = "server"
    PROVE  Understood(m, Seen(end, Encoded(m)))
<1>1. PICK f, g, t, events, n : /\ f = Encoded(m) /\ g = Seen(end, f) /\ t = m.asdu
                                /\ events = m.events /\ n = Len(events)
  OBVIOUS
<1>2. IsI(f) /\ f[7] = t /\ Number(f, 3) = m.ns /\ Number(f, 5) = m.nr
  BY <1>1, NumbersSeen
<1>3. PICK a : /\ a = SubSeq(f, 7, Len(f)) /\ a[1] = t /\ Parsed(a) = Listed(events, data)
  BY <1>1, NumbersSeen
<1>4. PICK seen : seen = Commands(f)
  OBVIOUS
<1>5. g = [kind |-> "I", ns |-> m.ns, nr |-> m.nr, asdu |-> t, objs |-> seen]
  BY <1>1, <1>2, <1>4 DEF Seen
<1>6. CASE t \notin {Command, Setpoint}
  <2>1. seen = <<>>
    BY <1>3, <1>4, <1>6 DEF Commands
  <2> QED BY <1>1, <1>5, <1>6, <2>1 DEF Understood
<1>7. CASE t \in {Command, Setpoint}
  <2>1. PICK objs : objs = Parsed(a)
    OBVIOUS
  <2>2. /\ events \in Seq(Events) /\ n \in Nat
        /\ \A i \in 1 .. n :
              /\ InRange(t, events[i])
              /\ IF t = Setpoint THEN SetpointHeld(events[i], data[i])
                 ELSE t \in Encodable /\ Carries(t, events[i], data[i])
    BY <1>1 DEF Conveyed
  <2>3. /\ objs = [i \in 1 .. n |-> [ioa |-> events[i].ioa, data |-> data[i]]] /\ Len(objs) = n
    <3>1. objs = [i \in 1 .. n |-> [ioa |-> events[i].ioa, data |-> data[i]]]
      BY <1>1, <1>3, <2>1 DEF Listed
    <3> QED BY <2>2, <3>1
  <2>4. seen = [i \in 1 .. n |->
                  [ioa |-> objs[i].ioa,
                   val |-> IF t = Setpoint THEN Signed(SubSeq(objs[i].data, 1, 4))
                           ELSE Halves(objs[i].data[1] % 2)]]
    BY <1>3, <1>4, <1>7, <2>1, <2>3 DEF Commands
  <2>5. Len(seen) = n
    BY <2>2, <2>4
  <2>6. ASSUME NEW i \in 1 .. n
        PROVE  /\ seen[i].ioa = events[i].ioa
               /\ Holds(t, events[i].val) => seen[i].val = Shown(t, events[i].val)
    <3>1. PICK ev, d : ev = events[i] /\ d = data[i]
      OBVIOUS
    <3>2. ev \in Events /\ InRange(t, ev)
      BY <1>1, <2>2, <3>1
    <3>3. objs[i] = [ioa |-> ev.ioa, data |-> d]
      BY <2>3, <3>1
    <3>4. seen[i] = [ioa |-> ev.ioa, val |-> IF t = Setpoint THEN Signed(SubSeq(d, 1, 4))
                                             ELSE Halves(d[1] % 2)]
      BY <2>4, <3>3
    <3>5. CASE t = Setpoint
      <4>1. SetpointHeld(ev, d)
        BY <2>2, <3>1, <3>5
      <4>2. Signed(SubSeq(d, 1, 4)) = ev.val
        BY <3>2, <3>5, <4>1, SetpointRead
      <4>3. Shown(t, ev.val) = ev.val
        BY <3>5 DEF Shown
      <4>4. PICK z : z = Signed(SubSeq(d, 1, 4))
        OBVIOUS
      <4>5. seen[i] = [ioa |-> ev.ioa, val |-> z]
        BY <3>4, <3>5, <4>4
      <4> QED BY <3>1, <4>2, <4>3, <4>4, <4>5
    <3>6. CASE t # Setpoint
      <4>1. t = Command /\ t \in Encodable /\ Carries(t, ev, d)
        BY <1>7, <2>2, <3>1, <3>6
      <4>2. t \in SinglePoint
        BY <4>1 DEF Command, SinglePoint
      <4>3. DecVal(t, d) = [val |-> Halves(d[1] % 2), q |-> HighBits(d[1], 16)]
        <5>1. t \in OneByte /\ t \notin BitString \union Float \union Counter
          <6>1. t \in OneByte
            BY <4>2 DEF OneByte
          <6> QED BY <4>1, <6>1, LaterKinds
        <5> QED BY <4>1, <4>2, <5>1, Kinds DEF DecVal
      <4>4. Holds(t, ev.val) => DecVal(t, d).val = Shown(t, ev.val)
        BY <3>2, <4>1, ValueRead DEF Carries
      <4>5. seen[i].ioa = ev.ioa /\ seen[i].val = Halves(d[1] % 2)
        BY <3>4, <3>6
      <4> QED BY <3>1, <4>3, <4>4, <4>5
    <3> QED BY <3>5, <3>6
  <2> QED BY <1>1, <1>5, <1>7, <2>5, <2>6 DEF Understood
<1> QED BY <1>6, <1>7

LEMMA ControlUnderstood ==
    ASSUME NEW m, m.kind \in {"S", "U"}, Legal(m)
    PROVE  Understood(m, Seen(end, Encoded(m)))
<1>1. PICK f, g : f = Encoded(m) /\ g = Seen(end, f)
  OBVIOUS
<1>2. CASE m.kind = "S"
  <2>1. PICK nr, h, b : nr = m.nr /\ h = <<Start, 4, 1, 0>> /\ b = Bytes(2 * nr, 2)
    OBVIOUS
  <2>2. nr \in Nat /\ 2 * nr \in Nat /\ Fits(2 * nr, 2)
    <3>1. nr \in Nat /\ Fits(2 * nr, 2)
      BY <1>2, <2>1 DEF Legal, SequenceNumbers
    <3> QED BY <3>1
  <2>3. f = h \o b
    BY <1>1, <1>2, <2>1 DEF Encoded, SFrame
  <2>4. h \in Seq(Byte) /\ Len(h) = 4 /\ h[3] = 1
    <3>1. Start \in Byte /\ 4 \in Byte /\ 1 \in Byte /\ 0 \in Byte
      BY DEF Start, Byte
    <3> QED BY <2>1, <3>1
  <2>5. b \in Seq(Byte) /\ Len(b) = 2
    BY <2>1, <2>2, BytesAre
  <2>6. f \in Seq(Byte) /\ Lies(h, f, 0) /\ Lies(b, f, 4)
    BY <2>3, <2>4, <2>5, JoinLies
  <2>7. f[3] = 1
    <3>1. 3 \in 1 .. Len(h) /\ 0 + 3 = 3
      BY <2>4
    <3> QED BY <2>4, <2>6, <3>1 DEF Lies
  <2>8. ~IsI(f) /\ ~IsU(f)
    BY <2>7 DEF IsI, IsU
  <2>9. Number(f, 5) = nr
    <3>1. PICK k : k = 2 * nr
      OBVIOUS
    <3>2. k \in Nat /\ Fits(k, 2) /\ Lies(Bytes(k, 2), f, 4)
      BY <2>1, <2>2, <2>6, <3>1
    <3>3. Unsigned(SubSeq(f, 4 + 1, 4 + 2)) = k
      BY <2>6, <3>2, TwoBytesRead
    <3>4. 4 + 1 = 5 /\ 4 + 2 = 6 /\ 5 + 1 = 6 /\ (2 * nr) \div 2 = nr
      BY <2>2
    <3>5. PICK z : z = Unsigned(SubSeq(f, 5, 6))
      OBVIOUS
    <3>6. z = k
      BY <3>3, <3>4, <3>5
    <3> QED BY <3>1, <3>4, <3>5, <3>6 DEF Number
  <2>10. g = [kind |-> "S", nr |-> m.nr]
    BY <1>1, <2>1, <2>8, <2>9 DEF Seen
  <2> QED BY <1>1, <1>2, <2>10 DEF Understood
<1>3. CASE m.kind = "U"
  <2>1. PICK u : u = m.u
    OBVIOUS
  <2>2. u \in 0 .. 255 /\ u % 4 = 3
    BY <1>3, <2>1 DEF Legal
  <2>3. f[3] = u
    BY <1>1, <1>3, <2>1 DEF Encoded, UFrame
  <2>4. u % 2 = 1 /\ (u \div 2) % 2 = 1
    BY <2>2
  <2>5. ~IsI(f) /\ IsU(f)
    BY <2>3, <2>4 DEF IsI, IsU
  <2>6. g = [kind |-> "U", u |-> m.u]
    BY <1>1, <2>1, <2>3, <2>5 DEF Seen
  <2> QED BY <1>1, <1>3, <2>6 DEF Understood
<1> QED BY <1>2, <1>3

LEMMA MessageUnderstood ==
    ASSUME TypeOK, NEW m \in Origin(end), m.kind # "stray", FromBatch(m) => ~BuildRaises(m)
    PROVE  Understood(m, Seen(end, Encoded(m)))
<1>1. m \in Messages /\ m.kind \in {"I", "SQ", "S", "U"} /\ Legal(m)
  BY OriginMessages, MessagesLegal
<1>2. CASE m.kind \in {"S", "U"}
  BY <1>1, <1>2, ControlUnderstood
<1>3. CASE m.kind \in {"I", "SQ"}
  <2>1. PICK data : Conveyed(m, data)
    BY <1>1, <1>3, MessageMeans
  <2>2. CASE end = "client"
    <3>1. m.asdu # Setpoint
      <4>1. CASE m.kind = "I"
        BY <2>2, <4>1, WireAssumption DEF Origin
      <4>2. CASE m.kind = "SQ"
        <5>1. LegalBatch(m)
          BY <1>1, <4>2 DEF Legal
        <5>2. m.asdu \in Encodable
          BY <4>2, <5>1 DEF LegalBatch
        <5> QED BY <5>2, TypeNumbers
      <4> QED BY <1>3, <4>1, <4>2
    <3> QED BY <1>3, <2>1, <2>2, <3>1, ClientUnderstands
  <2>3. CASE end = "server"
    BY <1>3, <2>1, <2>3, ServerUnderstands
  <2> QED BY <2>2, <2>3 DEF TypeOK
<1> QED BY <1>1, <1>2, <1>3

LEMMA AllUnderstood ==
    ASSUME IInv
    PROVE  RoundTrip
<1>1. TypeOK /\ Sendable /\ Delivered
  BY DEF IInv
<1>2. Len(got) <= Len(sent) /\ \A i \in 1 .. Len(got) : got[i] = Seen(end, Encoded(sent[i]))
  BY <1>1 DEF Delivered
<1>3. ASSUME NEW i \in 1 .. Len(got) PROVE Understood(sent[i], got[i])
  <2>1. i \in 1 .. Len(sent)
    <3>1. Len(got) \in Nat /\ Len(sent) \in Nat
      BY <1>1 DEF Delivered, Sendable
    <3> QED BY <1>2, <3>1
  <2>2. PICK m : m = sent[i]
    OBVIOUS
  <2>3. m \in Origin(end)
    BY <1>1, <2>1, <2>2, SentFrames
  <2>4. m.kind # "stray" /\ (FromBatch(m) => ~BuildRaises(m))
    BY <1>1, <2>1, <2>2 DEF Sendable
  <2>5. Understood(m, Seen(end, Encoded(m)))
    BY <1>1, <2>3, <2>4, MessageUnderstood
  <2> QED BY <1>2, <2>2, <2>5
<1> QED BY <1>2, <1>3 DEF RoundTrip

-----------------------------------------------------------------------------
(* Theorems *)

\* What the receiver's loop and the sender keep is of its type: bytes, and messages of the
\* scripts.
THEOREM TypeCorrect == Spec => []TypeOK
<1>1. IInv => TypeOK
  BY DEF IInv
<1> QED BY <1>1, Inductive, PTL

\* However TCP cuts the bytes, and whatever without a start byte lies between the frames,
\* process_frame and proc_frame are given the frames that were built, whole, once each and
\* in their order.
THEOREM Reassembles == Spec => []Reassembled
<1>1. IInv => Reassembled
  BY DEF IInv, Delivered, Reassembled
<1> QED BY <1>1, Inductive, PTL

\* A receiver that waits for bytes holds no complete frame, and so the server's check of
\* the buffer's size never closes the session of a client that sends legal frames.
THEOREM FramesNeverWait == Spec => []NoFrameWaits
<1>1. IInv => NoFrameWaits
  BY ShortWaits
<1> QED BY <1>1, Inductive, PTL

\* The batch that client_send makes always fits the length byte: build_i_frame raises
\* only for a value out of its type's range.
THEOREM BatchesFit == Spec => []FullBatchFits
<1>1. IInv => FullBatchFits
  BY OnlyValuesRaise DEF IInv
<1> QED BY <1>1, Inductive, PTL

\* However TCP cuts the bytes, and whatever the messages, each frame is processed in its
\* order and says to the receiving end what was sent: decoding is the inverse of encoding.
THEOREM FramesUnderstood == Spec => []RoundTrip
<1>1. IInv => RoundTrip
  BY AllUnderstood
<1> QED BY <1>1, Inductive, PTL
=============================================================================
