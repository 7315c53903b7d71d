---------------------------- MODULE CodecProofs ----------------------------
(***************************************************************************)
(* Proofs about Codec: what is encoded is a frame, and decoding gives back *)
(* what was encoded, for any events whose numbers fit their types.         *)
(***************************************************************************)
EXTENDS Codec, WellFoundedInduction, TLAPS

-----------------------------------------------------------------------------
(* Sets of natural numbers *)

\* A set of natural numbers has a least element.
LEMMA LeastElement ==
    ASSUME NEW T \in SUBSET Nat, T # {}
    PROVE  \E n \in T : \A m \in T : n <= m
<1> DEFINE R == OpToRel(<, Nat)
<1>1. IsWellFoundedOn(R, Nat)
  BY NatLessThanWellFounded
<1>2. \A x, y \in Nat : x < y => <<x, y>> \in R
  BY DEF OpToRel
<1> HIDE DEF R
<1>3. PICK n \in T : \A m \in T : ~(<<m, n>> \in R)
  BY <1>1, WFMin
<1>4. \A m \in T : ~(m < n)
  BY <1>2, <1>3
<1>5. \A m \in T : n <= m
  BY <1>4
<1> QED BY <1>5

\* Induction over a set: the least number outside would have a predecessor in it.
LEMMA Induction ==
    ASSUME NEW B \in SUBSET Nat, 0 \in B, \A n \in B : n + 1 \in B
    PROVE  B = Nat
<1> DEFINE C == Nat \ B
<1>1. ASSUME C # {} PROVE FALSE
  <2>1. PICK n \in C : \A m \in C : n <= m
    BY <1>1, LeastElement
  <2>2. n \in Nat /\ n # 0 /\ n - 1 \in Nat /\ (n - 1) + 1 = n
    OBVIOUS
  <2>3. n - 1 \notin C
    BY <2>1, <2>2
  <2> QED BY <2>2, <2>3
<1> QED BY <1>1

-----------------------------------------------------------------------------
(* What FlattenSeq makes of sequences of one length *)

Step(s, f, i) == IF i = 1 THEN s[i] ELSE f[i - 1] \o s[i]
Flat(s, n, f) == f = [i \in 1 .. n |-> Step(s, f, i)]

LEMMA Concat ==
    ASSUME NEW T, NEW a \in Seq(T), NEW b \in Seq(T)
    PROVE  /\ a \o b \in Seq(T) /\ Len(a \o b) = Len(a) + Len(b)
           /\ \A i \in 1 .. Len(a) + Len(b) :
                 (a \o b)[i] = IF i <= Len(a) THEN a[i] ELSE b[i - Len(a)]
OBVIOUS

\* The bytes b lie in s behind the first p.
Lies(b, s, p) == p + Len(b) <= Len(s) /\ \A k \in 1 .. Len(b) : s[p + k] = b[k]

LEMMA JoinLies ==
    ASSUME NEW T, NEW b \in Seq(T), NEW c \in Seq(T)
    PROVE  /\ Lies(b, b \o c, 0) /\ Lies(c, b \o c, Len(b))
           /\ b \o c \in Seq(T) /\ Len(b \o c) = Len(b) + Len(c)
<1>1. PICK s : s = b \o c
  OBVIOUS
<1>2. /\ s \in Seq(T) /\ Len(s) = Len(b) + Len(c)
      /\ \A i \in 1 .. Len(b) : s[i] = b[i]
      /\ \A i \in 1 .. Len(c) : s[Len(b) + i] = c[i]
  BY <1>1, Concat
<1>3. Len(b) \in Nat /\ Len(c) \in Nat
  OBVIOUS
<1>4. \A i \in Nat : 0 + i = i
  OBVIOUS
<1>5. Lies(b, s, 0)
  BY <1>2, <1>3, <1>4 DEF Lies
<1>6. Lies(c, s, Len(b))
  BY <1>2, <1>3 DEF Lies
<1> QED BY <1>1, <1>2, <1>5, <1>6

LEMMA LiesDeeper ==
    ASSUME NEW T, NEW b \in Seq(T), NEW c \in Seq(T), NEW s \in Seq(T), NEW p \in Nat,
           NEW q \in Nat, Lies(b, c, q), Lies(c, s, p)
    PROVE  Lies(b, s, p + q)
<1>1. PICK l, m, n : l = Len(b) /\ m = Len(c) /\ n = Len(s)
  OBVIOUS
<1>2. /\ l \in Nat /\ m \in Nat /\ n \in Nat /\ q + l <= m /\ p + m <= n
  BY <1>1 DEF Lies
<1>3. \A k \in 1 .. l : c[q + k] = b[k]
  BY <1>1 DEF Lies
<1>4. \A k \in 1 .. m : s[p + k] = c[k]
  BY <1>1 DEF Lies
<1>5. ASSUME NEW k \in 1 .. l PROVE s[(p + q) + k] = b[k]
  <2>1. q + k \in 1 .. m /\ p + (q + k) = (p + q) + k
    BY <1>2
  <2>2. s[p + (q + k)] = c[q + k]
    BY <1>4, <2>1
  <2> QED BY <1>3, <2>1, <2>2
<1>6. (p + q) + l <= n
  BY <1>2
<1> QED BY <1>1, <1>5, <1>6 DEF Lies

\* its recursive function exists
LEMMA FlatExists ==
    ASSUME NEW s, NEW n \in Nat
    PROVE  \E f : Flat(s, n, f)
<1> DEFINE B == {k \in Nat : \E f : Flat(s, k, f)}
<1>1. 0 \in B
  <2>1. Flat(s, 0, [i \in 1 .. 0 |-> 0])
    BY DEF Flat
  <2> QED BY <2>1
<1>2. ASSUME NEW k \in B PROVE k + 1 \in B
  <2>1. PICK f : Flat(s, k, f)
    OBVIOUS
  <2> DEFINE g == [i \in 1 .. k + 1 |-> IF i = k + 1 THEN Step(s, f, i) ELSE f[i]]
  <2>2. k \in Nat /\ \A i \in 1 .. k + 1 : i # k + 1 => i \in 1 .. k
    OBVIOUS
  <2>3. \A i \in 1 .. k : f[i] = Step(s, f, i)
    BY <2>1 DEF Flat
  <2>4. \A i \in 1 .. k + 1 : i # 1 => i - 1 \in 1 .. k
    BY <2>2
  <2>5. \A i \in 1 .. k + 1 : i # 1 => g[i - 1] = f[i - 1]
    BY <2>2, <2>4
  <2>6. \A i \in 1 .. k + 1 : Step(s, g, i) = Step(s, f, i)
    <3> HIDE DEF g
    <3> QED BY <2>5 DEF Step
  <2>7. \A i \in 1 .. k + 1 : g[i] = Step(s, f, i)
    BY <2>2, <2>3
  <2>8. Flat(s, k + 1, g)
    BY <2>6, <2>7 DEF Flat
  <2> QED BY <2>8
<1> HIDE DEF B
<1>3. B = Nat
  <2>1. B \in SUBSET Nat
    BY DEF B
  <2> QED BY <1>1, <1>2, <2>1, Induction
<1> QED BY <1>3 DEF B

LEMMA FlattenSeqs ==
    ASSUME NEW T, NEW k \in Nat, NEW s \in Seq(Seq(T)), \A i \in 1 .. Len(s) : Len(s[i]) = k
    PROVE  /\ FlattenSeq(s) \in Seq(T) /\ Len(FlattenSeq(s)) = Len(s) * k
           /\ \A i \in 1 .. Len(s) : Lies(s[i], FlattenSeq(s), (i - 1) * k)
<1> DEFINE f == CHOOSE g : Flat(s, Len(s), g)
           Good(n) == /\ f[n] \in Seq(T) /\ Len(f[n]) = n * k
                      /\ \A i \in 1 .. n : Lies(s[i], f[n], (i - 1) * k)
           B == {n \in Nat : n + 1 \in 1 .. Len(s) => Good(n + 1)}
<1>1. Len(s) \in Nat /\ Flat(s, Len(s), f)
  BY FlatExists
<1>2. FlattenSeq(s) = IF Len(s) = 0 THEN s ELSE f[Len(s)]
  BY DEF FlattenSeq, Flat, Step
<1> HIDE DEF f
<1>3. \A i \in 1 .. Len(s) : f[i] = IF i = 1 THEN s[i] ELSE f[i - 1] \o s[i]
  BY <1>1 DEF Flat, Step
<1>4. 0 \in B
  <2> SUFFICES ASSUME 1 \in 1 .. Len(s) PROVE Good(1)
    <3>1. 0 + 1 = 1
      OBVIOUS
    <3> HIDE DEF Good
    <3> QED BY <3>1
  <2>1. f[1] = s[1] /\ s[1] \in Seq(T) /\ Len(s[1]) = k
    BY <1>3
  <2>2. Lies(s[1], s[1], 0)
    <3>1. Len(s[1]) \in Nat
      BY <2>1
    <3>2. \A j \in 1 .. Len(s[1]) : 0 + j = j
      BY <3>1
    <3> QED BY <3>1, <3>2 DEF Lies
  <2>3. \A i \in 1 .. 1 : i = 1 /\ (i - 1) * k = 0
    OBVIOUS
  <2> QED BY <2>1, <2>2, <2>3
<1>5. ASSUME NEW n \in B PROVE n + 1 \in B
  <2> SUFFICES ASSUME n + 2 \in 1 .. Len(s) PROVE Good(n + 2)
    OBVIOUS
  <2>1. n \in Nat /\ n + 1 \in 1 .. Len(s) /\ n + 2 # 1 /\ (n + 2) - 1 = n + 1
    BY <1>1
  <2>2. Good(n + 1)
    BY <2>1
  <2>3. PICK a, c, d : a = f[n + 1] /\ c = s[n + 2] /\ d = f[n + 2]
    OBVIOUS
  <2>4. d = a \o c
    BY <1>3, <2>1, <2>3
  <2>5. /\ a \in Seq(T) /\ Len(a) = (n + 1) * k
        /\ c \in Seq(T) /\ Len(c) = k
    BY <2>2, <2>3
  <2>6. /\ Lies(a, d, 0) /\ Lies(c, d, Len(a))
        /\ d \in Seq(T) /\ Len(d) = Len(a) + Len(c)
    <3> HIDE DEF B
    <3> QED BY <2>4, <2>5, JoinLies
  <2>7. (n + 1) * k + k = (n + 2) * k /\ ((n + 2) - 1) * k = (n + 1) * k
    BY <2>1
  <2>8. ASSUME NEW i \in 1 .. n + 2 PROVE Lies(s[i], d, (i - 1) * k)
    <3>1. CASE i = n + 2
      BY <2>3, <2>5, <2>6, <2>7, <3>1
    <3>2. CASE i # n + 2
      <4>1. i \in 1 .. n + 1 /\ i \in 1 .. Len(s)
        BY <2>1, <3>2
      <4>2. PICK b, q : b = s[i] /\ q = (i - 1) * k
        OBVIOUS
      <4>3. Lies(b, a, q)
        BY <2>2, <2>3, <4>1, <4>2
      <4>4. b \in Seq(T)
        BY <4>1, <4>2
      <4>5. q \in Nat /\ 0 + q = q
        <5>1. i - 1 \in Nat
          BY <2>1, <4>1
        <5> QED BY <4>2, <5>1
      <4>6. Lies(b, d, 0 + q)
        <5> HIDE DEF B, Good
        <5> QED BY <2>5, <2>6, <4>3, <4>4, <4>5, LiesDeeper
      <4> QED BY <4>2, <4>5, <4>6
    <3> QED BY <3>1, <3>2
  <2> QED BY <2>3, <2>5, <2>6, <2>7, <2>8
<1>6. B = Nat
  <2> HIDE DEF Good
  <2> QED BY <1>4, <1>5, Induction
<1>7. CASE Len(s) = 0
  BY <1>2, <1>7
<1>8. CASE Len(s) # 0
  <2>1. Len(s) - 1 \in Nat /\ (Len(s) - 1) + 1 = Len(s) /\ Len(s) \in 1 .. Len(s)
    BY <1>1, <1>8
  <2>2. Len(s) - 1 \in B
    <3> HIDE DEF B
    <3> QED BY <1>6, <2>1
  <2>3. Good(Len(s))
    <3> HIDE DEF Good
    <3> QED BY <2>1, <2>2
  <2> QED BY <1>2, <1>8, <2>3
<1> QED BY <1>7, <1>8

-----------------------------------------------------------------------------
(* Objects in bytes *)

Byte == 0 .. 255

LEMMA ByteRange ==
    /\ Byte \subseteq Nat
    /\ \A k \in Nat : k \in Byte <=> k <= 255
BY DEF Byte

LEMMA BytesAre ==
    ASSUME NEW n \in Int, NEW width \in 1 .. 4
    PROVE  Bytes(n, width) \in Seq(Byte) /\ Len(Bytes(n, width)) = width
<1>1. \A i \in 1 .. width : Shift[i] \in Nat \ {0}
  BY DEF Shift
<1>2. \A i \in 1 .. width : (n \div Shift[i]) % 256 \in Byte
  BY <1>1 DEF Byte
<1> QED BY <1>2 DEF Bytes

LEMMA HighBitsAre ==
    ASSUME NEW q \in Nat, NEW n \in {2, 4}
    PROVE  HighBits(q, n) \in Byte /\ \A k \in 0 .. n - 1 : HighBits(q, n) + k \in Byte
<1>1. \A r \in Byte : r - (r % 2) \in Byte /\ r - (r % 2) <= 254
                   /\ r - (r % 4) \in Byte /\ r - (r % 4) <= 252
  BY DEF Byte
<1>2. q % 256 \in Byte /\ q % 2 = (q % 256) % 2 /\ q % 4 = (q % 256) % 4
  BY DEF Byte
<1>3. CASE n = 2
  <2>1. HighBits(q, 2) = (q % 256) - ((q % 256) % 2)
    BY <1>2 DEF HighBits
  <2>2. HighBits(q, 2) \in Byte /\ HighBits(q, 2) <= 254
    BY <1>1, <1>2, <2>1
  <2> QED BY <1>3, <2>2 DEF Byte
<1>4. CASE n = 4
  <2>1. HighBits(q, 4) = (q % 256) - ((q % 256) % 4)
    BY <1>2 DEF HighBits
  <2>2. HighBits(q, 4) \in Byte /\ HighBits(q, 4) <= 252
    BY <1>1, <1>2, <2>1
  <2> QED BY <1>4, <2>2 DEF Byte
<1> QED BY <1>3, <1>4

\* the bytes of a value
Width(t) == SizeOf(t) - (IF t \in Timed THEN 7 ELSE 0)

LEMMA Sizes ==
    ASSUME NEW t \in Encodable
    PROVE  /\ SizeOf(t) \in Nat /\ SizeOf(t) \in {1, 2, 3, 5, 8, 9, 10, 12}
           /\ t \in OneByte => Width(t) = 1
           /\ t \in StepPosition => Width(t) = 2
           /\ t \in Measured16 => Width(t) = 3
           /\ t \notin OneByte \union StepPosition \union Measured16 => Width(t) = 5
<1>1. /\ t \in OneByte => t \notin StepPosition /\ t \notin Measured16
      /\ t \in StepPosition => t \notin Measured16
  BY DEF OneByte, SinglePoint, DoublePoint, Query, StepPosition, Measured16
<1>2. t \in DOMAIN ASDU_DATA_SIZE /\
      ASDU_DATA_SIZE[t] = (CASE t \in OneByte -> 1
           [] t \in StepPosition -> 2
           [] t \in Measured16 -> 3
           [] OTHER -> 5)
        + (IF t \in Timed THEN 7 ELSE 0)
  BY DEF ASDU_DATA_SIZE
<1> QED BY <1>1, <1>2 DEF SizeOf, Width

LEMMA EventFields ==
    ASSUME NEW ev \in Events
    PROVE  /\ ev.ioa \in Int /\ ev.val \in Int /\ ev.q \in Nat /\ ev.ts \in Times
           /\ Trunc(ev.val) \in Int
<1> QED BY DEF Events, Trunc

LEMMA BytesAreNumbers ==
    ASSUME NEW b \in Seq(Byte)
    PROVE  b \in Seq(Nat)
<1>1. \A x \in Byte : x \in Nat
  BY DEF Byte
<1> QED BY <1>1

LEMMA JoinedNumbers ==
    ASSUME NEW a \in Seq(Nat), NEW b \in Seq(Nat)
    PROVE  a \o b \in Seq(Nat) /\ Len(a \o b) = Len(a) + Len(b)
BY Concat

LEMMA JoinedBytes ==
    ASSUME NEW a \in Seq(Byte), NEW b \in Seq(Byte)
    PROVE  /\ a \o b \in Seq(Byte) /\ Len(a \o b) = Len(a) + Len(b)
           /\ \A i \in 1 .. Len(a) : (a \o b)[i] = a[i]
           /\ \A i \in 1 .. Len(b) : (a \o b)[Len(a) + i] = b[i]
<1> HIDE DEF Byte
<1> QED BY Concat

LEMMA OneMore ==
    ASSUME NEW b \in Seq(Byte), NEW q \in Nat
    PROVE  /\ b \o <<q>> \in Seq(Nat) /\ Len(b \o <<q>>) = Len(b) + 1
           /\ q \in Byte => b \o <<q>> \in Seq(Byte)
<1>1. b \in Seq(Nat) /\ <<q>> \in Seq(Nat) /\ Len(<<q>>) = 1
  BY BytesAreNumbers
<1>2. b \o <<q>> \in Seq(Nat) /\ Len(b \o <<q>>) = Len(b) + 1
  BY <1>1, Concat
<1>3. q \in Byte => <<q>> \in Seq(Byte)
  OBVIOUS
<1> QED BY <1>2, <1>3, Concat

\* the types' numbers
LEMMA TypeNumbers ==
    ASSUME NEW t \in Encodable
    PROVE  t \in Byte /\ t # Setpoint
<1>1. /\ \A k \in OneByte \union StepPosition \union BitString \union Measured16 :
             k \in Byte /\ k # 50
      /\ \A k \in Float \union Counter : k \in Byte /\ k # 50
  BY DEF OneByte, SinglePoint, DoublePoint, Query, StepPosition, BitString, Measured16, Float,
         Counter, Byte
<1> QED BY <1>1 DEF Encodable, Setpoint

\* A type is of one kind, so a CASE over the kinds has one value.
LEMMA Kinds ==
    ASSUME NEW t \in Encodable
    PROVE  /\ t \in SinglePoint => t \notin DoublePoint \union StepPosition \union Measured16
                                     \union Float /\ t # Query
           /\ t \in DoublePoint => t \notin StepPosition \union Measured16 \union Float /\ t # Query
           /\ t = Query => t \notin StepPosition \union Measured16 \union Float
           /\ t \in StepPosition => t \notin Measured16 \union Float
           /\ t \in Measured16 => t \notin Float
BY DEF SinglePoint, DoublePoint, Query, StepPosition, Measured16, Float

\* the value by the kind of its type
LEMMA ValueBytes ==
    ASSUME NEW t \in Encodable, NEW ev \in Events
    PROVE  /\ EncVal(t, ev) \in Seq(Nat) /\ Len(EncVal(t, ev)) = Width(t)
           /\ InRange(t, ev) => EncVal(t, ev) \in Seq(Byte)
<1>0. PICK n : n = Trunc(ev.val)
  OBVIOUS
<1>1. ev.ioa \in Int /\ ev.val \in Int /\ ev.q \in Nat /\ n \in Int
  BY <1>0, EventFields
<1>2. /\ t \in SinglePoint => EncVal(t, ev) = <<(n % 2) + HighBits(ev.q, 2)>>
      /\ t \in DoublePoint => EncVal(t, ev) = <<(n % 4) + HighBits(ev.q, 4)>>
      /\ t = Query => EncVal(t, ev) = <<n % 256>>
      /\ t \in StepPosition => EncVal(t, ev) = Bytes(n, 1) \o <<ev.q>>
      /\ t \in Measured16 => EncVal(t, ev) = Bytes(n, 2) \o <<ev.q>>
      /\ t \in Float => EncVal(t, ev) = Bytes(ev.val, 4) \o <<ev.q>>
      /\ t \notin OneByte /\ t \notin StepPosition \union Measured16 \union Float
            => EncVal(t, ev) = Bytes(n, 4) \o <<ev.q>>
  <2>1. t \notin OneByte => t \notin SinglePoint /\ t \notin DoublePoint /\ t # Query
    BY DEF OneByte
  <2> QED BY <1>0, <2>1, Kinds DEF EncVal
<1>3. t \notin OneByte /\ InRange(t, ev) => ev.q \in Byte
  BY DEF InRange, Byte
<1>4. CASE t \in OneByte
  <2>1. PICK b \in Byte : EncVal(t, ev) = <<b>>
    <3>1. n % 2 \in 0 .. 1 /\ n % 4 \in 0 .. 3 /\ n % 256 \in Byte
      BY <1>1 DEF Byte
    <3>2. (n % 2) + HighBits(ev.q, 2) \in Byte /\ (n % 4) + HighBits(ev.q, 4) \in Byte
      <4>1. /\ HighBits(ev.q, 2) \in Byte /\ \A k \in 0 .. 1 : HighBits(ev.q, 2) + k \in Byte
            /\ HighBits(ev.q, 4) \in Byte /\ \A k \in 0 .. 3 : HighBits(ev.q, 4) + k \in Byte
        BY <1>1, HighBitsAre
      <4>2. PICK g, h : g = HighBits(ev.q, 2) /\ h = HighBits(ev.q, 4)
        OBVIOUS
      <4>3. g \in Nat /\ h \in Nat
        BY <4>1, <4>2, ByteRange
      <4>4. PICK k, l : k = n % 2 /\ l = n % 4
        OBVIOUS
      <4>5. g + k \in Byte /\ h + l \in Byte /\ k \in Nat /\ l \in Nat
        BY <3>1, <4>1, <4>2, <4>4
      <4>6. g + k = k + g /\ h + l = l + h
        BY <4>3, <4>5
      <4> QED BY <4>2, <4>4, <4>5, <4>6
    <3>3. CASE t \in SinglePoint
      BY <3>2, <3>3, <1>2
    <3>4. CASE t \in DoublePoint
      BY <3>2, <3>4, <1>2
    <3>5. CASE t = Query
      BY <3>1, <3>5, <1>2
    <3> QED BY <1>4, <3>3, <3>4, <3>5 DEF OneByte
  <2>2. <<b>> \in Seq(Byte) /\ Len(<<b>>) = 1 /\ Width(t) = 1
    BY <1>4, Sizes
  <2> QED BY <2>1, <2>2, BytesAreNumbers
<1>5. CASE t \notin OneByte
  <2>1. ASSUME NEW b \in Seq(Byte), EncVal(t, ev) = b \o <<ev.q>>, Width(t) = Len(b) + 1
        PROVE  /\ EncVal(t, ev) \in Seq(Nat) /\ Len(EncVal(t, ev)) = Width(t)
               /\ InRange(t, ev) => EncVal(t, ev) \in Seq(Byte)
    BY <1>1, <1>3, <1>5, <2>1, OneMore
  <2>2. CASE t \in StepPosition
    <3>1. Bytes(n, 1) \in Seq(Byte) /\ Len(Bytes(n, 1)) = 1
      BY <1>1, BytesAre
    <3>2. EncVal(t, ev) = Bytes(n, 1) \o <<ev.q>> /\ Width(t) = 2
      BY <1>2, <2>2, Sizes
    <3> QED BY <2>1, <3>1, <3>2
  <2>3. CASE t \in Measured16
    <3>1. Bytes(n, 2) \in Seq(Byte) /\ Len(Bytes(n, 2)) = 2
      BY <1>1, BytesAre
    <3>2. EncVal(t, ev) = Bytes(n, 2) \o <<ev.q>> /\ Width(t) = 3
      BY <1>2, <2>3, Sizes
    <3> QED BY <2>1, <3>1, <3>2
  <2>4. CASE t \notin StepPosition \union Measured16
    <3>1. PICK k \in {n, ev.val} : EncVal(t, ev) = Bytes(k, 4) \o <<ev.q>>
      BY <1>2, <1>5, <2>4
    <3>2. PICK b : b = Bytes(k, 4)
      OBVIOUS
    <3>3. b \in Seq(Byte) /\ Len(b) = 4
      BY <1>1, <3>2, BytesAre
    <3>4. Width(t) = 5
      BY <1>5, <2>4, Sizes
    <3>5. EncVal(t, ev) = b \o <<ev.q>> /\ Width(t) = Len(b) + 1
      BY <3>1, <3>2, <3>3, <3>4
    <3> QED BY <2>1, <3>3, <3>5
  <2> QED BY <2>2, <2>3, <2>4
<1> QED BY <1>4, <1>5

LEMMA TimeBytes ==
    ASSUME NEW ts \in Times, NEW iv
    PROVE  ToCp56(ts, iv) \in Seq(Byte) /\ Len(ToCp56(ts, iv)) = 7
<1>1. /\ ts.year \in Int /\ ts.month \in 1 .. 12 /\ ts.day \in 1 .. 31
      /\ ts.weekday \in 1 .. 7 /\ ts.hour \in 0 .. 23 /\ ts.minute \in 0 .. 59
      /\ ts.second \in 0 .. 59 /\ ts.us \in {n \in Nat : n < 1000 * 1000}
  BY DEF Times
<1> DEFINE ms == ts.second * 1000 + ts.us \div 1000
<1>2. ms \in Nat /\ ms < 60 * 1000
  <2>1. ts.us \in Nat /\ ts.us < 1000 * 1000
    BY <1>1
  <2>2. ts.us \div 1000 \in 0 .. 999
    BY <2>1
  <2>3. ts.second \in 0 .. 59
    BY <1>1
  <2>4. PICK k, u : k = ts.second /\ u = ts.us \div 1000
    OBVIOUS
  <2>5. k \in 0 .. 59 /\ u \in 0 .. 999
    BY <2>2, <2>3, <2>4
  <2>6. k * 1000 + u \in Nat /\ k * 1000 + u < 60 * 1000
    BY <2>5
  <2> QED BY <2>4, <2>6
<1> HIDE DEF ms
<1>3. ms % 256 \in Byte /\ ms \div 256 \in Byte
  BY <1>2 DEF Byte
<1>4. /\ ts.minute + (IF iv THEN 128 ELSE 0) \in Byte /\ ts.hour \in Byte
      /\ ts.day + 32 * ts.weekday \in Byte /\ ts.month \in Byte
      /\ (ts.year - 2000) % 128 \in Byte
  BY <1>1 DEF Byte
<1> QED BY <1>3, <1>4 DEF ToCp56, ms

LEMMA ObjectBytes ==
    ASSUME NEW t \in Encodable, NEW ev \in Events
    PROVE  /\ EncObj(t, ev) \in Seq(Nat) /\ Len(EncObj(t, ev)) = 3 + SizeOf(t)
           /\ InRange(t, ev) => EncObj(t, ev) \in Seq(Byte)
<1>1. Bytes(ev.ioa, 3) \in Seq(Byte) /\ Len(Bytes(ev.ioa, 3)) = 3
  BY EventFields, BytesAre
<1>2. PICK time \in Seq(Byte) : /\ EncObj(t, ev) = (Bytes(ev.ioa, 3) \o EncVal(t, ev)) \o time
                                /\ Len(time) = SizeOf(t) - Width(t)
  <2>1. SizeOf(t) \in Nat /\ Width(t) = SizeOf(t) - (IF t \in Timed THEN 7 ELSE 0)
    BY Sizes DEF Width
  <2>2. CASE t \in Timed
    <3>1. ToCp56(ev.ts, ev.iv) \in Seq(Byte) /\ Len(ToCp56(ev.ts, ev.iv)) = 7
      BY EventFields, TimeBytes
    <3>2. EncObj(t, ev) = (Bytes(ev.ioa, 3) \o EncVal(t, ev)) \o ToCp56(ev.ts, ev.iv)
      BY <2>2 DEF EncObj
    <3>3. SizeOf(t) - Width(t) = 7
      BY <2>1, <2>2
    <3> QED BY <3>1, <3>2, <3>3
  <2>3. CASE t \notin Timed
    <3>1. EncObj(t, ev) = (Bytes(ev.ioa, 3) \o EncVal(t, ev)) \o <<>>
      BY <2>3 DEF EncObj
    <3>2. SizeOf(t) - Width(t) = 0
      BY <2>1, <2>3
    <3>3. <<>> \in Seq(Byte) /\ Len(<<>>) = 0
      OBVIOUS
    <3> QED BY <3>1, <3>2, <3>3
  <2> QED BY <2>2, <2>3
<1>3. /\ EncVal(t, ev) \in Seq(Nat) /\ Len(EncVal(t, ev)) = Width(t)
      /\ InRange(t, ev) => EncVal(t, ev) \in Seq(Byte)
  BY ValueBytes
<1>4. SizeOf(t) \in Nat /\ Width(t) \in Nat
  BY Sizes
<1>5. PICK a : a = Bytes(ev.ioa, 3) \o EncVal(t, ev)
  OBVIOUS
<1>6. a \in Seq(Nat) /\ Len(a) = 3 + Width(t)
  <2>1. Bytes(ev.ioa, 3) \in Seq(Nat)
    BY <1>1, BytesAreNumbers
  <2>2. a \in Seq(Nat) /\ Len(a) = Len(Bytes(ev.ioa, 3)) + Len(EncVal(t, ev))
    BY <1>3, <1>5, <2>1, Concat
  <2> QED BY <1>1, <1>3, <2>2
<1>7. InRange(t, ev) => a \in Seq(Byte)
  BY <1>1, <1>3, <1>5, Concat
<1>8. a \o time \in Seq(Nat) /\ Len(a \o time) = Len(a) + Len(time)
  BY <1>2, <1>6, BytesAreNumbers, Concat
<1>9. a \in Seq(Byte) => a \o time \in Seq(Byte)
  BY <1>2, Concat
<1> QED BY <1>2, <1>4, <1>5, <1>6, <1>7, <1>8, <1>9

-----------------------------------------------------------------------------
(* Frames in bytes *)

WholeFrames == {f \in Seq(Byte) : Len(f) >= 6 /\ f[1] = Start /\ f[2] = Len(f) - 2}

LEMMA AsduBytes ==
    ASSUME NEW t \in Byte, NEW count \in Byte, NEW cot \in Nat, NEW ca \in Nat,
           NEW body \in Seq(Nat)
    PROVE  /\ Len(Asdu(t, count, cot, ca, body)) = 6 + Len(body)
           /\ body \in Seq(Byte) => Asdu(t, count, cot, ca, body) \in Seq(Byte)
<1>1. PICK b \in Seq(Byte), c \in Seq(Byte) :
          b = Bytes(cot, 2) /\ c = Bytes(ca, 2) /\ Len(b) = 2 /\ Len(c) = 2
  BY BytesAre
<1>2. PICK h : h = (<<t, count>> \o b) \o c
  OBVIOUS
<1> h \in Seq(Byte) /\ Len(h) = 6
  <2>1. PICK p : p = <<t, count>>
    OBVIOUS
  <2>2. p \in Seq(Byte) /\ Len(p) = 2
    BY <2>1
  <2>3. p \o b \in Seq(Byte) /\ Len(p \o b) = Len(p) + Len(b)
    BY <2>2, JoinedBytes
  <2>4. h \in Seq(Byte) /\ Len(h) = Len(p \o b) + Len(c)
    BY <1>2, <2>1, <2>3, JoinedBytes
  <2> QED BY <1>1, <2>2, <2>3, <2>4
<1>3. Asdu(t, count, cot, ca, body) = h \o body
  BY <1>1, <1>2 DEF Asdu
<1>4. Len(h \o body) = Len(h) + Len(body)
  BY BytesAreNumbers, JoinedNumbers
<1>5. body \in Seq(Byte) => h \o body \in Seq(Byte)
  BY JoinedBytes
<1> QED BY <1>2, <1>3, <1>4, <1>5

\* what is put behind the first two bytes leaves them where they are
Headed(f, n, len) == f \in Seq(Byte) /\ Len(f) = len /\ f[1] = Start /\ f[2] = n

LEMMA StartOfFrame ==
    ASSUME NEW n \in Byte
    PROVE  Headed(<<Start, n>>, n, 2)
<1>1. Start \in Byte
  BY DEF Start, Byte
<1> QED BY <1>1 DEF Headed

LEMMA RestOfFrame ==
    ASSUME NEW f, NEW n, NEW len \in Nat, len >= 2, Headed(f, n, len), NEW b \in Seq(Byte)
    PROVE  Headed(f \o b, n, len + Len(b))
<1>1. f \in Seq(Byte) /\ Len(f) = len /\ f[1] = Start /\ f[2] = n
  BY DEF Headed
<1>2. /\ f \o b \in Seq(Byte) /\ Len(f \o b) = Len(f) + Len(b)
      /\ \A i \in 1 .. Len(f) : (f \o b)[i] = f[i]
  BY <1>1, JoinedBytes
<1>3. 1 \in 1 .. Len(f) /\ 2 \in 1 .. Len(f)
  BY <1>1
<1> QED BY <1>1, <1>2, <1>3 DEF Headed

LEMMA IFrameBytes ==
    ASSUME NEW ns \in Nat, NEW nr \in Nat, NEW asdu \in Seq(Byte), Len(asdu) + 4 <= 255
    PROVE  IFrame(ns, nr, asdu) \in WholeFrames /\ Len(IFrame(ns, nr, asdu)) = Len(asdu) + 6
<1>1. PICK b \in Seq(Byte), c \in Seq(Byte) :
          b = Bytes(2 * ns, 2) /\ c = Bytes(2 * nr, 2) /\ Len(b) = 2 /\ Len(c) = 2
  BY BytesAre
<1>2. PICK n : n = Len(asdu) + 4
  OBVIOUS
<1>3. Len(asdu) \in Nat /\ n \in Byte
  BY <1>2, ByteRange
<1>4. PICK h : h = <<Start, n>>
  OBVIOUS
<1>5. Headed(h, n, 2)
  BY <1>3, <1>4, StartOfFrame
<1>6. Headed(h \o b, n, 2 + Len(b))
  BY <1>5, RestOfFrame
<1>7. Headed(h \o b, n, 4)
  <2>1. 2 + Len(b) = 4
    <3>1. Len(b) = 2
      BY <1>1
    <3> QED BY <3>1
  <2> QED BY <1>6, <2>1, Zenon
<1>8. Headed((h \o b) \o c, n, 4 + Len(c))
  BY <1>7, RestOfFrame
<1>9. Headed((h \o b) \o c, n, 6)
  <2>1. 4 + Len(c) = 6
    <3>1. Len(c) = 2
      BY <1>1
    <3> QED BY <3>1
  <2> QED BY <1>8, <2>1, Zenon
<1>10. Headed(((h \o b) \o c) \o asdu, n, 6 + Len(asdu))
  BY <1>9, RestOfFrame
<1>11. IFrame(ns, nr, asdu) = ((h \o b) \o c) \o asdu
  BY <1>1, <1>2, <1>4 DEF IFrame
<1>12. Headed(IFrame(ns, nr, asdu), n, 6 + Len(asdu))
  BY <1>10, <1>11
<1> QED BY <1>2, <1>3, <1>12 DEF Headed, WholeFrames

\* The asdu of a batch has the length client_send counts on, in range or not.
LEMMA BatchBytes ==
    ASSUME NEW b, b.asdu \in Encodable, b.events \in Seq(Events), Len(b.events) < 256,
           b.cot \in Nat, b.ca \in Nat
    PROVE  /\ Len(AsduOf(b)) = 6 + Len(b.events) * (3 + SizeOf(b.asdu))
           /\ ValuesInRange(b) => AsduOf(b) \in Seq(Byte)
<1> DEFINE objs == [i \in 1 .. Len(b.events) |-> EncObj(b.asdu, b.events[i])]
<1>1. PICK n \in Nat, k \in Nat : n = Len(b.events) /\ k = 3 + SizeOf(b.asdu)
  BY Sizes
<1>2. ASSUME NEW i \in 1 .. n
      PROVE  /\ objs[i] \in Seq(Nat) /\ Len(objs[i]) = k
             /\ ValuesInRange(b) => objs[i] \in Seq(Byte)
  <2>1. b.events[i] \in Events
    BY <1>1
  <2>2. ValuesInRange(b) => InRange(b.asdu, b.events[i])
    BY <1>1 DEF ValuesInRange
  <2>3. objs[i] = EncObj(b.asdu, b.events[i])
    BY <1>1
  <2> HIDE DEF objs
  <2> QED BY <1>1, <2>1, <2>2, <2>3, ObjectBytes
<1>3. AsduOf(b) = Asdu(b.asdu, n, b.cot, b.ca, FlattenSeq(objs))
  BY <1>1 DEF AsduOf
<1>4. Len(objs) = n /\ objs = [i \in 1 .. n |-> objs[i]]
  BY <1>1
<1> HIDE DEF objs
<1>5. b.asdu \in Byte /\ n \in Byte
  <2>1. b.asdu \in Byte
    BY TypeNumbers
  <2> QED BY <1>1, <2>1, ByteRange
<1>6. FlattenSeq(objs) \in Seq(Nat) /\ Len(FlattenSeq(objs)) = n * k
  <2>1. objs \in Seq(Seq(Nat))
    BY <1>2, <1>4
  <2>2. \A i \in 1 .. Len(objs) : Len(objs[i]) = k
    BY <1>2, <1>4
  <2> QED BY <1>4, <2>1, <2>2, FlattenSeqs
<1>7. ASSUME ValuesInRange(b) PROVE FlattenSeq(objs) \in Seq(Byte)
  <2>1. objs \in Seq(Seq(Byte))
    BY <1>2, <1>4, <1>7
  <2>2. \A i \in 1 .. Len(objs) : Len(objs[i]) = k
    BY <1>2, <1>4
  <2> QED BY <1>4, <2>1, <2>2, FlattenSeqs
<1>8. PICK body : body = FlattenSeq(objs)
  OBVIOUS
<1>9. /\ Len(Asdu(b.asdu, n, b.cot, b.ca, body)) = 6 + Len(body)
      /\ body \in Seq(Byte) => Asdu(b.asdu, n, b.cot, b.ca, body) \in Seq(Byte)
  <2>1. body \in Seq(Nat)
    BY <1>6, <1>8
  <2>2. b.cot \in Nat /\ b.ca \in Nat
    OBVIOUS
  <2> HIDE DEF Byte
  <2> QED BY <1>5, <2>1, <2>2, AsduBytes
<1>10. 6 + Len(body) = 6 + n * k
  BY <1>6, <1>8
<1> QED BY <1>1, <1>3, <1>7, <1>8, <1>9, <1>10

\* A batch as long as client_send makes it fits the length byte.
LEMMA BatchFits ==
    ASSUME NEW t \in Encodable, NEW n \in Nat, n <= MaxObj(t)
    PROVE  6 + n * (3 + SizeOf(t)) + 4 <= 255 /\ n < 128
<1>1. 3 + SizeOf(t) \in {4, 5, 6, 8, 11, 12, 13, 15}
  BY Sizes
<1>2. \A k \in {4, 5, 6, 8, 11, 12, 13, 15} : n <= 243 \div k => n * k <= 243
  OBVIOUS
<1>3. n <= 243 \div (3 + SizeOf(t)) /\ n <= 127
  BY <1>1 DEF MaxObj
<1> QED BY <1>1, <1>2, <1>3

\* a batch in its I-frame
LEMMA BatchFrames ==
    ASSUME NEW b, b.asdu \in Encodable, b.events \in Seq(Events), Len(b.events) < 256,
           b.cot \in Nat, b.ca \in Nat, b.ns \in Nat, b.nr \in Nat, ~BuildRaises(b)
    PROVE  BuildIFrame(b) \in WholeFrames
<1>1. PICK asdu : asdu = AsduOf(b)
  OBVIOUS
<1>2. ValuesInRange(b) /\ ~(Len(asdu) + 4 > 255)
  BY <1>1 DEF BuildRaises
<1>3. asdu \in Seq(Byte)
  BY <1>1, <1>2, BatchBytes
<1>4. Len(asdu) + 4 <= 255
  BY <1>2, <1>3
<1>5. IFrame(b.ns, b.nr, asdu) \in WholeFrames
  BY <1>3, <1>4, IFrameBytes
<1> QED BY <1>1, <1>5 DEF BuildIFrame

\* An I-frame has six bytes more than its asdu, whether or not that fits the length byte.
LEMMA IFrameLength ==
    ASSUME NEW ns \in Nat, NEW nr \in Nat, NEW asdu \in Seq(Byte)
    PROVE  Len(IFrame(ns, nr, asdu)) = Len(asdu) + 6
<1>1. PICK f, b, c, n : /\ f = IFrame(ns, nr, asdu) /\ b = Bytes(2 * ns, 2) /\ c = Bytes(2 * nr, 2)
                        /\ n = Len(asdu) + 4
  OBVIOUS
<1>2. b \in Seq(Byte) /\ Len(b) = 2 /\ c \in Seq(Byte) /\ Len(c) = 2
  BY <1>1, BytesAre
<1>3. Len(asdu) \in Nat /\ n \in Nat
  BY <1>1
<1>4. PICK h : h = <<Start, n>>
  OBVIOUS
<1>5. h \in Seq(Nat) /\ Len(h) = 2
  BY <1>3, <1>4 DEF Start
<1>6. f = ((h \o b) \o c) \o asdu
  BY <1>1, <1>4 DEF IFrame
<1>7. b \in Seq(Nat) /\ c \in Seq(Nat) /\ asdu \in Seq(Nat)
  BY <1>2, BytesAreNumbers
<1>8. h \o b \in Seq(Nat) /\ Len(h \o b) = Len(h) + Len(b)
  BY <1>5, <1>7, JoinedNumbers
<1>9. (h \o b) \o c \in Seq(Nat) /\ Len((h \o b) \o c) = Len(h \o b) + Len(c)
  BY <1>7, <1>8, JoinedNumbers
<1>10. Len(f) = Len((h \o b) \o c) + Len(asdu)
  BY <1>6, <1>7, <1>9, JoinedNumbers
<1> QED BY <1>1, <1>2, <1>3, <1>5, <1>8, <1>9, <1>10

\* The other frames with objects fit because only such frames are sent.
LEMMA OtherFrames ==
    ASSUME NEW t \in Byte, NEW count \in Byte, NEW cot \in Nat, NEW ca \in Nat, NEW ns \in Nat,
           NEW nr \in Nat, NEW body \in Seq(Byte),
           NEW f, f = IFrame(ns, nr, Asdu(t, count, cot, ca, body)), Len(f) <= 257
    PROVE  f \in WholeFrames
<1>1. PICK asdu : asdu = Asdu(t, count, cot, ca, body)
  OBVIOUS
<1>2. asdu \in Seq(Byte) /\ Len(asdu) \in Nat
  <2>1. asdu \in Seq(Byte)
    BY <1>1, AsduBytes, BytesAreNumbers
  <2> QED BY <2>1
<1>3. Len(f) = Len(asdu) + 6
  BY <1>1, <1>2, IFrameLength
<1>4. Len(asdu) + 4 <= 255
  BY <1>2, <1>3
<1> QED BY <1>1, <1>2, <1>4, IFrameBytes

\* the body of a C_SE_NC_1
LEMMA SetpointBody ==
    ASSUME NEW events \in Seq(Events)
    PROVE  FlattenSeq([i \in 1 .. Len(events) |->
               Bytes(events[i].ioa, 3) \o Bytes(events[i].val, 4) \o <<0>>]) \in Seq(Byte)
<1> DEFINE objs == [i \in 1 .. Len(events) |->
                       Bytes(events[i].ioa, 3) \o Bytes(events[i].val, 4) \o <<0>>]
<1>1. PICK n \in Nat : n = Len(events)
  OBVIOUS
<1>2. ASSUME NEW i \in 1 .. n PROVE objs[i] \in Seq(Byte) /\ Len(objs[i]) = 8
  <2>1. PICK b, c, d : /\ b = Bytes(events[i].ioa, 3) /\ c = Bytes(events[i].val, 4) /\ d = <<0>>
    OBVIOUS
  <2>2. events[i] \in Events
    BY <1>1
  <2>3. b \in Seq(Byte) /\ Len(b) = 3 /\ c \in Seq(Byte) /\ Len(c) = 4
    <3>1. events[i].ioa \in Int /\ events[i].val \in Int
      BY <2>2, EventFields
    <3> QED BY <2>1, <3>1, BytesAre
  <2>4. d \in Seq(Byte) /\ Len(d) = 1
    <3>1. 0 \in Byte
      BY ByteRange
    <3> QED BY <2>1, <3>1
  <2>5. b \o c \in Seq(Byte) /\ Len(b \o c) = Len(b) + Len(c)
    BY <2>3, JoinedBytes
  <2>6. (b \o c) \o d \in Seq(Byte) /\ Len((b \o c) \o d) = Len(b \o c) + Len(d)
    BY <2>4, <2>5, JoinedBytes
  <2>7. objs[i] = (b \o c) \o d
    BY <1>1, <2>1
  <2> HIDE DEF objs
  <2> QED BY <2>3, <2>4, <2>5, <2>6, <2>7
<1>3. Len(objs) = n /\ objs = [i \in 1 .. n |-> objs[i]]
  BY <1>1
<1> HIDE DEF objs
<1>4. objs \in Seq(Seq(Byte))
  BY <1>2, <1>3
<1>5. FlattenSeq(objs) \in Seq(Byte)
  <2>1. \A i \in 1 .. Len(objs) : Len(objs[i]) = 8
    BY <1>2, <1>3
  <2> QED BY <1>4, <2>1, FlattenSeqs
<1> QED BY <1>5 DEF objs

\* the body of a frame with the bit SQ
LEMMA SequentialBody ==
    ASSUME NEW t \in Encodable, NEW events \in Seq(Events),
           \A i \in 1 .. Len(events) : InRange(t, events[i]), events # <<>>
    PROVE  Bytes(events[1].ioa, 3) \o FlattenSeq([i \in 1 .. Len(events) |->
               SubSeq(EncObj(t, events[i]), 4, 3 + SizeOf(t))]) \in Seq(Byte)
<1> DEFINE objs == [i \in 1 .. Len(events) |-> SubSeq(EncObj(t, events[i]), 4, 3 + SizeOf(t))]
<1>1. PICK n \in Nat, k \in Nat : n = Len(events) /\ k = SizeOf(t)
  BY Sizes
<1>2. ASSUME NEW i \in 1 .. n PROVE objs[i] \in Seq(Byte) /\ Len(objs[i]) = k
  <2>1. PICK o : o = EncObj(t, events[i])
    OBVIOUS
  <2>2. events[i] \in Events /\ InRange(t, events[i])
    BY <1>1
  <2>3. o \in Seq(Byte) /\ Len(o) = 3 + k
    BY <1>1, <2>1, <2>2, ObjectBytes
  <2>4. \A p \in 4 .. 3 + k : o[p] \in Byte
    BY <2>3
  <2>5. SubSeq(o, 4, 3 + k) \in Seq(Byte) /\ Len(SubSeq(o, 4, 3 + k)) = k
    BY <2>3, <2>4
  <2>6. objs[i] = SubSeq(o, 4, 3 + k)
    BY <1>1, <2>1
  <2> HIDE DEF objs
  <2> QED BY <2>5, <2>6
<1>3. Len(objs) = n /\ objs = [i \in 1 .. n |-> objs[i]]
  BY <1>1
<1> HIDE DEF objs
<1>4. objs \in Seq(Seq(Byte))
  <2>1. PICK o : o = objs
    OBVIOUS
  <2>2. o = [i \in 1 .. n |-> o[i]] /\ \A i \in 1 .. n : o[i] \in Seq(Byte)
    BY <1>2, <1>3, <2>1
  <2> QED BY <2>1, <2>2
<1>5. FlattenSeq(objs) \in Seq(Byte)
  <2>1. \A i \in 1 .. Len(objs) : Len(objs[i]) = k
    BY <1>2, <1>3
  <2> QED BY <1>4, <2>1, FlattenSeqs
<1>6. Bytes(events[1].ioa, 3) \in Seq(Byte)
  <2>1. events[1] \in Events
    OBVIOUS
  <2> QED BY <2>1, EventFields, BytesAre
<1>7. Bytes(events[1].ioa, 3) \o FlattenSeq(objs) \in Seq(Byte)
  BY <1>5, <1>6, JoinedBytes
<1> QED BY <1>7 DEF objs

-----------------------------------------------------------------------------
(* Numbers are read back *)

\* A number is its lowest byte and 256 times what is above it.
LEMMA Digits ==
    ASSUME NEW n \in Int
    PROVE  /\ n \div 256 \in Int /\ n % 256 \in Byte /\ n = (n % 256) + 256 * (n \div 256)
           /\ (n \div 256) \div 256 = n \div (256 * 256)
           /\ (n \div (256 * 256)) \div 256 = n \div (256 * 256 * 256)
<1>1. n \div 256 \in Int /\ n % 256 \in Byte /\ n = (n % 256) + 256 * (n \div 256)
  BY DEF Byte
<1>2. (n \div 256) \div 256 = n \div (256 * 256)
  OBVIOUS
<1>3. (n \div (256 * 256)) \div 256 = n \div (256 * 256 * 256)
  OBVIOUS
<1> QED BY <1>1, <1>2, <1>3

\* the recursive function of Unsigned
Sum(b, n, f) == f = [i \in 0 .. n |-> IF i = 0 THEN 0 ELSE f[i - 1] + b[i] * Shift[i]]

LEMMA UnsignedOf ==
    ASSUME NEW b \in Seq(Byte), Len(b) <= 4
    PROVE  /\ Len(b) = 1 => Unsigned(b) = b[1]
           /\ Len(b) = 2 => Unsigned(b) = b[1] + b[2] * Shift[2]
           /\ Len(b) = 3 => Unsigned(b) = b[1] + b[2] * Shift[2] + b[3] * Shift[3]
           /\ Len(b) = 4 => Unsigned(b) = b[1] + b[2] * Shift[2] + b[3] * Shift[3]
                                          + b[4] * Shift[4]
<1> DEFINE f == CHOOSE g : Sum(b, Len(b), g)
<1>1. Unsigned(b) = f[Len(b)]
  BY DEF Unsigned, Sum
<1>2. PICK n : n = Len(b)
  OBVIOUS
<1> n \in 0 .. 4
  <2>1. Len(b) \in Nat
    OBVIOUS
  <2> QED BY <1>2, <2>1
<1>3. PICK v, w, x, y : /\ v = 0 + b[1] * Shift[1] /\ w = v + b[2] * Shift[2]
                        /\ x = w + b[3] * Shift[3] /\ y = x + b[4] * Shift[4]
  OBVIOUS
<1>4. PICK g : g = [i \in 0 .. n |-> IF i = 0 THEN 0 ELSE IF i = 1 THEN v ELSE IF i = 2 THEN w
                                     ELSE IF i = 3 THEN x ELSE y]
  OBVIOUS
<1>5. \A i \in 0 .. n : g[i] = IF i = 0 THEN 0 ELSE g[i - 1] + b[i] * Shift[i]
  <2>1. SUFFICES ASSUME NEW i \in 0 .. n
                 PROVE  g[i] = IF i = 0 THEN 0 ELSE g[i - 1] + b[i] * Shift[i]
    OBVIOUS
  <2>2. i \in {0, 1, 2, 3, 4} /\ \A j \in 0 .. i : j \in 0 .. n
    OBVIOUS
  <2>3. \A j \in 0 .. i : g[j] = IF j = 0 THEN 0 ELSE IF j = 1 THEN v ELSE IF j = 2 THEN w
                                     ELSE IF j = 3 THEN x ELSE y
    BY <1>4, <2>2
  <2>4. CASE i = 0
    BY <2>3, <2>4
  <2>5. CASE i = 1
    BY <1>3, <2>3, <2>5
  <2>6. CASE i = 2
    BY <1>3, <2>3, <2>6
  <2>7. CASE i = 3
    BY <1>3, <2>3, <2>7
  <2>8. CASE i = 4
    BY <1>3, <2>3, <2>8
  <2> QED BY <2>2, <2>4, <2>5, <2>6, <2>7, <2>8
<1>6. Sum(b, n, g)
  <2>1. g = [i \in 0 .. n |-> g[i]]
    BY <1>4
  <2> QED BY <1>5, <2>1 DEF Sum
<1>7. Sum(b, n, f)
  BY <1>2, <1>6
<1> HIDE DEF f
<1>8. \A i \in 0 .. n : f[i] = IF i = 0 THEN 0 ELSE f[i - 1] + b[i] * Shift[i]
  BY <1>7 DEF Sum
<1>9. /\ f[0] = 0 /\ (n >= 1 => f[1] = f[0] + b[1] * Shift[1])
      /\ (n >= 2 => f[2] = f[1] + b[2] * Shift[2])
      /\ (n >= 3 => f[3] = f[2] + b[3] * Shift[3])
      /\ (n >= 4 => f[4] = f[3] + b[4] * Shift[4])
  BY <1>8
<1>10. /\ Shift[1] = 1 /\ Shift[2] = 256 /\ Shift[3] = 256 * 256 /\ Shift[4] = 256 * 256 * 256
  BY DEF Shift
<1>11. \A i \in 1 .. n : b[i] \in Nat
  <2>1. ASSUME NEW i \in 1 .. n PROVE b[i] \in Nat
    <3>1. b[i] \in Byte
      BY <1>2
    <3> QED BY <3>1, ByteRange
  <2> QED BY <2>1
<1>12. CASE n = 0
  BY <1>2, <1>12
<1>13. CASE n = 1
  BY <1>1, <1>2, <1>9, <1>10, <1>11, <1>13
<1>14. CASE n = 2
  BY <1>1, <1>2, <1>9, <1>10, <1>11, <1>14
<1>15. CASE n = 3
  BY <1>1, <1>2, <1>9, <1>10, <1>11, <1>15
<1>16. CASE n = 4
  BY <1>1, <1>2, <1>9, <1>10, <1>11, <1>16
<1> QED BY <1>12, <1>13, <1>14, <1>15, <1>16

\* the same by the number of bytes
LEMMA OneByteValue ==
    ASSUME NEW b \in Seq(Byte), Len(b) = 1
    PROVE  Unsigned(b) = b[1]
<1>1. Len(b) <= 4
  OBVIOUS
<1> QED BY <1>1, UnsignedOf, Zenon

LEMMA TwoByteValue ==
    ASSUME NEW b \in Seq(Byte), Len(b) = 2
    PROVE  Unsigned(b) = b[1] + b[2] * Shift[2]
<1>1. Len(b) <= 4
  OBVIOUS
<1> QED BY <1>1, UnsignedOf, Zenon

LEMMA ThreeByteValue ==
    ASSUME NEW b \in Seq(Byte), Len(b) = 3
    PROVE  Unsigned(b) = b[1] + b[2] * Shift[2] + b[3] * Shift[3]
<1>1. Len(b) <= 4
  OBVIOUS
<1> QED BY <1>1, UnsignedOf, Zenon

LEMMA FourByteValue ==
    ASSUME NEW b \in Seq(Byte), Len(b) = 4
    PROVE  Unsigned(b) = b[1] + b[2] * Shift[2] + b[3] * Shift[3] + b[4] * Shift[4]
<1>1. Len(b) <= 4
  OBVIOUS
<1> QED BY <1>1, UnsignedOf, Zenon

\* the places of four bytes
LEMMA Places ==
    /\ Shift[1] = 1 /\ Shift[2] = 256 /\ Shift[3] = 256 * 256 /\ Shift[4] = 256 * 256 * 256
    /\ \A i \in 1 .. 4 : Shift[i] \in Nat
BY DEF Shift

\* A number by its bytes: each but the highest is what is left below the next.
Written(n, width, b, k, l, m) ==
    b = Bytes(n, width) /\ k = n \div Shift[2] /\ l = n \div Shift[3] /\ m = n \div Shift[4]

LEMMA BytesOf ==
    ASSUME NEW n \in Int, NEW width \in 1 .. 4, NEW b, NEW k, NEW l, NEW m,
           Written(n, width, b, k, l, m)
    PROVE  /\ k \in Int /\ l \in Int /\ m \in Int
           /\ n = (n % 256) + 256 * k /\ k = (k % 256) + 256 * l /\ l = (l % 256) + 256 * m
           /\ b[1] = n % 256
           /\ width >= 2 => b[2] = k % 256
           /\ width >= 3 => b[3] = l % 256
           /\ width >= 4 => b[4] = m % 256
<1>1. k = n \div 256 /\ l = n \div (256 * 256) /\ m = n \div (256 * 256 * 256)
  BY Places DEF Written
<1>2. k \in Int /\ l \in Int /\ m \in Int
  BY <1>1
<1>3. n = (n % 256) + 256 * k /\ k = (k % 256) + 256 * l /\ l = (l % 256) + 256 * m
  BY <1>1, Digits
<1>4. n \div Shift[1] = n /\ n \div Shift[2] = k /\ n \div Shift[3] = l /\ n \div Shift[4] = m
  <2>1. n \div Shift[1] = n
    BY Places
  <2> QED BY <2>1 DEF Written
<1>5. \A i \in 1 .. width : b[i] = (n \div Shift[i]) % 256
  BY DEF Written, Bytes
<1>6. 1 \in 1 .. width /\ (width >= 2 => 2 \in 1 .. width) /\ (width >= 3 => 3 \in 1 .. width)
      /\ (width >= 4 => 4 \in 1 .. width)
  OBVIOUS
<1>7. /\ b[1] = n % 256
      /\ width >= 2 => b[2] = k % 256
      /\ width >= 3 => b[3] = l % 256
      /\ width >= 4 => b[4] = m % 256
  BY <1>4, <1>5, <1>6
<1> QED BY <1>2, <1>3, <1>7

\* what fits is read back
LEMMA UnsignedBytes ==
    ASSUME NEW n \in Int, NEW width \in 2 .. 4, Fits(n, width)
    PROVE  Unsigned(Bytes(n, width)) = n
<1>1. PICK b : b = Bytes(n, width)
  OBVIOUS
<1>2. width \in 1 .. 4
  OBVIOUS
<1>3. b \in Seq(Byte) /\ Len(b) = width
  BY <1>1, <1>2, BytesAre
<1>4. PICK k, l, m : k = n \div Shift[2] /\ l = n \div Shift[3] /\ m = n \div Shift[4]
  OBVIOUS
<1>5. Written(n, width, b, k, l, m)
  BY <1>1, <1>4 DEF Written
<1>6. /\ k \in Int /\ l \in Int /\ m \in Int
      /\ n = (n % 256) + 256 * k /\ k = (k % 256) + 256 * l /\ l = (l % 256) + 256 * m
      /\ b[1] = n % 256 /\ b[2] = k % 256 /\ (width >= 3 => b[3] = l % 256)
      /\ (width >= 4 => b[4] = m % 256)
  BY <1>2, <1>5, BytesOf
<1>7. CASE width = 2
  <2>1. k \in 0 .. 255
    BY <1>4, <1>7 DEF Fits
  <2>2. k % 256 = k
    BY <2>1
  <2>3. Unsigned(b) = b[1] + b[2] * Shift[2]
    BY <1>3, <1>7, TwoByteValue
  <2> QED BY <1>1, <1>4, <1>6, <1>7, <2>2, <2>3, Places
<1>8. CASE width = 3
  <2>1. l \in 0 .. 255
    BY <1>4, <1>8 DEF Fits
  <2>2. l % 256 = l
    BY <2>1
  <2>3. Unsigned(b) = b[1] + b[2] * Shift[2] + b[3] * Shift[3]
    BY <1>3, <1>8, ThreeByteValue
  <2>4. b[3] = l
    BY <1>6, <1>8, <2>2
  <2>5. Unsigned(b) = (n % 256) + (k % 256) * 256 + l * (256 * 256)
    BY <1>6, <2>3, <2>4, Places
  <2> QED BY <1>1, <1>4, <1>6, <2>5
<1>9. CASE width = 4
  <2>1. m \in 0 .. 255
    BY <1>4, <1>9 DEF Fits
  <2>2. m % 256 = m
    BY <2>1
  <2>3. Unsigned(b) = b[1] + b[2] * Shift[2] + b[3] * Shift[3] + b[4] * Shift[4]
    BY <1>3, <1>9, FourByteValue
  <2>4. Unsigned(b) = (n % 256) + (k % 256) * 256 + (l % 256) * (256 * 256)
                      + m * (256 * 256 * 256)
    BY <1>4, <1>6, <1>9, <2>2, <2>3, Places
  <2> QED BY <1>1, <1>4, <1>6, <2>4
<1> QED BY <1>7, <1>8, <1>9

LEMMA SignedBytes ==
    ASSUME NEW n \in Int, NEW width \in {2, 4}, FitsSigned(n, width)
    PROVE  Signed(Bytes(n, width)) = n
<1>1. PICK b : b = Bytes(n, width)
  OBVIOUS
<1>2. width \in 1 .. 4
  OBVIOUS
<1>3. b \in Seq(Byte) /\ Len(b) = width
  BY <1>1, <1>2, BytesAre
<1>4. PICK k, l, m : k = n \div Shift[2] /\ l = n \div Shift[3] /\ m = n \div Shift[4]
  OBVIOUS
<1>5. Written(n, width, b, k, l, m)
  BY <1>1, <1>4 DEF Written
<1>6. /\ k \in Int /\ l \in Int /\ m \in Int
      /\ n = (n % 256) + 256 * k /\ k = (k % 256) + 256 * l /\ l = (l % 256) + 256 * m
      /\ b[1] = n % 256 /\ b[2] = k % 256 /\ (width >= 3 => b[3] = l % 256)
      /\ (width >= 4 => b[4] = m % 256)
  BY <1>2, <1>5, BytesOf
<1>7. PICK f, t : f = Front(b) /\ t = Last(b)
  OBVIOUS
<1>8. /\ t = b[width] /\ f \in Seq(Byte) /\ Len(f) = width - 1
      /\ \A i \in 1 .. width - 1 : f[i] = b[i]
  BY <1>2, <1>3, <1>7 DEF Front, Last
<1>9. Signed(b) = Unsigned(f) + (IF t < 128 THEN t ELSE t - 256) * Shift[width]
  BY <1>3, <1>7 DEF Signed
<1>10. \A x \in -128 .. 127 : (IF x % 256 < 128 THEN x % 256 ELSE (x % 256) - 256) = x
  OBVIOUS
<1>11. CASE width = 2
  <2>1. k \in -128 .. 127
    BY <1>4, <1>11 DEF FitsSigned
  <2>2. t = k % 256 /\ f[1] = n % 256 /\ Len(f) = 1
    <3>1. 1 \in 1 .. width - 1 /\ width - 1 = 1
      BY <1>11
    <3>2. t = b[2] /\ f[1] = b[1] /\ Len(f) = 1
      BY <1>8, <1>11, <3>1
    <3> QED BY <1>6, <3>2
  <2>3. Unsigned(f) = n % 256
    BY <1>8, <2>2, OneByteValue
  <2>4. (IF t < 128 THEN t ELSE t - 256) = k
    BY <1>10, <2>1, <2>2
  <2>5. Signed(b) = (n % 256) + k * 256
    BY <1>9, <1>11, <2>3, <2>4, Places
  <2> QED BY <1>1, <1>4, <1>6, <2>5
<1>12. CASE width = 4
  <2>1. m \in -128 .. 127
    BY <1>4, <1>12 DEF FitsSigned
  <2>2. /\ t = m % 256 /\ f[1] = n % 256 /\ f[2] = k % 256 /\ f[3] = l % 256 /\ Len(f) = 3
    <3>1. 1 \in 1 .. width - 1 /\ 2 \in 1 .. width - 1 /\ 3 \in 1 .. width - 1 /\ width - 1 = 3
      BY <1>12
    <3>2. t = b[4] /\ f[1] = b[1] /\ f[2] = b[2] /\ f[3] = b[3] /\ Len(f) = 3
      BY <1>8, <1>12, <3>1
    <3>3. b[3] = l % 256 /\ b[4] = m % 256
      BY <1>6, <1>12
    <3> QED BY <1>6, <3>2, <3>3
  <2>3. Unsigned(f) = f[1] + f[2] * Shift[2] + f[3] * Shift[3]
    BY <1>8, <2>2, ThreeByteValue
  <2>4. (IF t < 128 THEN t ELSE t - 256) = m
    BY <1>10, <2>1, <2>2
  <2>5. Unsigned(f) = (n % 256) + (k % 256) * 256 + (l % 256) * (256 * 256)
    BY <2>2, <2>3, Places
  <2>6. Signed(b) = Unsigned(f) + m * (256 * 256 * 256)
    BY <1>9, <1>12, <2>4, Places
  <2> QED BY <1>1, <1>4, <1>6, <2>5, <2>6
<1> QED BY <1>11, <1>12

-----------------------------------------------------------------------------
(* Parts of a frame are read back *)

LEMMA Part ==
    ASSUME NEW T, NEW r \in Seq(T), NEW p \in 1 .. Len(r) + 1, NEW n \in p - 1 .. Len(r)
    PROVE  /\ SubSeq(r, p, n) \in Seq(T) /\ Len(SubSeq(r, p, n)) = n - p + 1
           /\ \A k \in 1 .. n - p + 1 : SubSeq(r, p, n)[k] = r[p + k - 1]
OBVIOUS

LEMMA SameBytes ==
    ASSUME NEW f \in Seq(Byte), NEW g \in Seq(Byte), Len(f) = Len(g),
           \A k \in 1 .. Len(f) : f[k] = g[k]
    PROVE  f = g
OBVIOUS

LEMMA Slice ==
    ASSUME NEW s \in Seq(Byte), NEW p \in Nat, NEW n \in Nat, p + n <= Len(s)
    PROVE  /\ SubSeq(s, p + 1, p + n) \in Seq(Byte) /\ Len(SubSeq(s, p + 1, p + n)) = n
           /\ \A k \in 1 .. n : SubSeq(s, p + 1, p + n)[k] = s[p + k]
<1>1. PICK r : r = SubSeq(s, p + 1, p + n)
  OBVIOUS
<1>2. p + 1 \in 1 .. Len(s) + 1 /\ p + n \in (p + 1) - 1 .. Len(s)
  OBVIOUS
<1>3. /\ r \in Seq(Byte) /\ Len(r) = (p + n) - (p + 1) + 1
      /\ \A k \in 1 .. (p + n) - (p + 1) + 1 : r[k] = s[(p + 1) + k - 1]
  BY <1>1, <1>2, Part
<1>4. (p + n) - (p + 1) + 1 = n /\ \A k \in 1 .. n : (p + 1) + k - 1 = p + k
  OBVIOUS
<1>5. r \in Seq(Byte) /\ Len(r) = n /\ \A k \in 1 .. n : r[k] = s[p + k]
  BY <1>3, <1>4
<1> QED BY <1>1, <1>5

\* What lies in s lies in a part of s.
LEMMA LiesInPart ==
    ASSUME NEW b \in Seq(Byte), NEW s \in Seq(Byte), NEW p \in Nat, NEW q \in Nat, NEW n \in Nat,
           Lies(b, s, p + q), p + n <= Len(s), q + Len(b) <= n
    PROVE  /\ SubSeq(s, p + 1, p + n) \in Seq(Byte) /\ Len(SubSeq(s, p + 1, p + n)) = n
           /\ Lies(b, SubSeq(s, p + 1, p + n), q)
<1>1. PICK l, r : l = Len(b) /\ r = SubSeq(s, p + 1, p + n)
  OBVIOUS
<1>2. l \in Nat /\ q + l <= n
  BY <1>1
<1>3. r \in Seq(Byte) /\ Len(r) = n /\ \A k \in 1 .. n : r[k] = s[p + k]
  BY <1>1, Slice
<1>4. ASSUME NEW k \in 1 .. l PROVE r[q + k] = b[k]
  <2>1. q + k \in 1 .. n /\ p + (q + k) = (p + q) + k
    BY <1>2
  <2>2. s[(p + q) + k] = b[k]
    BY <1>1 DEF Lies
  <2> QED BY <1>3, <2>1, <2>2
<1> QED BY <1>1, <1>2, <1>3, <1>4 DEF Lies

\* the bytes themselves
LEMMA LiesExactly ==
    ASSUME NEW b \in Seq(Byte), NEW s \in Seq(Byte), NEW p \in Nat, Lies(b, s, p)
    PROVE  SubSeq(s, p + 1, p + Len(b)) = b
<1>1. PICK n, r : n = Len(b) /\ r = SubSeq(s, p + 1, p + n)
  OBVIOUS
<1>2. n \in Nat
  BY <1>1
<1>3. p + n <= Len(s) /\ \A k \in 1 .. n : s[p + k] = b[k]
  BY <1>1 DEF Lies
<1>4. r \in Seq(Byte) /\ Len(r) = n /\ \A k \in 1 .. n : r[k] = s[p + k]
  BY <1>1, <1>2, <1>3, Slice
<1>5. \A k \in 1 .. n : r[k] = b[k]
  BY <1>3, <1>4
<1>6. r = b
  BY <1>1, <1>4, <1>5, SameBytes
<1> QED BY <1>1, <1>6

\* Three parts one behind the other.
LEMMA ThreeLie ==
    ASSUME NEW a \in Seq(Byte), NEW b \in Seq(Byte), NEW c \in Seq(Byte)
    PROVE  /\ Lies(a, (a \o b) \o c, 0) /\ Lies(b, (a \o b) \o c, Len(a))
           /\ Lies(c, (a \o b) \o c, Len(a) + Len(b))
<1>1. PICK d, s : d = a \o b /\ s = d \o c
  OBVIOUS
<1>2. Len(a) \in Nat /\ 0 + 0 = 0 /\ 0 + Len(a) = Len(a) /\ 0 \in Nat
  OBVIOUS
<1>3. d \in Seq(Byte) /\ Len(d) = Len(a) + Len(b) /\ Lies(a, d, 0) /\ Lies(b, d, Len(a))
  BY <1>1, JoinLies
<1>4. s \in Seq(Byte) /\ Lies(d, s, 0) /\ Lies(c, s, Len(d))
  BY <1>1, <1>3, JoinLies
<1>5. Lies(a, s, 0 + 0)
  BY <1>2, <1>3, <1>4, LiesDeeper
<1>6. Lies(b, s, 0 + Len(a))
  BY <1>2, <1>3, <1>4, LiesDeeper
<1> QED BY <1>1, <1>2, <1>3, <1>4, <1>5, <1>6

LEMMA TwoBytesRead ==
    ASSUME NEW n \in Nat, Fits(n, 2), NEW s \in Seq(Byte), NEW p \in Nat, Lies(Bytes(n, 2), s, p)
    PROVE  Unsigned(SubSeq(s, p + 1, p + 2)) = n
<1>1. PICK b : b = Bytes(n, 2)
  OBVIOUS
<1>2. b \in Seq(Byte) /\ Len(b) = 2 /\ Unsigned(b) = n
  BY <1>1, BytesAre, UnsignedBytes
<1>3. SubSeq(s, p + 1, p + Len(b)) = b
  BY <1>1, <1>2, LiesExactly
<1> QED BY <1>2, <1>3

\* and its address
LEMMA AddressRead ==
    ASSUME NEW t, NEW ev \in Events, InRange(t, ev), NEW s \in Seq(Byte), NEW p \in Nat,
           Lies(Bytes(ev.ioa, 3), s, p)
    PROVE  Unsigned(SubSeq(s, p + 1, p + 3)) = ev.ioa
<1>1. PICK b : b = Bytes(ev.ioa, 3)
  OBVIOUS
<1>2. ev.ioa \in Int /\ Fits(ev.ioa, 3)
  BY EventFields DEF InRange
<1>3. b \in Seq(Byte) /\ Len(b) = 3 /\ Unsigned(b) = ev.ioa
  BY <1>1, <1>2, BytesAre, UnsignedBytes
<1>4. SubSeq(s, p + 1, p + Len(b)) = b
  BY <1>1, <1>3, LiesExactly
<1> QED BY <1>3, <1>4

Behind(h, b, c, body, a) == a = ((h \o b) \o c) \o body

\* The body lies behind two bytes and two numbers.
LEMMA AsduLies ==
    ASSUME NEW h \in Seq(Byte), NEW b \in Seq(Byte), NEW c \in Seq(Byte), NEW body \in Seq(Byte),
           Len(h) = 2, Len(b) = 2, Len(c) = 2, NEW a, Behind(h, b, c, body, a)
    PROVE  /\ a \in Seq(Byte) /\ Len(a) = 6 + Len(body) /\ a[1] = h[1] /\ a[2] = h[2]
           /\ Lies(b, a, 2) /\ Lies(c, a, 4) /\ Lies(body, a, 6)
<1>1. PICK s : s = (h \o b) \o c
  OBVIOUS
<1>2. s \in Seq(Byte) /\ Len(s) = 6
  <2>1. PICK d : d = h \o b
    OBVIOUS
  <2>2. d \in Seq(Byte) /\ Len(d) = Len(h) + Len(b)
    BY <2>1, JoinedBytes
  <2>3. s \in Seq(Byte) /\ Len(s) = Len(d) + Len(c)
    BY <1>1, <2>1, <2>2, JoinedBytes
  <2> QED BY <2>2, <2>3
<1>3. Lies(h, s, 0) /\ Lies(b, s, 2) /\ Lies(c, s, 4)
  <2>1. Lies(h, s, 0) /\ Lies(b, s, Len(h)) /\ Lies(c, s, Len(h) + Len(b))
    BY <1>1, ThreeLie
  <2>2. Len(h) + Len(b) = 4
    OBVIOUS
  <2> QED BY <2>1, <2>2
<1>4. a \in Seq(Byte) /\ Len(a) = Len(s) + Len(body) /\ Lies(s, a, 0) /\ Lies(body, a, Len(s))
  <2>1. a = s \o body
    BY <1>1 DEF Behind
  <2> QED BY <1>2, <2>1, JoinLies
<1>5. Lies(h, a, 0) /\ Lies(b, a, 2) /\ Lies(c, a, 4)
  <2>1. Lies(h, a, 0 + 0) /\ Lies(b, a, 0 + 2) /\ Lies(c, a, 0 + 4)
    BY <1>2, <1>3, <1>4, LiesDeeper
  <2>2. 0 + 0 = 0 /\ 0 + 2 = 2 /\ 0 + 4 = 4
    OBVIOUS
  <2> QED BY <2>1, <2>2
<1>6. a[1] = h[1] /\ a[2] = h[2]
  <2>1. 1 \in 1 .. Len(h) /\ 2 \in 1 .. Len(h) /\ 0 + 1 = 1 /\ 0 + 2 = 2
    OBVIOUS
  <2> QED BY <1>5, <2>1 DEF Lies
<1> QED BY <1>2, <1>4, <1>5, <1>6

AsduSays(a, t, count, cot, ca, body) ==
    /\ a \in Seq(Byte) /\ Len(a) = 6 + Len(body) /\ a[1] = t /\ a[2] = count
    /\ Unsigned(SubSeq(a, 3, 4)) = cot /\ Unsigned(SubSeq(a, 5, 6)) = ca
    /\ Lies(body, a, 6)

LEMMA AsduRead ==
    ASSUME NEW t \in Byte, NEW count \in Byte, NEW cot \in Nat, NEW ca \in Nat,
           Fits(cot, 2), Fits(ca, 2), NEW body \in Seq(Byte)
    PROVE  AsduSays(Asdu(t, count, cot, ca, body), t, count, cot, ca, body)
<1>1. PICK a, h, b, c : /\ a = Asdu(t, count, cot, ca, body)
                        /\ h = <<t, count>> /\ b = Bytes(cot, 2) /\ c = Bytes(ca, 2)
  OBVIOUS
<1>2. h \in Seq(Byte) /\ Len(h) = 2 /\ h[1] = t /\ h[2] = count
  BY <1>1
<1>3. b \in Seq(Byte) /\ Len(b) = 2 /\ c \in Seq(Byte) /\ Len(c) = 2
  BY <1>1, BytesAre
<1>4. Behind(h, b, c, body, a)
  BY <1>1 DEF Asdu, Behind
<1>5. /\ a \in Seq(Byte) /\ Len(a) = 6 + Len(body) /\ a[1] = h[1] /\ a[2] = h[2]
      /\ Lies(b, a, 2) /\ Lies(c, a, 4) /\ Lies(body, a, 6)
  BY <1>2, <1>3, <1>4, AsduLies
<1>6. Unsigned(SubSeq(a, 2 + 1, 2 + 2)) = cot /\ Unsigned(SubSeq(a, 4 + 1, 4 + 2)) = ca
  BY <1>1, <1>5, TwoBytesRead
<1> QED BY <1>1, <1>2, <1>5, <1>6 DEF AsduSays

FrameSays(f, ns, nr, asdu) ==
    /\ f \in Seq(Byte) /\ f[3] % 2 = 0 /\ SubSeq(f, 7, Len(f)) = asdu /\ Lies(asdu, f, 6)
    /\ Unsigned(SubSeq(f, 3, 4)) \div 2 = ns /\ Unsigned(SubSeq(f, 5, 6)) \div 2 = nr

LEMMA IFrameRead ==
    ASSUME NEW ns \in Nat, NEW nr \in Nat, Fits(2 * ns, 2), Fits(2 * nr, 2),
           NEW asdu \in Seq(Byte), Len(asdu) + 4 <= 255
    PROVE  FrameSays(IFrame(ns, nr, asdu), ns, nr, asdu)
<1>1. PICK f, h, b, c, n : /\ f = IFrame(ns, nr, asdu) /\ h = <<Start, n>> /\ b = Bytes(2 * ns, 2) /\ c = Bytes(2 * nr, 2)
                           /\ n = Len(asdu) + 4
  OBVIOUS
<1>2. h \in Seq(Byte) /\ Len(h) = 2
  <2>1. n \in Byte /\ Start \in Byte
    BY <1>1, ByteRange DEF Start
  <2> QED BY <1>1, <2>1
<1>3. 2 * ns \in Nat /\ 2 * nr \in Nat
  OBVIOUS
<1>4. b \in Seq(Byte) /\ Len(b) = 2 /\ c \in Seq(Byte) /\ Len(c) = 2
  BY <1>1, <1>3, BytesAre
<1>5. Behind(h, b, c, asdu, f)
  BY <1>1 DEF IFrame, Behind
<1>6. /\ f \in Seq(Byte) /\ Len(f) = 6 + Len(asdu)
      /\ Lies(b, f, 2) /\ Lies(c, f, 4) /\ Lies(asdu, f, 6)
  BY <1>2, <1>4, <1>5, AsduLies
<1>7. Unsigned(SubSeq(f, 3, 4)) = 2 * ns /\ Unsigned(SubSeq(f, 5, 6)) = 2 * nr
  <2>1. PICK k, l : k = 2 * ns /\ l = 2 * nr
    OBVIOUS
  <2>2. Unsigned(SubSeq(f, 2 + 1, 2 + 2)) = k /\ Unsigned(SubSeq(f, 4 + 1, 4 + 2)) = l
    <3>1. k \in Nat /\ l \in Nat /\ Fits(k, 2) /\ Fits(l, 2)
          /\ Lies(Bytes(k, 2), f, 2) /\ Lies(Bytes(l, 2), f, 4)
      BY <1>1, <1>3, <1>6, <2>1
    <3> QED BY <1>6, <3>1, TwoBytesRead
  <2> QED BY <2>1, <2>2
<1>8. f[3] % 2 = 0
  <2>1. f[3] = b[1]
    <3>1. 1 \in 1 .. Len(b) /\ 2 + 1 = 3
      BY <1>4
    <3> QED BY <1>6, <3>1 DEF Lies
  <2>2. b[1] = (2 * ns) % 256
    <3>1. b[1] = ((2 * ns) \div Shift[1]) % 256
      BY <1>1 DEF Bytes
    <3>2. Shift[1] = 1 /\ (2 * ns) \div 1 = 2 * ns
      BY <1>3, Places
    <3> QED BY <3>1, <3>2
  <2>3. ((2 * ns) % 256) % 2 = 0
    OBVIOUS
  <2> QED BY <2>1, <2>2, <2>3
<1>9. SubSeq(f, 7, Len(f)) = asdu
  <2>1. SubSeq(f, 6 + 1, 6 + Len(asdu)) = asdu
    BY <1>6, LiesExactly
  <2> QED BY <1>6, <2>1
<1> QED BY <1>1, <1>6, <1>7, <1>8, <1>9 DEF FrameSays

-----------------------------------------------------------------------------
(* An object is read back *)

\* A time is read back to the millisecond.
LEMMA TimeRead ==
    ASSUME NEW ts \in Times, NEW iv \in BOOLEAN
    PROVE  /\ FromCp56(ToCp56(ts, iv)).iv = iv
           /\ ts.year \in 2000 .. 2127 => FromCp56(ToCp56(ts, iv)).ts = InMilliseconds(ts)
<1>1. /\ ts.year \in Int /\ ts.month \in 1 .. 12 /\ ts.day \in 1 .. 31
      /\ ts.weekday \in 1 .. 7 /\ ts.hour \in 0 .. 23 /\ ts.minute \in 0 .. 59
      /\ ts.second \in 0 .. 59 /\ ts.us \in Nat /\ ts.us < 1000 * 1000
  BY DEF Times
<1>2. PICK n, ms, b : /\ n = ts.us \div 1000 /\ ms = ts.second * 1000 + n
                      /\ b = ToCp56(ts, iv)
  OBVIOUS
<1>3. n \in Nat /\ n < 1000
  BY <1>1, <1>2
<1>4. ms \in Nat /\ ms \div 1000 = ts.second /\ ms % 1000 = n
  BY <1>1, <1>2, <1>3
<1>5. b = <<ms % 256, ms \div 256, ts.minute + (IF iv THEN 128 ELSE 0), ts.hour,
            ts.day + 32 * ts.weekday, ts.month, (ts.year - 2000) % 128>>
  BY <1>2 DEF ToCp56
<1>6. 256 * b[2] + b[1] = ms
  <2>1. b[1] = ms % 256 /\ b[2] = ms \div 256
    BY <1>5
  <2> QED BY <1>4, <2>1
<1>7. b[3] % 64 = ts.minute /\ (b[3] >= 128 <=> iv)
  <2>1. b[3] = ts.minute + (IF iv THEN 128 ELSE 0)
    BY <1>5
  <2>2. CASE iv
    <3>1. b[3] = ts.minute + 128
      BY <2>1, <2>2
    <3>2. b[3] % 64 = ts.minute /\ b[3] >= 128
      BY <1>1, <3>1
    <3> QED BY <2>2, <3>2
  <2>3. CASE ~iv
    <3>1. b[3] = ts.minute
      BY <1>1, <2>1, <2>3
    <3>2. b[3] % 64 = ts.minute /\ ~(b[3] >= 128)
      BY <1>1, <3>1
    <3> QED BY <2>3, <3>2
  <2> QED BY <2>2, <2>3
<1>8. b[4] % 32 = ts.hour /\ b[6] % 16 = ts.month
  <2>1. b[4] = ts.hour /\ b[6] = ts.month
    BY <1>5
  <2> QED BY <1>1, <2>1
<1>9. b[5] % 32 = ts.day
  <2>1. b[5] = ts.day + 32 * ts.weekday
    BY <1>5
  <2> QED BY <1>1, <2>1
<1>10. ts.year \in 2000 .. 2127 => 2000 + (b[7] % 128) = ts.year
  <2>1. b[7] = (ts.year - 2000) % 128
    BY <1>5
  <2> QED BY <1>1, <2>1
<1>11. FromCp56(b).iv = iv
  <2>1. FromCp56(b).iv = (b[3] >= 128)
    BY DEF FromCp56
  <2>2. FromCp56(b).iv <=> iv
    BY <1>7, <2>1
  <2>3. FromCp56(b).iv \in BOOLEAN
    BY <2>1
  <2> QED BY <2>2, <2>3
<1>12. ASSUME ts.year \in 2000 .. 2127 PROVE FromCp56(b).ts = InMilliseconds(ts)
  <2>1. FromCp56(b).ts =
           [year |-> 2000 + (b[7] % 128), month |-> b[6] % 16, day |-> b[5] % 32,
            hour |-> b[4] % 32, minute |-> b[3] % 64,
            second |-> ms \div 1000, us |-> 1000 * (ms % 1000)]
    BY <1>6 DEF FromCp56
  <2>2. FromCp56(b).ts =
           [year |-> ts.year, month |-> ts.month, day |-> ts.day, hour |-> ts.hour,
            minute |-> ts.minute, second |-> ts.second, us |-> 1000 * n]
    BY <1>4, <1>7, <1>8, <1>9, <1>10, <1>12, <2>1
  <2> QED BY <1>2, <2>2 DEF InMilliseconds
<1> QED BY <1>2, <1>11, <1>12

\* A type is of one kind, so a CASE over the kinds has one value.
LEMMA LaterKinds ==
    ASSUME NEW t \in Encodable
    PROVE  /\ t \in BitString => t \notin OneByte \union StepPosition \union Measured16
                                    \union Float \union Counter
           /\ t \in Counter => t \notin OneByte \union StepPosition \union Measured16
                                    \union Float
           /\ t \in Float => t \notin OneByte \union StepPosition \union Measured16
BY DEF OneByte, SinglePoint, DoublePoint, Query, StepPosition, BitString, Measured16, Float,
       Counter

\* the low bits of a byte and the bits above them
LEMMA LowBits ==
    ASSUME NEW q \in Nat, NEW w \in {2, 4}, NEW n \in 0 .. w - 1
    PROVE  /\ (n + HighBits(q, w)) % w = n
           /\ q \in {16 * i : i \in 0 .. 15} => HighBits(n + HighBits(q, w), 16) = q
<1>1. PICK r : r = q % 256
  OBVIOUS
<1>2. r \in 0 .. 255 /\ q % 2 = r % 2 /\ q % 4 = r % 4
  BY <1>1
<1>3. \A x \in 0 .. 255 : ((x - (x % 2)) % 2 = 0 /\ (x - (x % 4)) % 4 = 0)
  OBVIOUS
<1>4. PICK h : h = HighBits(q, w)
  OBVIOUS
<1>5. h = r - (r % w)
  BY <1>1, <1>2, <1>4 DEF HighBits
<1>6. h \in 0 .. 255 /\ h % w = 0 /\ h + w <= 256
  <2>1. CASE w = 2
    <3>1. h = r - (r % 2)
      BY <1>5, <2>1
    <3>2. h \in 0 .. 254 /\ h % 2 = 0
      BY <1>2, <3>1
    <3> QED BY <2>1, <3>2
  <2>2. CASE w = 4
    <3>1. h = r - (r % 4)
      BY <1>5, <2>2
    <3>2. h \in 0 .. 252 /\ h % 4 = 0
      BY <1>2, <3>1
    <3> QED BY <2>2, <3>2
  <2> QED BY <2>1, <2>2
<1>7. (n + h) % w = n
  <2>1. CASE w = 2
    BY <1>6, <2>1
  <2>2. CASE w = 4
    BY <1>6, <2>2
  <2> QED BY <2>1, <2>2
<1>8. ASSUME q \in {16 * i : i \in 0 .. 15} PROVE HighBits(n + h, 16) = q
  <2>1. PICK i \in 0 .. 15 : q = 16 * i
    BY <1>8
  <2>2. q % 256 = q /\ q % 2 = 0 /\ q % 4 = 0
    BY <2>1
  <2>3. h = q
    <3>1. w \in {2, 4} /\ r = q /\ r % w = 0
      BY <1>1, <2>2
    <3> QED BY <1>5, <3>1
  <2>4. n \in 0 .. 3
    OBVIOUS
  <2>5. (n + q) % 256 = n + q /\ (n + q) % 16 = n
    BY <2>1, <2>4
  <2>6. HighBits(n + h, 16) = (n + q) - n
    BY <2>3, <2>5 DEF HighBits
  <2> QED BY <2>4, <2>6
<1> QED BY <1>4, <1>7, <1>8

LEMMA QualityBehind ==
    ASSUME NEW b \in Seq(Byte), NEW q \in Byte, NEW d \in Seq(Byte), Lies(b \o <<q>>, d, 0)
    PROVE  SubSeq(d, 1, Len(b)) = b /\ d[Len(b) + 1] = q
<1>1. PICK c, s, n : c = <<q>> /\ s = b \o c /\ n = Len(b)
  OBVIOUS
<1>2. c \in Seq(Byte) /\ Len(c) = 1 /\ c[1] = q /\ n \in Nat
  BY <1>1
<1>3. s \in Seq(Byte) /\ Lies(b, s, 0) /\ Lies(c, s, n) /\ Len(s) = n + 1
  BY <1>1, <1>2, JoinLies
<1>4. Lies(s, d, 0)
  BY <1>1
<1>5. Lies(b, d, 0 + 0)
  BY <1>3, <1>4, LiesDeeper
<1>6. Lies(c, d, 0 + n)
  BY <1>2, <1>3, <1>4, LiesDeeper
<1>7. 0 + 0 = 0 /\ 0 + n = n /\ 0 + 1 = 1
  BY <1>2
<1>8. SubSeq(d, 0 + 1, 0 + Len(b)) = b
  BY <1>5, <1>7, LiesExactly
<1>9. d[n + 1] = q
  <2>1. 1 \in 1 .. Len(c)
    BY <1>2
  <2> QED BY <1>2, <1>6, <1>7, <2>1 DEF Lies
<1> QED BY <1>1, <1>7, <1>8, <1>9

LEMMA FirstByte ==
    ASSUME NEW b, NEW d, Lies(<<b>>, d, 0)
    PROVE  d[1] = b
BY DEF Lies

\* A value that its type can hold is read back, and its quality.
LEMMA ValueRead ==
    ASSUME NEW t \in Encodable, NEW ev \in Events, InRange(t, ev),
           NEW d \in Seq(Byte), Lies(EncVal(t, ev), d, 0)
    PROVE  /\ Holds(t, ev.val) => DecVal(t, d).val = Shown(t, ev.val)
           /\ HoldsQ(t, ev.q) => DecVal(t, d).q = ev.q
<1>0. PICK n : n = Trunc(ev.val)
  OBVIOUS
<1>1. ev.ioa \in Int /\ ev.val \in Int /\ ev.q \in Nat /\ n \in Int
  BY <1>0, EventFields
<1>2. t \notin OneByte => ev.q \in Byte
  BY DEF InRange, Byte
<1>3. t \in Float => Shown(t, ev.val) = ev.val
  BY DEF Shown
<1>4. t \notin Float => Shown(t, ev.val) = Halves(n)
  BY <1>0, TypeNumbers DEF Shown
<1> /\ t \in SinglePoint \union DoublePoint \union {Query} => t \in OneByte
    /\ t \in OneByte \union StepPosition \union Measured16 => t \notin BitString \union Counter
  BY LaterKinds DEF OneByte
<1>5. CASE t \in SinglePoint
  <2>1. t \in OneByte /\ t \notin Float
    BY <1>5, Kinds DEF OneByte
  <2>2. EncVal(t, ev) = <<(n % 2) + HighBits(ev.q, 2)>>
    BY <1>0, <1>5, Kinds DEF EncVal
  <2>3. PICK k : k = n % 2
    OBVIOUS
  <2>4. k \in 0 .. 2 - 1
    BY <1>1, <2>3
  <2>5. d[1] = k + HighBits(ev.q, 2)
    BY <2>2, <2>3, FirstByte
  <2>6. d[1] % 2 = k /\ (HoldsQ(t, ev.q) => HighBits(d[1], 16) = ev.q)
    BY <1>1, <2>1, <2>4, <2>5, LowBits DEF HoldsQ
  <2>7. DecVal(t, d) = [val |-> Halves(d[1] % 2), q |-> HighBits(d[1], 16)]
    BY <1>5, Kinds DEF DecVal
  <2>8. Holds(t, ev.val) => n \in 0 .. 1
    BY <1>0, <1>5, Kinds DEF Holds
  <2>9. n \in 0 .. 1 => n = k
    BY <2>3
  <2> QED BY <1>4, <2>1, <2>6, <2>7, <2>8, <2>9
<1>6. CASE t \in DoublePoint
  <2>1. t \in OneByte /\ t \notin Float /\ t \notin SinglePoint
    BY <1>6, Kinds DEF OneByte
  <2>2. EncVal(t, ev) = <<(n % 4) + HighBits(ev.q, 4)>>
    BY <1>0, <1>6, <2>1, Kinds DEF EncVal
  <2>3. PICK k : k = n % 4
    OBVIOUS
  <2>4. k \in 0 .. 4 - 1
    BY <1>1, <2>3
  <2>5. d[1] = k + HighBits(ev.q, 4)
    BY <2>2, <2>3, FirstByte
  <2>6. d[1] % 4 = k /\ (HoldsQ(t, ev.q) => HighBits(d[1], 16) = ev.q)
    BY <1>1, <2>1, <2>4, <2>5, LowBits DEF HoldsQ
  <2>7. DecVal(t, d) = [val |-> Halves(d[1] % 4), q |-> HighBits(d[1], 16)]
    BY <1>6, <2>1, Kinds DEF DecVal
  <2>8. Holds(t, ev.val) => n \in 0 .. 3
    BY <1>0, <1>6, <2>1, Kinds DEF Holds
  <2>9. n \in 0 .. 3 => n = k
    BY <2>3
  <2> QED BY <1>4, <2>1, <2>6, <2>7, <2>8, <2>9
<1>7. CASE t = Query
  <2>1. t \in OneByte /\ t \notin Float /\ t \notin SinglePoint /\ t \notin DoublePoint
        /\ t \notin StepPosition
    BY <1>7, Kinds DEF OneByte
  <2>2. EncVal(t, ev) = <<n % 256>>
    BY <1>0, <1>7, <2>1, Kinds DEF EncVal
  <2>3. d[1] = n % 256
    BY <2>2, FirstByte
  <2>4. DecVal(t, d) = [val |-> Halves(d[1]), q |-> 0]
    BY <1>7, <2>1, Kinds DEF DecVal
  <2>5. Holds(t, ev.val) => n \in 0 .. 255
    BY <1>0, <1>7, <2>1, Kinds DEF Holds
  <2>6. n \in 0 .. 255 => n = n % 256
    OBVIOUS
  <2>7. ~HoldsQ(t, ev.q)
    BY <1>7, <2>1 DEF HoldsQ
  <2> QED BY <1>4, <2>1, <2>3, <2>4, <2>5, <2>6, <2>7
<1>8. CASE t \in StepPosition
  <2>1. t \notin OneByte /\ t \notin Float /\ t \notin SinglePoint /\ t \notin DoublePoint
        /\ t # Query
    BY <1>8, Kinds DEF OneByte
  <2>2. EncVal(t, ev) = Bytes(n, 1) \o <<ev.q>>
    BY <1>0, <1>8, <2>1, Kinds DEF EncVal
  <2>3. PICK b : b = Bytes(n, 1)
    OBVIOUS
  <2>4. b \in Seq(Byte) /\ Len(b) = 1 /\ b[1] = n % 256
    <3>1. b[1] = (n \div Shift[1]) % 256
      BY <2>3 DEF Bytes
    <3>2. Shift[1] = 1 /\ n \div 1 = n
      BY <1>1, Places
    <3>3. b \in Seq(Byte) /\ Len(b) = 1
      BY <1>1, <2>3, BytesAre
    <3> QED BY <3>1, <3>2, <3>3
  <2>5. SubSeq(d, 1, 1) = b /\ d[2] = ev.q
    <3>1. SubSeq(d, 1, Len(b)) = b /\ d[Len(b) + 1] = ev.q
      BY <1>2, <2>1, <2>2, <2>3, <2>4, QualityBehind
    <3> QED BY <2>4, <3>1
  <2>6. d[1] = n % 256
    <3>1. Lies(b \o <<ev.q>>, d, 0)
      BY <2>2, <2>3
    <3>2. Len(d) \in Nat /\ 1 <= Len(d)
      <4>1. Len(b \o <<ev.q>>) = 2
        <5>1. PICK q : q = ev.q
          OBVIOUS
        <5>2. Len(b \o <<q>>) = Len(b) + 1
          BY <1>1, <2>4, <5>1, OneMore
        <5> QED BY <2>4, <5>1, <5>2
      <4> QED BY <3>1, <4>1 DEF Lies
    <3>3. SubSeq(d, 1, 1)[1] = d[1]
      BY <3>2
    <3> QED BY <2>4, <2>5, <3>3
  <2>7. DecVal(t, d) = [val |-> Halves(d[1] % 128), q |-> d[2]]
    BY <1>8, <2>1, Kinds DEF DecVal
  <2>8. Holds(t, ev.val) => n >= 0
    BY <1>0, <1>8, <2>1, Kinds DEF Holds
  <2>9. n \in -128 .. 127
    <3>1. FitsSigned(n, 1)
      BY <1>0, <1>8 DEF InRange
    <3>2. Shift[1] = 1 /\ n \div 1 = n
      BY <1>1, Places
    <3> QED BY <3>1, <3>2 DEF FitsSigned
  <2>10. n >= 0 => (n % 256) % 128 = n
    BY <2>9
  <2> QED BY <1>4, <2>1, <2>5, <2>6, <2>7, <2>8, <2>10
<1>9. CASE t \in Measured16
  <2>1. t \notin OneByte /\ t \notin Float /\ t \notin SinglePoint /\ t \notin DoublePoint
        /\ t # Query /\ t \notin StepPosition
    BY <1>9, Kinds DEF OneByte
  <2>2. EncVal(t, ev) = Bytes(n, 2) \o <<ev.q>>
    BY <1>0, <1>9, <2>1, Kinds DEF EncVal
  <2>3. PICK b : b = Bytes(n, 2)
    OBVIOUS
  <2>4. b \in Seq(Byte) /\ Len(b) = 2
    BY <1>1, <2>3, BytesAre
  <2>5. SubSeq(d, 1, 2) = b /\ d[3] = ev.q
    <3>1. SubSeq(d, 1, Len(b)) = b /\ d[Len(b) + 1] = ev.q
      BY <1>2, <2>1, <2>2, <2>3, <2>4, QualityBehind
    <3> QED BY <2>4, <3>1
  <2>6. Signed(b) = n
    <3>1. FitsSigned(n, 2)
      BY <1>0, <1>9 DEF InRange
    <3> QED BY <1>1, <2>3, <3>1, SignedBytes
  <2>7. DecVal(t, d) = [val |-> Halves(Signed(SubSeq(d, 1, 2))), q |-> d[3]]
    BY <1>9, <2>1, Kinds DEF DecVal
  <2>8. DecVal(t, d).val = Halves(n) /\ DecVal(t, d).q = ev.q
    <3>1. PICK r, z : r = SubSeq(d, 1, 2) /\ z = Signed(r)
      OBVIOUS
    <3>2. DecVal(t, d) = [val |-> Halves(z), q |-> d[3]] /\ z = n
      BY <2>5, <2>6, <2>7, <3>1
    <3> QED BY <2>5, <3>2
  <2> QED BY <1>4, <2>1, <2>8
<1>10. CASE t \in Float \union BitString \union Counter
  <2>1. t \notin OneByte /\ t \notin SinglePoint /\ t \notin DoublePoint
        /\ t # Query /\ t \notin StepPosition /\ t \notin Measured16
    BY <1>10, LaterKinds DEF OneByte
  <2>2. PICK k : k = IF t \in Float THEN ev.val ELSE n
    OBVIOUS
  <2>3. EncVal(t, ev) = Bytes(k, 4) \o <<ev.q>>
    BY <1>0, <2>1, <2>2, Kinds DEF EncVal
  <2>4. PICK b : b = Bytes(k, 4)
    OBVIOUS
  <2>5. k \in Int /\ b \in Seq(Byte) /\ Len(b) = 4
    <3>1. k \in Int
      BY <1>1, <2>2
    <3> QED BY <2>4, <3>1, BytesAre
  <2>6. SubSeq(d, 1, 4) = b /\ d[5] = ev.q
    <3>1. SubSeq(d, 1, Len(b)) = b /\ d[Len(b) + 1] = ev.q
      BY <1>2, <2>1, <2>3, <2>4, <2>5, QualityBehind
    <3> QED BY <2>5, <3>1
  <2>7. CASE t \in BitString
    <3>1. t \notin Float /\ t \notin Counter
      BY <2>7, LaterKinds
    <3>2. Fits(n, 4) /\ k = n
      BY <1>0, <2>2, <2>7, <3>1 DEF InRange
    <3>3. Unsigned(b) = n
      BY <1>1, <2>4, <3>2, UnsignedBytes
    <3>4. DecVal(t, d) = [val |-> Halves(Unsigned(SubSeq(d, 1, 4))), q |-> d[5]]
      BY <2>1, <2>7, <3>1 DEF DecVal
    <3>5. DecVal(t, d).val = Halves(n) /\ DecVal(t, d).q = ev.q
      <4>1. PICK r, z : r = SubSeq(d, 1, 4) /\ z = Unsigned(r)
        OBVIOUS
      <4>2. DecVal(t, d) = [val |-> Halves(z), q |-> d[5]] /\ z = n
        BY <2>6, <3>3, <3>4, <4>1
      <4> QED BY <2>6, <4>2
    <3> QED BY <1>4, <3>1, <3>5
  <2>8. CASE t \in Float
    <3>1. t \notin BitString /\ t \notin Counter
      BY <2>8, LaterKinds
    <3>2. FitsSigned(k, 4) /\ k = ev.val
      BY <2>2, <2>8 DEF InRange
    <3>3. Signed(b) = ev.val
      BY <1>1, <2>4, <3>2, SignedBytes
    <3>4. DecVal(t, d) = [val |-> Signed(SubSeq(d, 1, 4)), q |-> d[5]]
      BY <2>1, <2>8, <3>1 DEF DecVal
    <3>5. DecVal(t, d).val = ev.val /\ DecVal(t, d).q = ev.q
      <4>1. PICK r, z : r = SubSeq(d, 1, 4) /\ z = Signed(r)
        OBVIOUS
      <4>2. DecVal(t, d) = [val |-> z, q |-> d[5]] /\ z = ev.val
        BY <2>6, <3>3, <3>4, <4>1
      <4> QED BY <2>6, <4>2
    <3> QED BY <1>3, <2>8, <3>5
  <2>9. CASE t \in Counter
    <3>1. t \notin BitString /\ t \notin Float
      BY <2>9, LaterKinds
    <3>2. FitsSigned(n, 4) /\ k = n
      BY <1>0, <2>2, <2>9, <3>1 DEF InRange
    <3>3. Signed(b) = n
      BY <1>1, <2>4, <3>2, SignedBytes
    <3>4. DecVal(t, d) = [val |-> Halves(Signed(SubSeq(d, 1, 4))), q |-> d[5]]
      BY <2>1, <2>9, <3>1 DEF DecVal
    <3>5. DecVal(t, d).val = Halves(n) /\ DecVal(t, d).q = ev.q
      <4>1. PICK r, z : r = SubSeq(d, 1, 4) /\ z = Signed(r)
        OBVIOUS
      <4>2. DecVal(t, d) = [val |-> Halves(z), q |-> d[5]] /\ z = n
        BY <2>6, <3>3, <3>4, <4>1
      <4> QED BY <2>6, <4>2
    <3> QED BY <1>4, <3>1, <3>5
  <2> QED BY <1>10, <2>7, <2>8, <2>9
<1> QED BY <1>5, <1>6, <1>7, <1>8, <1>9, <1>10 DEF Encodable, OneByte

\* what an object holds behind its address
DataOf(t, ev) == SubSeq(EncObj(t, ev), 4, 3 + SizeOf(t))

LEMMA ObjectLies ==
    ASSUME NEW t \in Encodable, NEW ev \in Events, InRange(t, ev)
    PROVE  /\ Lies(Bytes(ev.ioa, 3), EncObj(t, ev), 0) /\ Lies(EncVal(t, ev), EncObj(t, ev), 3)
           /\ t \in Timed => Lies(ToCp56(ev.ts, ev.iv), EncObj(t, ev), 3 + (SizeOf(t) - 7))
<1>1. PICK a, b, c : /\ a = Bytes(ev.ioa, 3) /\ b = EncVal(t, ev)
                     /\ c = IF t \in Timed THEN ToCp56(ev.ts, ev.iv) ELSE <<>>
  OBVIOUS
<1>2. a \in Seq(Byte) /\ Len(a) = 3
  BY <1>1, EventFields, BytesAre
<1>3. b \in Seq(Byte) /\ Len(b) = Width(t)
  BY <1>1, ValueBytes
<1>4. c \in Seq(Byte)
  <2>1. ToCp56(ev.ts, ev.iv) \in Seq(Byte)
    BY EventFields, TimeBytes
  <2>2. <<>> \in Seq(Byte)
    OBVIOUS
  <2> QED BY <1>1, <2>1, <2>2
<1>5. EncObj(t, ev) = (a \o b) \o c
  <2>1. EncObj(t, ev) = a \o b \o c
    BY <1>1 DEF EncObj
  <2> QED BY <2>1
<1>6. /\ Lies(a, (a \o b) \o c, 0) /\ Lies(b, (a \o b) \o c, Len(a))
      /\ Lies(c, (a \o b) \o c, Len(a) + Len(b))
  BY <1>2, <1>3, <1>4, ThreeLie
<1>7. t \in Timed => c = ToCp56(ev.ts, ev.iv) /\ Width(t) = SizeOf(t) - 7
  BY <1>1 DEF Width
<1> QED BY <1>1, <1>2, <1>3, <1>5, <1>6, <1>7

\* The data d holds the value of an event and, if its type has one, its time.
Carries(t, ev, d) ==
    /\ d \in Seq(Byte) /\ Len(d) = SizeOf(t) /\ Lies(EncVal(t, ev), d, 0)
    /\ t \in Timed => Lies(ToCp56(ev.ts, ev.iv), d, SizeOf(t) - 7)

LEMMA DataLies ==
    ASSUME NEW t \in Encodable, NEW ev \in Events, InRange(t, ev)
    PROVE  Carries(t, ev, DataOf(t, ev)) /\ Lies(DataOf(t, ev), EncObj(t, ev), 3)
<1>1. PICK o, v, time, n : /\ o = EncObj(t, ev) /\ v = EncVal(t, ev) /\ n = SizeOf(t)
                           /\ time = ToCp56(ev.ts, ev.iv)
  OBVIOUS
<1>2. o \in Seq(Byte) /\ Len(o) = 3 + n /\ n \in Nat
  BY <1>1, ObjectBytes, Sizes
<1>3. v \in Seq(Byte) /\ Len(v) = Width(t) /\ Lies(v, o, 3)
  BY <1>1, ValueBytes, ObjectLies
<1>4. Width(t) \in Nat /\ Width(t) = n - (IF t \in Timed THEN 7 ELSE 0)
  BY <1>1, Sizes DEF Width
<1>5. PICK d : d = SubSeq(o, 3 + 1, 3 + n)
  OBVIOUS
<1>6. d = DataOf(t, ev)
  BY <1>1, <1>5 DEF DataOf
<1>7. d \in Seq(Byte) /\ Len(d) = n /\ Lies(v, d, 0)
  <2>1. PICK p : p = 3
    OBVIOUS
  <2>2. p \in Nat /\ p + n <= Len(o) /\ d = SubSeq(o, p + 1, p + n)
    BY <1>2, <1>5, <2>1
  <2>3. d \in Seq(Byte) /\ Len(d) = n /\ \A k \in 1 .. n : d[k] = o[p + k]
    BY <1>2, <2>2, Slice
  <2>4. 0 + Len(v) <= Len(d) /\ \A k \in 1 .. Len(v) : k \in 1 .. n /\ 0 + k = k
    BY <1>3, <1>4, <2>3
  <2>5. \A k \in 1 .. Len(v) : o[p + k] = v[k]
    BY <1>3, <2>1 DEF Lies
  <2>6. \A k \in 1 .. Len(v) : d[0 + k] = v[k]
    BY <2>3, <2>4, <2>5
  <2>7. Lies(v, d, 0)
    BY <2>4, <2>6 DEF Lies
  <2> QED BY <2>3, <2>7
<1>8. ASSUME t \in Timed PROVE Lies(time, d, n - 7)
  <2>1. time \in Seq(Byte) /\ Len(time) = 7
    BY <1>1, EventFields, TimeBytes
  <2>2. PICK m : m = n - 7
    OBVIOUS
  <2>3. m \in Nat /\ m + 7 <= n
    BY <1>2, <1>4, <1>8, <2>2
  <2>4. Lies(time, o, 3 + m)
    BY <1>1, <1>8, <2>2, ObjectLies
  <2>5. 3 + n <= Len(o) /\ m + Len(time) <= n /\ 3 \in Nat
    BY <1>2, <2>1, <2>3
  <2>6. Lies(time, d, m)
    BY <1>2, <1>5, <2>1, <2>3, <2>4, <2>5, LiesInPart
  <2> QED BY <2>2, <2>6
<1>9. Lies(d, o, 3)
  <2>1. 3 + n <= Len(o) /\ Len(d) = n
    BY <1>2, <1>7
  <2>2. \A k \in 1 .. n : d[k] = o[3 + k]
    BY <1>2, <1>5
  <2> QED BY <2>1, <2>2 DEF Lies
<1> QED BY <1>1, <1>6, <1>7, <1>8, <1>9 DEF Carries

\* An object is read back.
LEMMA ObjectRead ==
    ASSUME NEW t \in Encodable, NEW ev \in Events, InRange(t, ev), NEW d, Carries(t, ev, d)
    PROVE  Arrives(t, ev, DecodeObject(t, [ioa |-> ev.ioa, data |-> d]))
<1>1. PICK o, v, time : /\ o = DecodeObject(t, [ioa |-> ev.ioa, data |-> d])
                        /\ v = DecVal(t, d)
                        /\ time = FromCp56(SubSeq(d, SizeOf(t) - 6, SizeOf(t)))
  OBVIOUS
<1>2. o.ioa = ev.ioa /\ o.val = v.val /\ o.q = v.q
      /\ (t \in Timed => o.iv = time.iv /\ o.ts = time.ts)
  BY <1>1 DEF DecodeObject
<1>3. /\ Holds(t, ev.val) => v.val = Shown(t, ev.val)
      /\ HoldsQ(t, ev.q) => v.q = ev.q
  BY <1>1, ValueRead DEF Carries
<1>4. ASSUME t \in Timed
      PROVE  time.iv = ev.iv /\ (ev.ts.year \in 2000 .. 2127 => time.ts = InMilliseconds(ev.ts))
  <2>1. PICK b, m : b = ToCp56(ev.ts, ev.iv) /\ m = SizeOf(t) - 7
    OBVIOUS
  <2>2. b \in Seq(Byte) /\ Len(b) = 7
    BY <2>1, EventFields, TimeBytes
  <2>3. Lies(b, d, m) /\ d \in Seq(Byte)
    BY <1>4, <2>1 DEF Carries
  <2>4. m \in Nat /\ m + 1 = SizeOf(t) - 6 /\ m + 7 = SizeOf(t)
    <3>1. SizeOf(t) \in Nat /\ Width(t) \in Nat /\ Width(t) = SizeOf(t) - 7
      BY <1>4, Sizes DEF Width
    <3> QED BY <2>1, <3>1
  <2>5. SubSeq(d, m + 1, m + Len(b)) = b
    BY <2>2, <2>3, <2>4, LiesExactly
  <2>6. time = FromCp56(b)
    BY <1>1, <2>2, <2>4, <2>5
  <2>7. ev.ts \in Times /\ ev.iv \in BOOLEAN
    BY DEF Events
  <2> QED BY <2>1, <2>6, <2>7, TimeRead
<1> QED BY <1>1, <1>2, <1>3, <1>4 DEF Arrives

-----------------------------------------------------------------------------
(* The objects of a frame are read back *)

LEMMA WholeObjects ==
    ASSUME NEW n \in Nat, NEW k \in {1, 2, 3, 4, 5, 6, 8, 9, 10, 11, 12, 13, 15}
    PROVE  n * k \in Nat /\ (n * k) \div k = n
OBVIOUS

\* n objects of a size one behind the other, each with its address
Plain(asdu, n, size) ==
    SizeOf(asdu[1]) = size /\ asdu[2] = n /\ Len(asdu) = 6 + n * (size + 3)

PlainList(asdu, n, size) ==
    [i \in 1 .. n |->
        [ioa |-> Unsigned(SubSeq(asdu, 6 + (i - 1) * (size + 3) + 1,
                                       6 + (i - 1) * (size + 3) + 3)),
         data |-> SubSeq(asdu, 6 + i * (size + 3) - size + 1, 6 + i * (size + 3))]]

\* and with the address of the first alone
InSequence(asdu, n, size) ==
    SizeOf(asdu[1]) = size /\ asdu[2] = 128 + n /\ Len(asdu) = 9 + n * size

SequenceList(asdu, n, size) ==
    [i \in 1 .. n |->
        [ioa |-> Unsigned(SubSeq(asdu, 7, 9)) + i - 1,
         data |-> SubSeq(asdu, 9 + i * size - size + 1, 9 + i * size)]]

LEMMA ParsedObjects ==
    ASSUME NEW asdu \in Seq(Byte), NEW n \in 0 .. 127, NEW size \in {1, 2, 3, 5, 8, 9, 10, 12},
           Plain(asdu, n, size)
    PROVE  Parsed(asdu) = PlainList(asdu, n, size)
<1>0. SizeOf(asdu[1]) = size /\ asdu[2] = n /\ Len(asdu) = 6 + n * (size + 3)
  BY DEF Plain
<1>1. ~(asdu[2] >= 128) /\ asdu[2] % 128 = n
  BY <1>0
<1>2. (Len(asdu) - 6) \div (size + 3) = n
  <2>1. PICK k : k = size + 3
    OBVIOUS
  <2>2. k \in {4, 5, 6, 8, 11, 12, 13, 15}
    BY <2>1
  <2>3. n * k \in Nat /\ (n * k) \div k = n
    BY <2>2, WholeObjects
  <2>4. Len(asdu) - 6 = n * k
    BY <1>0, <2>1, <2>3
  <2> QED BY <2>1, <2>3, <2>4
<1>3. (IF asdu[2] % 128 < n THEN asdu[2] % 128 ELSE n) = n
  BY <1>1
<1> QED BY <1>0, <1>1, <1>2, <1>3 DEF Parsed, PlainList

LEMMA ParsedSequence ==
    ASSUME NEW asdu \in Seq(Byte), NEW n \in 0 .. 127, NEW size \in {1, 2, 3, 5, 8, 9, 10, 12},
           InSequence(asdu, n, size)
    PROVE  Parsed(asdu) = SequenceList(asdu, n, size)
<1>0. SizeOf(asdu[1]) = size /\ asdu[2] = 128 + n /\ Len(asdu) = 9 + n * size
  BY DEF InSequence
<1>1. asdu[2] >= 128 /\ asdu[2] % 128 = n
  BY <1>0
<1>2. (Len(asdu) - 9) \div size = n
  <2>1. n * size \in Nat /\ (n * size) \div size = n
    BY WholeObjects
  <2>2. Len(asdu) - 9 = n * size
    BY <1>0, <2>1
  <2> QED BY <2>1, <2>2
<1>3. (IF asdu[2] % 128 < n THEN asdu[2] % 128 ELSE n) = n
  BY <1>1
<1> QED BY <1>0, <1>1, <1>2, <1>3 DEF Parsed, SequenceList

\* addresses and data, as Parsed lists them
Listed(events, data) ==
    [i \in 1 .. Len(events) |-> [ioa |-> events[i].ioa, data |-> data[i]]]

\* Each object of objs begins with the address of its event, and the data follow.
ObjectsOf(t, events, objs, data) ==
    /\ objs \in Seq(Seq(Byte)) /\ Len(objs) = Len(events)
    /\ \A i \in 1 .. Len(events) :
          /\ InRange(t, events[i]) /\ Len(objs[i]) = SizeOf(t) + 3
          /\ data[i] \in Seq(Byte) /\ Len(data[i]) = SizeOf(t)
          /\ Lies(Bytes(events[i].ioa, 3), objs[i], 0) /\ Lies(data[i], objs[i], 3)

LEMMA ObjectsRead ==
    ASSUME NEW t \in Byte, SizeOf(t) \in {1, 2, 3, 5, 8, 9, 10, 12},
           NEW events \in Seq(Events), Len(events) < 128, NEW objs, NEW data,
           ObjectsOf(t, events, objs, data),
           NEW a \in Seq(Byte), a[1] = t, a[2] = Len(events),
           Len(a) = 6 + Len(FlattenSeq(objs)), Lies(FlattenSeq(objs), a, 6)
    PROVE  Parsed(a) = Listed(events, data)
<1>1. PICK n, size, k, flat : /\ n = Len(events) /\ size = SizeOf(t) /\ k = size + 3
                              /\ flat = FlattenSeq(objs)
  OBVIOUS
<1>2. n \in 0 .. 127 /\ n \in Nat /\ size \in {1, 2, 3, 5, 8, 9, 10, 12} /\ size \in Nat
      /\ k \in Nat
  <2>1. n \in Nat /\ n < 128
    BY <1>1
  <2>2. size \in {1, 2, 3, 5, 8, 9, 10, 12}
    BY <1>1
  <2>3. size \in Nat
    BY <2>2
  <2>4. n \in 0 .. 127
    BY <2>1
  <2>5. k = size + 3
    BY <1>1
  <2>6. k \in Nat
    BY <2>3, <2>5
  <2> QED BY <2>1, <2>2, <2>3, <2>4, <2>6
<1>3. /\ objs \in Seq(Seq(Byte)) /\ Len(objs) = n
      /\ \A i \in 1 .. n : Len(objs[i]) = k
  BY <1>1 DEF ObjectsOf
<1>4. /\ flat \in Seq(Byte) /\ Len(flat) = n * k
      /\ \A i \in 1 .. n : Lies(objs[i], flat, (i - 1) * k)
  BY <1>1, <1>2, <1>3, FlattenSeqs, Zenon
<1>5. Parsed(a) = [i \in 1 .. n |->
              [ioa |-> Unsigned(SubSeq(a, 6 + (i - 1) * k + 1, 6 + (i - 1) * k + 3)),
               data |-> SubSeq(a, 6 + i * k - size + 1, 6 + i * k)]]
  <2>1. Plain(a, n, size)
    BY <1>1, <1>4 DEF Plain
  <2>2. Parsed(a) = PlainList(a, n, size)
    BY <1>2, <2>1, ParsedObjects
  <2> QED BY <1>1, <2>2 DEF PlainList
<1>6. ASSUME NEW i \in 1 .. n
      PROVE  /\ Unsigned(SubSeq(a, 6 + (i - 1) * k + 1, 6 + (i - 1) * k + 3)) = events[i].ioa
             /\ SubSeq(a, 6 + i * k - size + 1, 6 + i * k) = data[i]
  <2>1. PICK ev, o, d, q, p : /\ ev = events[i] /\ o = objs[i] /\ d = data[i]
                              /\ q = (i - 1) * k /\ p = 6 + q
    OBVIOUS
  <2>2. q \in Nat /\ p \in Nat
    <3>1. i - 1 \in Nat
      OBVIOUS
    <3> QED BY <1>2, <2>1, <3>1, SMTT(30)
  <2>3. ev \in Events /\ o \in Seq(Byte)
    BY <1>1, <1>3, <2>1, SMTT(30)
  <2>4. /\ InRange(t, ev) /\ d \in Seq(Byte) /\ Len(d) = size
        /\ Lies(Bytes(ev.ioa, 3), o, 0) /\ Lies(d, o, 3)
    BY <1>1, <2>1 DEF ObjectsOf
  <2>5. Lies(o, a, p)
    <3>1. Lies(o, flat, q) /\ Lies(flat, a, 6) /\ 6 \in Nat
      BY <1>1, <1>4, <2>1
    <3>2. Lies(o, a, 6 + q)
      BY <1>4, <2>2, <2>3, <3>1, LiesDeeper
    <3> QED BY <2>1, <3>2
  <2>6. Unsigned(SubSeq(a, p + 1, p + 3)) = ev.ioa
    <3>1. PICK b : b = Bytes(ev.ioa, 3)
      OBVIOUS
    <3>2. b \in Seq(Byte) /\ 0 \in Nat /\ p + 0 = p
      BY <2>2, <2>3, <3>1, EventFields, BytesAre
    <3>3. Lies(b, a, p + 0)
      BY <2>2, <2>3, <2>4, <2>5, <3>1, <3>2, LiesDeeper
    <3>4. Lies(Bytes(ev.ioa, 3), a, p)
      BY <3>1, <3>2, <3>3
    <3> QED BY <2>2, <2>3, <2>4, <3>4, AddressRead
  <2>7. SubSeq(a, (p + 3) + 1, (p + 3) + size) = d
    <3>1. Lies(d, a, p + 3) /\ p + 3 \in Nat
      BY <2>2, <2>3, <2>4, <2>5, LiesDeeper
    <3>2. SubSeq(a, (p + 3) + 1, (p + 3) + Len(d)) = d
      BY <2>4, <3>1, LiesExactly
    <3> QED BY <2>4, <3>2
  <2>8. 6 + i * k - size = p + 3 /\ 6 + i * k = (p + 3) + size
    <3>1. i * k = q + k
      <4>1. i \in Nat
        OBVIOUS
      <4> QED BY <1>2, <2>1, <4>1
    <3>2. k = size + 3
      BY <1>1
    <3>3. PICK x : x = i * k
      OBVIOUS
    <3>4. 6 + x - size = (6 + q) + 3 /\ 6 + x = ((6 + q) + 3) + size
      BY <1>2, <2>2, <3>1, <3>2, <3>3
    <3> QED BY <2>1, <3>3, <3>4
  <2> QED BY <2>1, <2>6, <2>7, <2>8
<1>7. Parsed(a) = [i \in 1 .. n |-> [ioa |-> events[i].ioa, data |-> data[i]]]
  BY <1>5, <1>6
<1> QED BY <1>1, <1>7 DEF Listed

\* with the bit SQ: data one behind the other, at consecutive addresses
LEMMA SequenceRead ==
    ASSUME NEW t \in Byte, SizeOf(t) \in {1, 2, 3, 5, 8, 9, 10, 12},
           NEW events \in Seq(Events), Len(events) < 128, events # <<>>, InRange(t, events[1]),
           \A i \in 1 .. Len(events) : events[i].ioa = events[1].ioa + i - 1,
           NEW data \in Seq(Seq(Byte)), Len(data) = Len(events),
           \A i \in 1 .. Len(events) : Len(data[i]) = SizeOf(t),
           NEW a \in Seq(Byte), a[1] = t, a[2] = 128 + Len(events),
           Len(a) = 9 + Len(FlattenSeq(data)),
           Lies(Bytes(events[1].ioa, 3), a, 6), Lies(FlattenSeq(data), a, 9)
    PROVE  Parsed(a) = Listed(events, data)
<1>1. PICK n, size, flat : /\ n = Len(events) /\ size = SizeOf(t) /\ flat = FlattenSeq(data)
  OBVIOUS
<1>2. n \in 0 .. 127 /\ n \in Nat /\ size \in {1, 2, 3, 5, 8, 9, 10, 12} /\ size \in Nat
  <2>1. n \in Nat /\ n < 128
    BY <1>1
  <2>2. size \in {1, 2, 3, 5, 8, 9, 10, 12}
    BY <1>1
  <2>3. size \in Nat
    BY <2>2
  <2> QED BY <2>1, <2>2, <2>3
<1>3. /\ flat \in Seq(Byte) /\ Len(flat) = n * size
      /\ \A i \in 1 .. n : Lies(data[i], flat, (i - 1) * size)
  <2>1. Len(data) = n /\ \A i \in 1 .. Len(data) : Len(data[i]) = size
    BY <1>1
  <2> QED BY <1>1, <1>2, <2>1, FlattenSeqs
<1>4. Parsed(a) = [i \in 1 .. n |->
              [ioa |-> Unsigned(SubSeq(a, 7, 9)) + i - 1,
               data |-> SubSeq(a, 9 + i * size - size + 1, 9 + i * size)]]
  <2>1. InSequence(a, n, size)
    BY <1>1, <1>3 DEF InSequence
  <2>2. Parsed(a) = SequenceList(a, n, size)
    BY <1>2, <2>1, ParsedSequence
  <2> QED BY <2>2 DEF SequenceList
<1>5. Unsigned(SubSeq(a, 7, 9)) = events[1].ioa
  <2>1. PICK ev : ev = events[1]
    OBVIOUS
  <2>2. ev \in Events /\ InRange(t, ev) /\ Lies(Bytes(ev.ioa, 3), a, 6)
    BY <2>1
  <2>3. Unsigned(SubSeq(a, 6 + 1, 6 + 3)) = ev.ioa
    BY <2>2, AddressRead
  <2> QED BY <2>1, <2>3
<1>6. ASSUME NEW i \in 1 .. n
      PROVE  SubSeq(a, 9 + i * size - size + 1, 9 + i * size) = data[i]
  <2>1. PICK d, q, p : d = data[i] /\ q = (i - 1) * size /\ p = 9 + q
    OBVIOUS
  <2>2. q \in Nat /\ p \in Nat
    <3>1. i - 1 \in Nat
      OBVIOUS
    <3> QED BY <1>2, <2>1, <3>1
  <2>3. d \in Seq(Byte) /\ Len(d) = size /\ Lies(d, flat, q) /\ Lies(flat, a, 9)
    <3>1. d \in Seq(Byte) /\ Len(d) = size
      BY <1>1, <2>1
    <3>2. Lies(d, flat, q) /\ Lies(flat, a, 9)
      BY <1>1, <1>3, <2>1
    <3> QED BY <3>1, <3>2
  <2>4. Lies(d, a, p)
    <3>1. Lies(d, a, 9 + q)
      BY <1>3, <2>2, <2>3, LiesDeeper
    <3> QED BY <2>1, <3>1
  <2>5. SubSeq(a, p + 1, p + size) = d
    <3>1. SubSeq(a, p + 1, p + Len(d)) = d
      BY <2>2, <2>3, <2>4, LiesExactly
    <3> QED BY <2>3, <3>1
  <2>6. 9 + i * size - size = p /\ 9 + i * size = p + size
    <3>1. i * size = q + size
      <4>1. i \in Nat
        OBVIOUS
      <4> QED BY <1>2, <2>1, <4>1
    <3>2. PICK x : x = i * size
      OBVIOUS
    <3>3. 9 + x - size = 9 + q /\ 9 + x = (9 + q) + size
      BY <1>2, <2>2, <3>1, <3>2
    <3> QED BY <2>1, <3>2, <3>3
  <2> QED BY <2>1, <2>5, <2>6
<1>7. ASSUME NEW i \in 1 .. n PROVE Unsigned(SubSeq(a, 7, 9)) + i - 1 = events[i].ioa
  BY <1>1, <1>5
<1>8. Parsed(a) = [i \in 1 .. n |-> [ioa |-> events[i].ioa, data |-> data[i]]]
  BY <1>4, <1>6, <1>7
<1> QED BY <1>1, <1>8 DEF Listed

\* The frame f says these numbers and this body.
Says(f, ns, nr, t, count, cot, ca, body) ==
    /\ t \in Byte /\ count \in Byte /\ body \in Seq(Byte)
    /\ ns \in Nat /\ nr \in Nat /\ cot \in Nat /\ ca \in Nat
    /\ Fits(2 * ns, 2) /\ Fits(2 * nr, 2) /\ Fits(cot, 2) /\ Fits(ca, 2)
    /\ f = IFrame(ns, nr, Asdu(t, count, cot, ca, body))

LEMMA FrameRead ==
    ASSUME NEW f, NEW ns, NEW nr, NEW t, NEW count, NEW cot, NEW ca, NEW body,
           Says(f, ns, nr, t, count, cot, ca, body), Len(f) <= 257
    PROVE  /\ AsduSays(SubSeq(f, 7, Len(f)), t, count, cot, ca, body) /\ f[3] % 2 = 0 /\ f[7] = t
           /\ Unsigned(SubSeq(f, 3, 4)) \div 2 = ns /\ Unsigned(SubSeq(f, 5, 6)) \div 2 = nr
<1>1. PICK s : s = Asdu(t, count, cot, ca, body)
  OBVIOUS
<1>2. /\ t \in Byte /\ count \in Byte /\ body \in Seq(Byte)
      /\ ns \in Nat /\ nr \in Nat /\ cot \in Nat /\ ca \in Nat
      /\ Fits(2 * ns, 2) /\ Fits(2 * nr, 2) /\ Fits(cot, 2) /\ Fits(ca, 2)
      /\ f = IFrame(ns, nr, s)
  BY <1>1 DEF Says
<1>3. /\ AsduSays(s, t, count, cot, ca, body)
      /\ s \in Seq(Byte) /\ Len(s) = 6 + Len(body) /\ s[1] = t
  <2>1. AsduSays(s, t, count, cot, ca, body)
    BY <1>1, <1>2, AsduRead
  <2> QED BY <2>1 DEF AsduSays
<1>4. Len(body) \in Nat /\ Len(s) \in Nat /\ Len(s) >= 1
  <2>1. Len(body) \in Nat
    BY <1>2
  <2> QED BY <1>3, <2>1
<1>5. Len(s) + 4 <= 255
  <2>1. Len(f) = Len(s) + 6
    BY <1>2, <1>3, IFrameLength
  <2> QED BY <1>4, <2>1
<1>6. /\ f \in Seq(Byte) /\ f[3] % 2 = 0 /\ SubSeq(f, 7, Len(f)) = s /\ Lies(s, f, 6)
      /\ Unsigned(SubSeq(f, 3, 4)) \div 2 = ns /\ Unsigned(SubSeq(f, 5, 6)) \div 2 = nr
  <2>1. FrameSays(f, ns, nr, s)
    BY <1>2, <1>3, <1>5, IFrameRead
  <2> QED BY <2>1 DEF FrameSays
<1>7. f[7] = t
  <2>1. 1 \in 1 .. Len(s) /\ 6 + 1 = 7
    BY <1>4
  <2> QED BY <1>3, <1>6, <2>1 DEF Lies
<1> QED BY <1>3, <1>6, <1>7

-----------------------------------------------------------------------------
(* What a frame with objects means *)

\* What the frame f says of the events and of what their objects hold.
Means(f, ns, nr, t, cot, ca, events, data) ==
    /\ f[3] % 2 = 0 /\ f[7] = t
    /\ Unsigned(SubSeq(f, 3, 4)) \div 2 = ns /\ Unsigned(SubSeq(f, 5, 6)) \div 2 = nr
    /\ \E a : /\ a = SubSeq(f, 7, Len(f)) /\ ~(Len(a) < 6) /\ a[1] = t
              /\ Unsigned(SubSeq(a, 3, 4)) = cot /\ Unsigned(SubSeq(a, 5, 6)) = ca
              /\ Parsed(a) = Listed(events, data)

LEMMA ObjectsMean ==
    ASSUME NEW t \in Byte, SizeOf(t) \in {1, 2, 3, 5, 8, 9, 10, 12},
           NEW events \in Seq(Events), Len(events) < 128, NEW objs, NEW data,
           ObjectsOf(t, events, objs, data),
           NEW f, NEW ns, NEW nr, NEW cot, NEW ca,
           Says(f, ns, nr, t, Len(events), cot, ca, FlattenSeq(objs)), Len(f) <= 257
    PROVE  Means(f, ns, nr, t, cot, ca, events, data)
<1>1. PICK a, body : a = SubSeq(f, 7, Len(f)) /\ body = FlattenSeq(objs)
  OBVIOUS
<1>2. /\ f[3] % 2 = 0 /\ f[7] = t
      /\ Unsigned(SubSeq(f, 3, 4)) \div 2 = ns /\ Unsigned(SubSeq(f, 5, 6)) \div 2 = nr
      /\ a \in Seq(Byte) /\ Len(a) = 6 + Len(body) /\ a[1] = t /\ a[2] = Len(events)
      /\ Unsigned(SubSeq(a, 3, 4)) = cot /\ Unsigned(SubSeq(a, 5, 6)) = ca
      /\ Lies(body, a, 6)
  <2>1. /\ AsduSays(a, t, Len(events), cot, ca, body) /\ f[3] % 2 = 0 /\ f[7] = t
        /\ Unsigned(SubSeq(f, 3, 4)) \div 2 = ns /\ Unsigned(SubSeq(f, 5, 6)) \div 2 = nr
    BY <1>1, FrameRead
  <2> QED BY <2>1 DEF AsduSays
<1>3. ~(Len(a) < 6)
  <2>1. Len(body) \in Nat
    BY <1>1 DEF Says
  <2> QED BY <1>2, <2>1
<1>4. Parsed(a) = Listed(events, data)
  <2>1. Len(a) = 6 + Len(FlattenSeq(objs)) /\ Lies(FlattenSeq(objs), a, 6)
    BY <1>1, <1>2
  <2> QED BY <1>2, <2>1, ObjectsRead, Zenon
<1> QED BY <1>1, <1>2, <1>3, <1>4 DEF Means

LEMMA SequenceMeans ==
    ASSUME NEW t \in Byte, SizeOf(t) \in {1, 2, 3, 5, 8, 9, 10, 12},
           NEW events \in Seq(Events), Len(events) < 128, events # <<>>, InRange(t, events[1]),
           \A i \in 1 .. Len(events) : events[i].ioa = events[1].ioa + i - 1,
           NEW data \in Seq(Seq(Byte)), Len(data) = Len(events),
           \A i \in 1 .. Len(events) : Len(data[i]) = SizeOf(t),
           NEW f, NEW ns, NEW nr, NEW cot, NEW ca,
           Says(f, ns, nr, t, 128 + Len(events), cot, ca,
                Bytes(events[1].ioa, 3) \o FlattenSeq(data)),
           Len(f) <= 257
    PROVE  Means(f, ns, nr, t, cot, ca, events, data)
<1>1. PICK a, b, flat, body : /\ a = SubSeq(f, 7, Len(f)) /\ b = Bytes(events[1].ioa, 3)
                              /\ flat = FlattenSeq(data) /\ body = b \o flat
  OBVIOUS
<1>2. b \in Seq(Byte) /\ Len(b) = 3
  <2>1. PICK ioa : ioa = events[1].ioa
    OBVIOUS
  <2>2. events[1] \in Events
    OBVIOUS
  <2>3. ioa \in Int
    BY <2>1, <2>2, EventFields
  <2>4. b = Bytes(ioa, 3)
    BY <1>1, <2>1
  <2> QED BY <2>3, <2>4, BytesAre
<1>3. flat \in Seq(Byte) /\ Len(flat) \in Nat
  <2>1. PICK k : k = SizeOf(t)
    OBVIOUS
  <2>2. k \in Nat /\ \A i \in 1 .. Len(data) : Len(data[i]) = k
    BY <2>1
  <2>3. flat \in Seq(Byte)
    BY <1>1, <2>2, FlattenSeqs
  <2> QED BY <2>3
<1>4. body \in Seq(Byte) /\ Len(body) = 3 + Len(flat) /\ Lies(b, body, 0) /\ Lies(flat, body, 3)
  <2>1. /\ body \in Seq(Byte) /\ Len(body) = Len(b) + Len(flat)
        /\ Lies(b, body, 0) /\ Lies(flat, body, Len(b))
    BY <1>1, <1>2, <1>3, JoinLies
  <2> QED BY <1>2, <2>1
<1>5. Says(f, ns, nr, t, 128 + Len(events), cot, ca, body)
  BY <1>1
<1>6. /\ f[3] % 2 = 0 /\ f[7] = t
      /\ Unsigned(SubSeq(f, 3, 4)) \div 2 = ns /\ Unsigned(SubSeq(f, 5, 6)) \div 2 = nr
      /\ a \in Seq(Byte) /\ Len(a) = 6 + Len(body) /\ a[1] = t /\ a[2] = 128 + Len(events)
      /\ Unsigned(SubSeq(a, 3, 4)) = cot /\ Unsigned(SubSeq(a, 5, 6)) = ca
      /\ Lies(body, a, 6)
  <2>1. /\ AsduSays(a, t, 128 + Len(events), cot, ca, body) /\ f[3] % 2 = 0 /\ f[7] = t
        /\ Unsigned(SubSeq(f, 3, 4)) \div 2 = ns /\ Unsigned(SubSeq(f, 5, 6)) \div 2 = nr
    BY <1>1, <1>5, FrameRead
  <2> QED BY <2>1 DEF AsduSays
<1>7. ~(Len(a) < 6) /\ Len(a) = 9 + Len(flat)
  BY <1>3, <1>4, <1>6
<1>8. Lies(b, a, 6) /\ Lies(flat, a, 9)
  <2>1. Lies(b, a, 6 + 0) /\ Lies(flat, a, 6 + 3)
    BY <1>2, <1>3, <1>4, <1>6, LiesDeeper
  <2>2. 6 + 0 = 6 /\ 6 + 3 = 9
    OBVIOUS
  <2> QED BY <2>1, <2>2
<1>9. Parsed(a) = Listed(events, data)
  BY <1>1, <1>6, <1>7, <1>8, SequenceRead, Zenon
<1> QED BY <1>1, <1>6, <1>7, <1>9 DEF Means
=============================================================================
