------------------------------- MODULE Codec -------------------------------
(***************************************************************************)
(* protocol.py: the objects of an I-frame in bytes, and back.  A type      *)
(* identifier is its number.                                               *)
(*                                                                         *)
(* A value is given as its number of halves (3 is 1.5), so that int(),     *)
(* which cuts the fraction off, is visible.  The bit pattern of a float is *)
(* abstract: four bytes that hold the number of halves, as an integer.     *)
(***************************************************************************)
EXTENDS Integers, Sequences, SequencesExt

Start == 104    \* 0x68

SinglePoint == {1, 30, 45}
DoublePoint == {3, 31, 46}
StepPosition == {5, 32}
BitString   == {7, 33}
Measured16  == {9, 11, 34, 35}
Float       == {13, 36}
Counter     == {15, 37}
Command     == 45                      \* C_SC_NA_1
Setpoint    == 50                      \* C_SE_NC_1
Query       == 100                     \* C_IC_NA_1
Timed       == 30 .. 37                \* _TS_TYPES
OneByte     == SinglePoint \union DoublePoint \union {Query}
Encodable   == OneByte \union StepPosition \union BitString \union Measured16
                       \union Float \union Counter

ASDU_DATA_SIZE ==
    [t \in Encodable \union {Setpoint} |->
        (CASE t \in OneByte -> 1
           [] t \in StepPosition -> 2
           [] t \in Measured16 -> 3
           [] OTHER -> 5)
        + (IF t \in Timed THEN 7 ELSE 0)]

SizeOf(t) == IF t \in DOMAIN ASDU_DATA_SIZE THEN ASDU_DATA_SIZE[t] ELSE 1

\* the length of a batch in client_send
FaultMaxObj(t) == IF 249 \div (3 + SizeOf(t)) < 127 THEN 249 \div (3 + SizeOf(t)) ELSE 127
MaxObj(t)      == IF 243 \div (3 + SizeOf(t)) < 127 THEN 243 \div (3 + SizeOf(t)) ELSE 127

-----------------------------------------------------------------------------
(* Numbers in bytes, the lowest first *)

Shift == <<1, 256, 256 * 256, 256 * 256 * 256>>

FaultBytes(n, width) == [i \in 1 .. width |-> n \div Shift[i]]
Bytes(n, width)      == [i \in 1 .. width |-> (n \div Shift[i]) % 256]

Unsigned(b) ==
    LET upto[i \in 0 .. Len(b)] == IF i = 0 THEN 0 ELSE upto[i - 1] + b[i] * Shift[i]
    IN  upto[Len(b)]

Signed(b) ==
    LET top == Last(b)
    IN  Unsigned(Front(b)) + (IF top < 128 THEN top ELSE top - 256) * Shift[Len(b)]

\* what the bytes can hold, in a form that TLC can evaluate for four of them
Fits(n, width)       == n \div Shift[width] \in 0 .. 255
FitsSigned(n, width) == n \div Shift[width] \in -128 .. 127

Trunc(v)  == IF v >= 0 THEN v \div 2 ELSE -((-v) \div 2)
Halves(n) == 2 * n

\* q & ~(n - 1), in a byte
HighBits(q, n) == (q % 256) - (q % n)

-----------------------------------------------------------------------------
(* datetime_to_cp56, datetime_from_cp56 (for the times the former makes) *)

FaultToCp56(ts, iv) ==
    LET ms == ts.second * 1000 + ts.us
    IN  <<ms % 256, (ms \div 256) % 256, ts.minute + (IF iv THEN 128 ELSE 0), ts.hour,
          ts.day + 32 * ts.weekday, ts.month, (ts.year - 2000) % 128>>
ToCp56(ts, iv) ==
    LET ms == ts.second * 1000 + ts.us \div 1000
    IN  <<ms % 256, ms \div 256, ts.minute + (IF iv THEN 128 ELSE 0), ts.hour,
          ts.day + 32 * ts.weekday, ts.month, (ts.year - 2000) % 128>>

FromCp56(b) ==
    LET ms == 256 * b[2] + b[1]
    IN  [iv |-> b[3] >= 128,
         ts |-> [year |-> 2000 + (b[7] % 128), month |-> b[6] % 16, day |-> b[5] % 32,
                 hour |-> b[4] % 32, minute |-> b[3] % 64,
                 second |-> ms \div 1000, us |-> 1000 * (ms % 1000)]]

-----------------------------------------------------------------------------
(* Encoding *)

\* an IecEvent
Times ==
    [year : Int, month : 1 .. 12, day : 1 .. 31, weekday : 1 .. 7, hour : 0 .. 23,
     minute : 0 .. 59, second : 0 .. 59, us : {n \in Nat : n < 1000 * 1000}]
Events == [ioa : Int, val : Int, q : Nat, ts : Times, iv : BOOLEAN]

\* what to_bytes, struct.pack and bytes() take without raising
InRange(t, ev) ==
    LET n == Trunc(ev.val)
    IN  /\ Fits(ev.ioa, 3)
        /\ t \in StepPosition => FitsSigned(n, 1)
        /\ t \in Measured16 => FitsSigned(n, 2)
        /\ t \in BitString => Fits(n, 4)
        /\ t \in Counter => FitsSigned(n, 4)
        /\ t \in Float \union {Setpoint} => FitsSigned(ev.val, 4)
        /\ t \notin OneByte => ev.q \in 0 .. 255

EncVal(t, ev) ==
    LET n == Trunc(ev.val)
    IN  CASE t \in SinglePoint  -> <<(n % 2) + HighBits(ev.q, 2)>>
          [] t \in DoublePoint  -> <<(n % 4) + HighBits(ev.q, 4)>>
          [] t = Query          -> <<n % 256>>
          [] t \in StepPosition -> Bytes(n, 1) \o <<ev.q>>
          [] t \in Measured16   -> Bytes(n, 2) \o <<ev.q>>
          [] t \in Float        -> Bytes(ev.val, 4) \o <<ev.q>>
          [] OTHER              -> Bytes(n, 4) \o <<ev.q>>

EncObj(t, ev) ==
    Bytes(ev.ioa, 3) \o EncVal(t, ev) \o (IF t \in Timed THEN ToCp56(ev.ts, ev.iv) ELSE <<>>)

Asdu(t, count, cot, ca, body) == <<t, count>> \o Bytes(cot, 2) \o Bytes(ca, 2) \o body

IFrame(ns, nr, asdu) ==
    <<Start, Len(asdu) + 4>> \o Bytes(2 * ns, 2) \o Bytes(2 * nr, 2) \o asdu

\* build_i_frame: for a batch b of events of one type.  It returns None for a type
\* that is not encodable, and raises when a number does not fit its bytes.
AsduOf(b) ==
    Asdu(b.asdu, Len(b.events), b.cot, b.ca,
         FlattenSeq([i \in 1 .. Len(b.events) |-> EncObj(b.asdu, b.events[i])]))

ValuesInRange(b) == \A i \in 1 .. Len(b.events) : InRange(b.asdu, b.events[i])
BuildRaises(b)   == ~ValuesInRange(b) \/ Len(AsduOf(b)) + 4 > 255
BuildIFrame(b)   == IFrame(b.ns, b.nr, AsduOf(b))

-----------------------------------------------------------------------------
(* Decoding *)

None == "none"

DecVal(t, d) ==
    CASE t \in SinglePoint  -> [val |-> Halves(d[1] % 2), q |-> HighBits(d[1], 16)]
      [] t \in DoublePoint  -> [val |-> Halves(d[1] % 4), q |-> HighBits(d[1], 16)]
      [] t = Query          -> [val |-> Halves(d[1]), q |-> 0]
      [] t \in StepPosition -> [val |-> Halves(d[1] % 128), q |-> d[2]]
      [] t \in Measured16   -> [val |-> Halves(Signed(SubSeq(d, 1, 2))), q |-> d[3]]
      [] t \in BitString    -> [val |-> Halves(Unsigned(SubSeq(d, 1, 4))), q |-> d[5]]
      [] t \in Float        -> [val |-> Signed(SubSeq(d, 1, 4)), q |-> d[5]]
      [] t \in Counter      -> [val |-> Halves(Signed(SubSeq(d, 1, 4))), q |-> d[5]]
      [] OTHER              -> [val |-> None, q |-> 0]

\* Address and data of every object, each with its address or, with the bit SQ, all
\* with the addresses that follow the first.  An object that is cut off ends the list.
Parsed(asdu) ==
    LET size  == SizeOf(asdu[1])
        isSeq == asdu[2] >= 128
        from  == IF isSeq THEN 9 ELSE 6
        step  == IF isSeq THEN size ELSE size + 3
        whole == (Len(asdu) - from) \div step
        count == IF asdu[2] % 128 < whole THEN asdu[2] % 128 ELSE whole
        Ioa(i) == IF isSeq THEN Unsigned(SubSeq(asdu, 7, 9)) + i - 1
                  ELSE Unsigned(SubSeq(asdu, from + (i - 1) * step + 1, from + (i - 1) * step + 3))
    IN  [i \in 1 .. count |->
            [ioa |-> Ioa(i), data |-> SubSeq(asdu, from + i * step - size + 1, from + i * step)]]

\* a decoded object carries a time only if its type has one
DecodeObject(t, o) ==
    LET v == DecVal(t, o.data)
        time == FromCp56(SubSeq(o.data, SizeOf(t) - 6, SizeOf(t)))
    IN  IF t \in Timed
        THEN [ioa |-> o.ioa, val |-> v.val, q |-> v.q, iv |-> time.iv, ts |-> time.ts]
        ELSE [ioa |-> o.ioa, val |-> v.val, q |-> v.q, iv |-> FALSE]

DecodeIFrameObjects(frame) ==
    LET asdu == SubSeq(frame, 7, Len(frame))
        objs == Parsed(asdu)
    IN  IF Len(asdu) < 6 \/ asdu[1] \notin DOMAIN ASDU_DATA_SIZE THEN <<>>
        ELSE [i \in 1 .. Len(objs) |->
                 [obj |-> DecodeObject(asdu[1], objs[i]), asdu |-> asdu[1],
                  cot |-> Unsigned(SubSeq(asdu, 3, 4)), coa |-> Unsigned(SubSeq(asdu, 5, 6))]]

-----------------------------------------------------------------------------
(* Properties *)

\* What of an event arrives: a value that its type can hold, without its fraction
\* unless the type is a float; the quality, of which one-byte types have four bits;
\* the time to the millisecond, in the years that CP56Time2a has.
Holds(t, v) ==
    LET n == Trunc(v)
    IN  CASE t \in SinglePoint -> n \in 0 .. 1  [] t \in DoublePoint -> n \in 0 .. 3
          [] t \in StepPosition -> n >= 0       [] t = Query -> n \in 0 .. 255
          [] OTHER -> TRUE

Shown(t, v)      == IF t \in Float \union {Setpoint} THEN v ELSE Halves(Trunc(v))
HoldsQ(t, q)     == t \in OneByte => t # Query /\ q \in {16 * i : i \in 0 .. 15}
InMilliseconds(ts) ==
    [year |-> ts.year, month |-> ts.month, day |-> ts.day, hour |-> ts.hour,
     minute |-> ts.minute, second |-> ts.second, us |-> 1000 * (ts.us \div 1000)]

Arrives(t, ev, o) ==
    /\ o.ioa = ev.ioa
    /\ Holds(t, ev.val) => o.val = Shown(t, ev.val)
    /\ HoldsQ(t, ev.q) => o.q = ev.q
    /\ t \in Timed => o.iv = ev.iv
    /\ t \in Timed /\ ev.ts.year \in 2000 .. 2127 => o.ts = InMilliseconds(ev.ts)
=============================================================================
