------------------------------- MODULE MCWire -------------------------------
(* The messages Wire is checked with: for every type the values at the ends  *)
(* of its range, full batches, numbers out of range, and start bytes (104)   *)
(* in places where they are none.                                            *)
EXTENDS Wire

Early == [year |-> 2000, month |-> 1, day |-> 1, weekday |-> 6, hour |-> 0,
          minute |-> 0, second |-> 0, us |-> 999]
Late  == [year |-> 2127, month |-> 12, day |-> 31, weekday |-> 3, hour |-> 23,
          minute |-> 59, second |-> 59, us |-> 999999]

Ev(ioa, val, q, ts) == [ioa |-> ioa, val |-> val, q |-> q, ts |-> ts, iv |-> ts = Late]

\* in halves: the ends of the range, one half inside of zero, and a start byte
ValuesOf(t) ==
    CASE t \in SinglePoint  -> <<0, 3>>
      [] t \in DoublePoint  -> <<0, 7>>
      [] t \in StepPosition -> <<-7, 255, 208>>
      [] t \in BitString    -> <<0, 1073741823>>
      [] t \in Measured16   -> <<-65536, -1, 65535>>
      [] t = Query          -> <<40>>
      [] OTHER              -> <<-1073741823, -1, 1073741823>>

QualityOf(t) == IF t \in OneByte THEN 240 ELSE 129

Batch(t, ns, events) ==
    [kind |-> "I", asdu |-> t, cot |-> 3, ca |-> 1, ns |-> ns, nr |-> 52, events |-> events]

Boundaries(t) ==
    LET v == ValuesOf(t)
    IN  Batch(t, 32767, [i \in 1 .. Len(v) |->
                 Ev(IF i = 1 THEN 2^24 - 1 ELSE 104, v[i],
                    IF i = 1 THEN QualityOf(t) ELSE 0, IF i = 1 THEN Late ELSE Early)])

Full(t) == Batch(t, 1, [i \in 1 .. MaxObj(t) |-> Ev(i, 2, 0, Early)])

OutOfRange == {Batch(9, 1, <<Ev(1, 80000, 0, Early)>>), Batch(5, 1, <<Ev(1, 400, 0, Early)>>),
               Batch(36, 1, <<Ev(1, 0, 256, Early)>>), Batch(33, 1, <<Ev(1, -2, 0, Early)>>)}

Sequenced == [Batch(9, 2, <<Ev(104, 208, 0, Early), Ev(105, -2, 16, Early)>>) EXCEPT !.kind = "SQ"]

Stray == {[kind |-> "stray", bytes |-> [i \in 1 .. n |-> 6]] : n \in {2, 7}}

Control == {[kind |-> "S", nr |-> 52], [kind |-> "U", u |-> 67]}

Alone(messages) == {<<m>> : m \in messages}

\* every type alone, and short frames with each other and with stray bytes
RtuScripts ==
    Alone({Boundaries(t) : t \in Encodable} \union {Full(t) : t \in Encodable \ {Query}})
    \union {<<m, n>> : m \in OutOfRange, n \in Control}
    \union {<<Boundaries(9), m, n>> : m \in {Sequenced} \union Stray \union Control, n \in Control}
    \union {<<m, n, Boundaries(13)>> : m \in Stray \union Control, n \in Stray \union Control}

Commanded == {Batch(45, 3, <<Ev(104, 2, 0, Early), Ev(2, 0, 0, Early)>>),
              Batch(Setpoint, 4, <<Ev(7, -3, 0, Early), Ev(8, 208, 0, Early)>>),
              [Batch(45, 3, <<Ev(104, 0, 0, Early), Ev(105, 2, 0, Early)>>) EXCEPT !.kind = "SQ"],
              Batch(Query, 5, <<Ev(0, 40, 0, Early)>>)}

\* and as many small frames as would fill the buffer if they were left in it
ScadaScripts ==
    {<<m, n, o>> : m \in Stray \union Control, n \in Commanded, o \in Commanded}
    \union {[i \in 1 .. 14 |-> m] : m \in Control}
=============================================================================
