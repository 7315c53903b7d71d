---------------------------- MODULE MCOutQueue ----------------------------
(* The instance of OutQueue for TLC: two signals a and b, of one type or, in  *)
(* the other table, of two of which one has no encoding, and a command c.     *)
EXTENDS OutQueue

CONSTANTS a, b, c

AllSignals == {a, b, c}

MeasuredTypes == [s \in AllSignals |-> IF s = c THEN "C_SC_NA_1" ELSE "M_ME_TF_1"]
TwoTypes      == [MeasuredTypes EXCEPT ![b] = "M_EP_TD_1"]
BothTables    == {MeasuredTypes, TwoTypes}
OrderAll      == <<a, c, b>>
=============================================================================
