--------------------------- MODULE MCDataStorage ---------------------------
(* The tables DataStorage is checked with. *)
EXTENDS DataStorage, TLC

Row(id, ioa, name, command, threshold) ==
    [id |-> id, ioa |-> ioa, name |-> name, command |-> command, threshold |-> threshold]

\* lines that repeat the id, the address or the name of another
MixedRows == {Row(1, 10, "a", FALSE, NoThreshold), Row(1, 20, "b", FALSE, 2),
              Row(2, 20, "b", TRUE, NoThreshold), Row(2, 10, "a", FALSE, 2)}

\* one measured value with a threshold and one without
TwoSignals == {Row(1, 10, "a", FALSE, 2), Row(2, 20, "b", FALSE, NoThreshold)}

\* a measured value and a command point
OneOfEach == {Row(1, 10, "a", FALSE, 2), Row(2, 20, "b", TRUE, NoThreshold)}

ThreeValues == 0 .. 2

\* it climbs to its maximum and starts again
OneRamp == {[step |-> 1, min |-> 0, max |-> 1]}

Symmetric == Permutations(Updaters) \union Permutations(Sessions)
=============================================================================
