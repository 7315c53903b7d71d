---------------------------- MODULE MCServerLife ----------------------------
(* The peers ServerLife is checked with: two connections of one host. *)
EXTENDS ServerLife

OneHost == {[ip |-> "h", port |-> p] : p \in 1 .. 2}
=============================================================================
