----------------------------- MODULE MCEventBus -----------------------------
(* The subscribers EventBus is checked with: a locked one whose filter is     *)
(* empty (a tcp sender, which may lose its peer) and a udp sender that wants  *)
(* one of the two addresses and whose datagrams may fail.                     *)
EXTENDS EventBus

CONSTANTS tcp, udp

Subscribers == {tcp, udp}
Filters     == [h \in Subscribers |-> IF h = udp THEN {7} ELSE {}]
TwoFrames   == <<<<7, 8>>, <<8>>>>
=============================================================================
