------------------------------ MODULE MCMuxFlow -----------------------------
(* MuxFlow for TLC: two streams share the queues.  s1 sends more than its  *)
(* window holds; s2 interferes, and its consumer may stop reading for ever.*)
EXTENDS MuxFlow

CONSTANTS s1, s2

Chunks == [s \in Streams |-> 2]
SizesSent == [s \in Streams |-> IF s = s1 THEN {1, 2} ELSE {1}]
=============================================================================
