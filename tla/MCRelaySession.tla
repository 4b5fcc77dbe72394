--------------------------- MODULE MCRelaySession ---------------------------
(* RelaySession for TLC: two TCP relays and a datagram relay.              *)
EXTENDS RelaySession

CONSTANTS t1, t2, d1
=============================================================================
