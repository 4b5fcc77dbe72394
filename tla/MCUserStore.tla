----------------------------- MODULE MCUserStore ----------------------------
(* UserStore for TLC.                                                      *)
EXTENDS UserStore

CONSTANTS u1, u2, r1, r2, l1, l2
=============================================================================
