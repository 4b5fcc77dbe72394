--------------------------- MODULE MCDialedTunnel ---------------------------
(* DialedTunnel for TLC: opens do not touch each other, so one stands for   *)
(* all; it may hold on to the tunnel before the current one (what is proved *)
(* holds for any number of them).  The dials are one of each route and the  *)
(* race without a pin.                                                      *)
EXTENDS DialedTunnel

CONSTANTS t1, t2, o1

MCDials == {[uri |-> "malformed", pref |-> "auto"], [uri |-> "plain", pref |-> "auto"],
            [uri |-> "pinned", pref |-> "quic"], [uri |-> "pinned", pref |-> "auto"],
            [uri |-> "unpinned", pref |-> "auto"]}
=============================================================================
