--------------------------- MODULE MCMuxLifecycle ---------------------------
(* MuxLifecycle for TLC: a current peer, a phone that asks for more         *)
(* patience, a client that asks for less than the floor, a peer from before *)
(* ADR-0031 and one of another epoch.                                       *)
EXTENDS MuxLifecycle

Peer1 == [major |-> 1, version |-> 2, min |-> 1, caps |-> {"keepalive", "idle"}, tolerance |-> DefaultTolerance]
Phone == [Peer1 EXCEPT !.tolerance = MaxTolerance + 1]
Hasty == [Peer1 EXCEPT !.tolerance = 0]
OldPeer == [Peer1 EXCEPT !.version = 1, !.caps = {"keepalive"}]
NewOnly == [Peer1 EXCEPT !.version = 3, !.min = 3]
OtherMajor == [Peer1 EXCEPT !.major = 2]
Pair(c, s) == [e \in Ends |-> IF e = "client" THEN c ELSE s]
MCHellos == {Pair(Phone, Peer1), Pair(Phone, OldPeer), Pair(Hasty, Peer1), Pair(Phone, NewOnly), Pair(Phone, OtherMajor)}
MCPhone == {Pair(Phone, Peer1)}
=============================================================================
