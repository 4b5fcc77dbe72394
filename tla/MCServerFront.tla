--------------------------- MODULE MCServerFront ----------------------------
(***************************************************************************)
(* Three connections from two hosts of one IPv6 /64 and one IPv4 address,  *)
(* against a replay guard of one entry and an acceptance window of one     *)
(* second.                                                                 *)
(***************************************************************************)
EXTENDS QuicFront

Addr(ver, net, host, class) ==
    [ver |-> ver, net |-> net, host |-> host, class |-> class, mapped |-> FALSE]

MCConns == 1..3
MCSource == <<Addr(6, 1, 1, "global"), [Addr(6, 2, 1, "global") EXCEPT !.mapped = TRUE],
              Addr(6, 1, 2, "global")>>
Anyone == {"client", "stale", "silent", "browser", "garbage"}
MCSkew == <<1, 0, 0>>
MCPlans ==
    {[transport |-> "tcp", hop |-> "none", horizon |-> 3, faults |-> FALSE,
      peers |-> <<{"client"}, {"client"}, {"replayer"}>>],
     [transport |-> "tcp", hop |-> "direct", horizon |-> 0, faults |-> TRUE,
      peers |-> <<{"client", "telegram"}, Anyone, {}>>],
     [transport |-> "tcp", hop |-> "connector", horizon |-> 0, faults |-> FALSE,
      peers |-> <<{"client"}, {"client"}, {}>>],
     [transport |-> "quic", hop |-> "direct", horizon |-> 0, faults |-> TRUE,
      peers |-> <<{"quic"}, {"quic"}, {}>>]}
MCDestHellos == {[suite |-> "AES_128_GCM", group |-> "hybrid"],
                 [suite |-> "AES_256_GCM", group |-> "retry"]}
MCResolutions == {<<Addr(4, 1, 1, "private"), Addr(4, 2, 1, "global")>>, 
                  <<[Addr(6, 1, 1, "loopback") EXCEPT !.mapped = TRUE]>>}
=============================================================================
