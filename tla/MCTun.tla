------------------------------- MODULE MCTun --------------------------------
(***************************************************************************)
(* One session on each platform.  The desktop sessions combine a static    *)
(* bypass, a name that is excluded and included at once, both families and *)
(* hosts that already had a route or had IPv6 off; the Android session     *)
(* exchanges its interface while flows are alive.                          *)
(***************************************************************************)
EXTENDS MobileBridge

Entry(kind, of, tag) == [kind |-> kind, of |-> of, tag |-> tag, wide |-> FALSE]
Text(d) == {Entry("name", d, "domain"), Entry("net", "net4", "none")}

Both == Merge(FromManual(ParseLines("exclude", Text("site"))), "include",
              ParseDomainList("include", Text("site")).rules)
Only == Merge(FromManual(ParseLines("include", {Entry("net", "net4", "none")})), "exclude",
              ParseHosts("exclude", {Entry("name", "site", "none"), Entry("name", "none", "sink")}).rules)
Plain == FromManual(ParseLines("exclude", {}))

Session(p, split, tun6, v6, op) ==
    [platform |-> p, split |-> split, server |-> "server", gateways |-> {"v4", "v6"},
     tun6 |-> tun6, hostV6 |-> v6, operator |-> op, policy |-> "0", busy |-> p = "android"]

MCSessions ==
    {Session(p, s, t, "on", {}) : p \in Desktop, s \in {Both, Only, Plain}, t \in BOOLEAN}
    \cup {Session(p, Both, TRUE, "off", {"net4", "server"}) : p \in Desktop}
    \cup {[Session("macos", Both, FALSE, "on", {}) EXCEPT !.server = "host6"],
          [Session("linux", Plain, FALSE, "on", {}) EXCEPT !.gateways = {"v6"}],
          [Session("android", Plain, TRUE, "on", {}) EXCEPT !.server = "host6"],
          Session("android", Both, TRUE, "on", {})}
MCAnswers == [d \in Domains |-> {"host4", "host6"}]
=============================================================================
