----------------------------- MODULE SplitPlan ------------------------------
(***************************************************************************)
(* The split-tunnel rules (crates/leshiy-client/src/split_tunnel.rs) and   *)
(* the route plan the TUN engine derives from them                         *)
(* (crates/leshiy-tun/src/route_plan.rs).  A CIDR is a model value that    *)
(* belongs to one address family; a domain is a model value that resolves  *)
(* to host CIDRs while the engine runs.                                    *)
(***************************************************************************)
EXTENDS Naturals, FiniteSets

CONSTANTS
    V4, V6,          \* the CIDRs of each address family
    Domains          \* the names a rule may use

ASSUME FamiliesAssumption == V4 \cap V6 = {}

Cidrs == V4 \cup V6
Family(c) == IF c \in V4 THEN "v4" ELSE "v6"
Modes == {"include", "exclude"}

-----------------------------------------------------------------------------
(* Rule texts.  A line is a record: `kind' is what its first word looks    *)
(* like ("net", "name", "junk"), `of' the rule it denotes, `tag' the       *)
(* directive in front of it in a domain list.                              *)

NoRules == [cidrs |-> {}, domains |-> {}]

\* SplitCidr::from_str: a bare address is a host net, a prefix longer than
\* the family allows is refused
SplitCidrOf(l) == IF l.kind = "net" /\ ~l.wide THEN {l.of} ELSE {}
LooksLikeDomain(l) == l.kind = "name"

NamesOf(ls) == {l.of : l \in {k \in ls : LooksLikeDomain(k)}}

\* One rule per line; a line that is neither a name nor a net is an error
\* for the whole text.
ParseLines(mode, ls) ==
    LET nets == {l \in ls : ~LooksLikeDomain(l)}
    IN  [ok |-> \A l \in nets : SplitCidrOf(l) # {},
         mode |-> mode,
         rules |-> [cidrs |-> UNION {SplitCidrOf(l) : l \in nets},
                    domains |-> NamesOf(ls)]]

\* A geosite list: only bare names and domain:/full: directives count, the
\* rest is skipped without an error.
ParseDomainList(mode, ls) ==
    [ok |-> TRUE, mode |-> mode,
     rules |-> [cidrs |-> {},
                domains |-> NamesOf({l \in ls : l.tag \in {"none", "domain", "full"}})]]

\* A hosts file: the first column is the sink address and is thrown away.
ParseHosts(mode, ls) ==
    [ok |-> TRUE, mode |-> mode,
     rules |-> [cidrs |-> {}, domains |-> NamesOf({l \in ls : l.tag # "sink"})]]

-----------------------------------------------------------------------------
(* Two-directional plans.                                                  *)

RulesEmpty(r) == r = NoRules
RulesExtend(r, s) == [cidrs |-> r.cidrs \cup s.cidrs, domains |-> r.domains \cup s.domains]

FromManual(m) ==
    [base |-> m.mode,
     include |-> IF m.mode = "include" THEN m.rules ELSE NoRules,
     exclude |-> IF m.mode = "exclude" THEN m.rules ELSE NoRules]

Merge(split, mode, rules) == [split EXCEPT ![mode] = RulesExtend(@, rules)]

\* Rules that cannot change where a packet goes are dropped: without a rule
\* in the direction of the base policy the other direction is redundant.
Effective(split) ==
    IF RulesEmpty(split[split.base])
    THEN [split EXCEPT !.include = NoRules, !.exclude = NoRules]
    ELSE split

-----------------------------------------------------------------------------
(* The plan of a session s: [split, server (a host CIDR), gw (the family   *)
(* of the original default gateway it uses), gw6 (is an IPv6 default       *)
(* gateway known), tun6 (has the TUN an IPv6 address)].                    *)

\* discover::default_gateway: the gateway of one family, if there is one
DefaultGateway(fam, gateways) == fam \in gateways

\* The IPv6 next hop of a bypass
V6Gateway(s) == s.gw = "v6" \/ s.gw6

BypassGateway(s, c) == IF c \in V4 THEN s.gw = "v4" ELSE V6Gateway(s)

\* RoutePlan::from_split; refused when server and gateway differ in family.
FromSplit(s) ==
    LET eff == Effective(s.split)
        full == s.split.base = "exclude"
    IN  [ok |-> Family(s.server) = s.gw,
         override |-> IF ~full THEN {} ELSE IF s.tun6 THEN {"v4", "v6"} ELSE {"v4"},
         viaTun |-> eff.include.cidrs,
         exception |-> s.server,
         bypass |-> {c \in eff.exclude.cidrs : BypassGateway(s, c)}]

\* TunConfig::force_dns and TunConfig::ipv6_killswitch
ForcesDns(s) == s.split.base = "exclude"
WantsKillSwitch(s) == ~s.tun6 /\ s.split.base = "exclude"
=============================================================================
