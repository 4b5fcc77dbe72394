------------------------------- MODULE Egress -------------------------------
(***************************************************************************)
(* How the server reaches a target: DirectEgress (egress.rs, netguard.rs)  *)
(* resolves, screens and dials address after address; ConnectorEgress      *)
(* (quic/connector.rs) opens the target over one cached connection to the  *)
(* exit, which all opens share and which is replaced when it died.         *)
(***************************************************************************)
EXTENDS Integers, Sequences, FiniteSets

CONSTANTS Openers,      \* the sessions that open targets
          Links,        \* identities of connections to the exit
          NoLink,
          Resolutions,  \* address lists a target may resolve to
          AllowPrivate  \* allow_private_egress

ASSUME EgressAssumption == NoLink \notin Links

VARIABLES hop,     \* "direct" or "connector"; "none" where no target is asked for
          link,    \* the cached connection
          lock,    \* the open that holds the connector's mutex over a connect
          dead,    \* connections that died
          eg       \* the open of each session

egvars == <<hop, link, lock, dead, eg>>

Idle == [st |-> "idle", addrs |-> <<>>, on |-> NoLink, was |-> NoLink]

\* The connector is connected before the server starts.
EgressInit ==
    /\ link = IF hop = "connector" THEN CHOOSE l \in Links : TRUE ELSE NoLink
    /\ lock = {} /\ dead = {}
    /\ eg = [o \in Openers |-> Idle]

Eg(o, fields) == eg' = [eg EXCEPT ![o] = fields]

-----------------------------------------------------------------------------
(* Addresses: [ver, net, class, mapped], the mapped ones are IPv4 addresses *)
(* in IPv6 form.                                                            *)

canonical_ip(a) == IF a.mapped THEN [a EXCEPT !.ver = 4, !.mapped = FALSE] ELSE a

Never == {"unspecified", "multicast", "linklocal", "broadcast", "special"}
Inner(ver) == IF ver = 4 THEN {"loopback", "private", "cgnat"} ELSE {"loopback", "unique_local"}

check_ip(raw) == LET a == canonical_ip(raw)
                 IN  /\ a.class \notin Never
                     /\ AllowPrivate \/ a.class \notin Inner(a.ver)

resolve_all_checked(list) == SelectSeq(list, check_ip)

-----------------------------------------------------------------------------
(* The direct egress.                                                      *)

\* egress.open(target): where the open begins depends on the egress.
EgressOpen(o) == Eg(o, [Idle EXCEPT !.st = IF hop = "direct" THEN "resolve" ELSE "get1"])

Resolve(o) ==
    /\ eg[o].st = "resolve"
    /\ \E list \in Resolutions :
          LET addrs == resolve_all_checked(list)
          IN  Eg(o, [eg[o] EXCEPT !.addrs = addrs, !.st = IF addrs = <<>> THEN "failed" ELSE "try"])
    /\ UNCHANGED <<hop, link, lock, dead>>

\* connect() within TARGET_CONNECT_TIMEOUT, else the next address.
TryConnects(o) ==
    /\ eg[o].st = "try"
    /\ Eg(o, [Idle EXCEPT !.st = "ok"])
    /\ UNCHANGED <<hop, link, lock, dead>>

TryFails(o) ==
    /\ eg[o].st = "try"
    /\ LET rest == Tail(eg[o].addrs)
       IN  Eg(o, [eg[o] EXCEPT !.addrs = rest, !.st = IF rest = <<>> THEN "failed" ELSE "try"])
    /\ UNCHANGED <<hop, link, lock, dead>>

-----------------------------------------------------------------------------
(* The connector.                                                          *)

\* get_or_connect under the mutex: the cached connection, or dial one while
\* every other open waits.
Getting(o) == eg[o].st \in {"get1", "get2"}
Request(o, l) == [eg[o] EXCEPT !.on = l, !.st = IF @ \in {"get1", "dial1"} THEN "req1" ELSE "req2"]

GetCached(o) ==
    /\ Getting(o) /\ lock = {} /\ link # NoLink
    /\ Eg(o, Request(o, link))
    /\ UNCHANGED <<hop, link, lock, dead>>

GetDial(o) ==
    /\ Getting(o) /\ lock = {} /\ link = NoLink
    /\ lock' = {o}
    /\ Eg(o, [eg[o] EXCEPT !.st = IF @ = "get1" THEN "dial1" ELSE "dial2"])
    /\ UNCHANGED <<hop, link, dead>>

Unused == Links \ ({link} \cup UNION {{eg[o].on, eg[o].was} : o \in Openers})

\* Any name nobody knows: which one makes no difference.
LinkConnected(o) ==
    /\ o \in lock /\ Unused # {}
    /\ LET l == CHOOSE l \in Unused : TRUE
       IN  link' = l /\ dead' = dead \ {l} /\ Eg(o, Request(o, l))
    /\ lock' = {}
    /\ UNCHANGED hop

\* Refused, or B_CONNECT_TIMEOUT.
LinkFails(o) ==
    /\ o \in lock
    /\ lock' = {}
    /\ Eg(o, [Idle EXCEPT !.st = "failed"])
    /\ UNCHANGED <<hop, link, dead>>

\* open_connect: 200; another status is the exit's own answer and final.
RequestOk(o) ==
    /\ eg[o].st \in {"req1", "req2"} /\ eg[o].on \notin dead
    /\ Eg(o, [Idle EXCEPT !.st = "ok"])
    /\ UNCHANGED <<hop, link, lock, dead>>

RequestRefused(o) ==
    /\ eg[o].st \in {"req1", "req2"} /\ eg[o].on \notin dead
    /\ Eg(o, [Idle EXCEPT !.st = "failed"])
    /\ UNCHANGED <<hop, link, lock, dead>>

\* Any other error is taken for a dead connection, also on one that is well:
\* once, throw the cache away and try again.
RequestBroken(o) ==
    /\ eg[o].st \in {"req1", "req2"}
    /\ Eg(o, IF eg[o].st = "req2" THEN [Idle EXCEPT !.st = "failed"]
             ELSE [eg[o] EXCEPT !.st = "invalidate", !.was = eg[o].on, !.on = NoLink])
    /\ UNCHANGED <<hop, link, lock, dead>>

\* Mutant: a connection another open has put there meanwhile is kept, but the
\* comparison is made with the wrong one.
InvalidateKeeps(o) ==
    /\ eg[o].st = "invalidate" /\ lock = {}
    /\ link' = IF link = eg[o].was THEN link ELSE NoLink
    /\ Eg(o, [eg[o] EXCEPT !.st = "get2"])
    /\ UNCHANGED <<hop, lock, dead>>

\* invalidate: whatever is cached by now.
Invalidate(o) ==
    /\ eg[o].st = "invalidate" /\ lock = {}
    /\ link' = NoLink
    /\ Eg(o, [eg[o] EXCEPT !.st = "get2"])
    /\ UNCHANGED <<hop, lock, dead>>

(* The connection to the exit dies (idle timeout, exit restarted).         *)
LinkDies(l) ==
    /\ l \notin dead /\ l \in {link} \cup {eg[o].on : o \in Openers}
    /\ dead' = dead \cup {l}
    /\ UNCHANGED <<hop, link, lock, eg>>

\* The task that asked takes the answer; nothing cancels an open before that.
EgressTaken(o) ==
    /\ eg[o].st \in {"ok", "failed"}
    /\ Eg(o, Idle)
    /\ UNCHANGED <<hop, link, lock, dead>>

-----------------------------------------------------------------------------
EgressStep(o) ==
    \/ Resolve(o) \/ TryConnects(o) \/ TryFails(o)
    \/ GetCached(o) \/ GetDial(o) \/ LinkConnected(o) \/ LinkFails(o)
    \/ RequestOk(o) \/ RequestRefused(o) \/ RequestBroken(o) \/ Invalidate(o)

(* An open that gave up the shared connection never spends its one          *)
(* retry on that same connection, whatever the other opens put into or took *)
(* out of the cache meanwhile.                                              *)
RetryIsFresh == \A o \in Openers : eg[o].st = "req2" => eg[o].on # eg[o].was
=============================================================================
