----------------------------- MODULE TunEngine ------------------------------
(***************************************************************************)
(* The full-tunnel engine (crates/leshiy-tun/src/engine.rs), its per-OS    *)
(* backends (sys/linux.rs, sys/macos.rs, sys/windows.rs, sys/android.rs)   *)
(* and the domain resolver that edits the routing table while a session    *)
(* runs (resolver.rs).  A session is one behaviour: `session' holds what   *)
(* the caller asked for and what the host looked like, and never changes.  *)
(*                                                                         *)
(* The engine and the resolver are two tasks.  A step of either is what it *)
(* does between two suspension points, so an OS call that is awaited takes *)
(* two: the kernel acts, and later the answer is seen.  A task that is     *)
(* aborted stops at its next suspension point, not at once.                *)
(***************************************************************************)
EXTENDS SplitPlan

CONSTANTS
    Sessions,        \* the sessions to explore
    Answers,         \* the host CIDRs each domain may resolve to
    MaxDomains,      \* resolver.rs MAX_DOMAINS
    FlowCap,         \* engine.rs MAX_CONCURRENT_FLOWS
    MaxFaults,       \* OS calls that fail in one behaviour
    Fds,             \* the interfaces the Android host may establish
    NoFd

VARIABLES
    session,
    engine,          \* where the engine task is
    device,          \* is the TUN device open; on Android the fd it wraps
    carry,           \* carry_v6
    route,           \* the main routing table: who owns the route to a CIDR
    override,        \* the families whose default goes through the TUN
    hostDns, hostV6, \* the host's resolver and IPv6 switch
    policy,          \* Windows' DisableSmartNameResolution
    todo,            \* the routes a starting backend has yet to add
    guard,           \* the RAII teardown guard: what it would restore
    missed,          \* the guard's commands that failed
    owned,           \* installed_bypass, shared by guard and controller
    resolver,        \* the resolver task
    current,         \* ResolverState of each direction
    cancel,          \* the latched permit of the cancel Notify
    reattach,        \* the latched permit of the reattach Notify
    pending,         \* TUN_FD: the injected fd nobody has taken yet
    closes,          \* how often each fd was closed
    flows,           \* flow tasks alive, permits left, flows turned away
    dropped,         \* the engine future was dropped instead of ending
    unchecked,       \* what a failed command that does not end the start left undone
    faults

hostVars == <<route, override, hostDns, hostV6, policy>>
guardVars == <<guard, owned, missed>>
fdVars   == <<reattach, pending, closes>>
taskVars == <<resolver, current>>
vars == <<session, engine, device, carry, hostVars, todo, guardVars, taskVars,
          cancel, fdVars, flows, dropped, unchecked, faults>>

Desktop == {"linux", "macos", "windows"}

ASSUME TunAssumption ==
    /\ FlowCap \in Nat
    /\ NoFd \notin Fds /\ "tun" \notin Fds \cup {NoFd}
    /\ \A s \in Sessions :
         /\ s.platform \in Desktop \cup {"android"} /\ s.server \in Cidrs
         /\ s.split.base \in Modes /\ s.tun6 \in BOOLEAN /\ s.hostV6 \in {"on", "off"}
         /\ s.policy \in {"unset", "0", "1"}

On(p) == session.platform = p

\* The TunConfig of the session.  The callers on the desktop look up the
\* default gateways of the host; the mobile one leaves the IPv4 default.  A
\* backend that does not carry IPv6 is not given an IPv6 address.
Asked ==
    LET desktop == session.platform \in Desktop
        server6 == session.server \in V6
    IN  [split |-> session.split, server |-> session.server,
         tun6 |-> desktop /\ session.tun6,
         gw |-> IF desktop THEN Family(session.server) ELSE "v4",
         gw6 |-> desktop /\ ~server6 /\ DefaultGateway("v6", session.gateways)]
Plan == FromSplit(Asked)
DomainsOf(mode) == Effective(session.split)[mode].domains
HasDomains == \E m \in Modes : DomainsOf(m) # {}

NoGuard == [made |-> FALSE, dns |-> FALSE, v6 |-> "none", rules |-> {}, policy |-> "unset"]
NoTask  == [pc |-> "off", mode |-> "include", add |-> {}, del |-> {},
            op |-> "none", cidr |-> "none", ok |-> FALSE, dying |-> FALSE]

NoFlows == [alive |-> [k \in {"tcp", "udp", "icmp"} |-> 0], permits |-> FlowCap, refused |-> FALSE]

EngineInit ==
    /\ session \in Sessions
    /\ engine = IF session.platform = "android" THEN "off" ELSE "launch"
    /\ device = NoFd /\ carry = FALSE
    /\ route = [c \in Cidrs |-> IF c \in session.operator THEN "operator" ELSE "none"]
    /\ override = {} /\ hostDns = "host" /\ hostV6 = session.hostV6
    /\ policy = session.policy /\ todo = {}
    /\ guard = NoGuard /\ owned = {} /\ missed = [routes |-> {}, settings |-> {}]
    /\ resolver = NoTask /\ current = [m \in Modes |-> {}]
    /\ cancel = FALSE /\ reattach = FALSE /\ pending = NoFd
    /\ closes = [f \in Fds |-> 0]
    /\ flows = NoFlows
    /\ dropped = FALSE /\ unchecked = {} /\ faults = 0

-----------------------------------------------------------------------------
(* Starting.                                                               *)

Fails == faults < MaxFaults /\ faults' = faults + 1

\* The command line's `tun': bind the local proxy, resolve the server, find
\* the gateway of its family, dial.
Launch ==
    /\ engine = "launch"
    /\ \/ /\ DefaultGateway(Family(session.server), session.gateways)
          /\ engine' = "new" /\ UNCHANGED faults
       \/ /\ ~DefaultGateway(Family(session.server), session.gateways)
          /\ engine' = "done" /\ UNCHANGED faults
       \/ Fails /\ engine' = "done"
    /\ UNCHANGED <<session, device, carry, hostVars, todo, guardVars, taskVars, cancel,
                   fdVars, flows, dropped, unchecked>>

\* run_with_reattach up to the backend's start
Prepare ==
    /\ engine = "new"
    /\ engine' = IF Plan.ok THEN "device" ELSE "done"
    /\ UNCHANGED <<session, device, carry, hostVars, todo, guardVars, taskVars, cancel,
                   fdVars, flows, dropped, unchecked, faults>>

\* Open the device and give it its IPv6 address; without one IPv6 is not
\* carried and the kill switch takes over.
OpenWith(guarded) ==
    \/ /\ Fails /\ engine' = "done"
       /\ UNCHANGED <<device, carry, guard>>
    \/ /\ device' = "tun" /\ engine' = "routes"
       /\ guard' = [guard EXCEPT !.made = guarded]
       /\ \/ carry' = session.tun6 /\ UNCHANGED faults
          \/ session.tun6 /\ carry' = FALSE /\ Fails

\* Linux and macOS own the rollback before the first route; Windows builds
\* its guard once everything is in place.
LinuxOpen   == On("linux") /\ OpenWith(TRUE)
MacOpen     == On("macos") /\ OpenWith(TRUE)
WindowsOpen == On("windows") /\ OpenWith(FALSE)

OpenDevice ==
    /\ engine = "device"
    /\ LinuxOpen \/ MacOpen \/ WindowsOpen
    /\ UNCHANGED <<session, hostVars, todo, owned, missed, taskVars, cancel, fdVars, flows,
                   dropped, unchecked>>

Carried(cs) == {c \in cs : c \in V4 \/ carry}
CarriedOverride == {f \in Plan.override : f = "v4" \/ carry}

\* The exception as each backend adds it.
LinuxException   == Carried({Plan.exception})
MacException     == {c \in {Plan.exception} : Family(c) = Asked.gw}
WindowsException == {Plan.exception}
Exceptions == CASE On("linux") -> LinuxException [] On("macos") -> MacException
                [] On("windows") -> WindowsException

Line(kind, dests) == {[kind |-> kind, dest |-> d] : d \in dests}
RouteLines ==
    Line("exception", Exceptions) \cup Line("tun", Carried(Plan.viaTun))
      \cup Line("override", CarriedOverride) \cup Line("bypass", Carried(Plan.bypass))

\* The exception first, then what goes through the tunnel, then the bypasses.
Before == [exception |-> {}, tun |-> {"exception"}, override |-> {"exception"},
           bypass |-> {"exception", "tun", "override"}]
NextLines == {l \in todo : \A k \in todo : k.kind \notin Before[l.kind]}

\* Linux records every gateway route, and the policy rules to delete, before
\* it runs one batch; the others add their routes one by one.
LinuxRecords == Carried(Plan.bypass) \cup LinuxException
BeginRoutes ==
    /\ engine = "routes"
    /\ IF On("linux")
       THEN owned' = LinuxRecords /\ guard' = [guard EXCEPT !.rules = CarriedOverride]
       ELSE UNCHANGED <<owned, guard>>
    /\ \/ engine' = "adding" /\ todo' = RouteLines /\ UNCHANGED faults
       \/ On("linux") /\ Fails /\ engine' = "unwind" /\ UNCHANGED todo   \* no `ip'
    /\ UNCHANGED <<session, device, carry, hostVars, missed, taskVars, cancel, fdVars, flows,
                   dropped, unchecked>>

\* The kernel takes a route only if there is none to the same destination.
Taken(l) == l.kind = "override" \/ route[l.dest] = "none"

\* macOS records the exception when it was added and a bypass before it is;
\* Windows a bypass after it was tried.
MacRecords(l, added) == l.kind = "bypass" \/ (l.kind = "exception" /\ added)
WindowsRecords(l) == l.kind = "bypass"
Records(l, added) ==
    \/ On("macos") /\ MacRecords(l, added)
    \/ On("windows") /\ WindowsRecords(l)

\* One route: a failure is counted and at most warned about.
AddRoute(l) ==
    /\ engine = "adding" /\ l \in NextLines
    /\ todo' = todo \ {l}
    /\ \E added \in BOOLEAN :
         /\ \/ added = Taken(l) /\ UNCHANGED <<faults, unchecked>>
            \/ /\ ~added /\ Fails
               /\ unchecked' = IF l.kind = "override" THEN unchecked \cup {l.dest} ELSE unchecked
         /\ route' = IF added /\ l.kind # "override"
                     THEN [route EXCEPT ![l.dest] = IF l.kind = "tun" THEN "tun" ELSE "gateway"]
                     ELSE route
         /\ override' = IF added /\ l.kind = "override" THEN override \cup {l.dest} ELSE override
         /\ owned' = IF Records(l, added) THEN owned \cup {l.dest} ELSE owned
    /\ UNCHANGED <<session, engine, device, carry, hostDns, hostV6, policy, guard, missed,
                   taskVars, cancel, fdVars, flows, dropped>>

RoutesAdded ==
    /\ engine = "adding" /\ todo = {}
    /\ engine' = "dns"
    /\ UNCHANGED <<session, device, carry, hostVars, todo, guardVars, taskVars, cancel, fdVars,
                   flows, dropped, unchecked, faults>>

DnsTo(where, saved, next) ==
    /\ hostDns' = where /\ engine' = next
    /\ guard' = [guard EXCEPT !.dns = saved]
    /\ UNCHANGED policy
DnsForced == DnsTo("tunnel", TRUE, "v6") /\ UNCHANGED <<unchecked, faults>>

\* What was there is saved before it is overwritten.  Linux stops when it
\* cannot be read, or written, even in part ...
LinuxDns ==
    \/ DnsForced
    \/ Fails /\ DnsTo(hostDns, FALSE, "unwind") /\ UNCHANGED unchecked
    \/ Fails /\ DnsTo("tunnel", TRUE, "unwind") /\ UNCHANGED unchecked
\* ... macOS when the setting of one service cannot be read ...
MacDns ==
    \/ LinuxDns
    \/ Fails /\ DnsTo(hostDns, TRUE, "v6") /\ unchecked' = unchecked \cup {"dns"}
\* ... Windows never.  It sets the resolver of the TUN interface itself and
\* forces the policy; a policy that cannot be read passes for an unset one.
WindowsDns ==
    /\ \E bad \in SUBSET {"dns", "policy", "read"} :
         /\ IF bad = {} THEN UNCHANGED faults ELSE Fails
         /\ unchecked' = unchecked \cup bad
         /\ hostDns' = IF "dns" \in bad THEN hostDns ELSE "tunnel"
         /\ policy' = IF "policy" \in bad THEN policy ELSE "1"
         /\ guard' = [guard EXCEPT !.policy = IF "read" \in bad THEN "unset" ELSE policy]
    /\ engine' = "v6"

ForceDns ==
    /\ engine = "dns"
    /\ IF ~ForcesDns(session)
       THEN engine' = "v6" /\ UNCHANGED <<hostDns, policy, guard, unchecked, faults>>
       ELSE \/ On("linux") /\ LinuxDns
            \/ On("macos") /\ MacDns
            \/ On("windows") /\ WindowsDns
    /\ UNCHANGED <<session, device, carry, route, override, hostV6, todo, owned, missed,
                   taskVars, cancel, fdVars, flows, dropped>>

\* Mutant: only a session that never meant to carry IPv6 switches it off.
AppliesIfAsked == WantsKillSwitch(session)

\* IPv6 must not run beside the tunnel: asked for, or the address failed.
AppliesKillSwitch == WantsKillSwitch(session) \/ (session.tun6 /\ ~carry)

\* Linux saves the switch and stops on any error.
LinuxKillSwitch ==
    \/ /\ hostV6' = "off" /\ guard' = [guard EXCEPT !.v6 = hostV6] /\ engine' = "built"
       /\ UNCHANGED <<unchecked, faults>>
    \/ /\ Fails /\ engine' = "unwind" /\ hostV6' \in {hostV6, "off"}
       /\ guard' = [guard EXCEPT !.v6 = hostV6] /\ UNCHANGED unchecked

\* macOS remembers the services it switched off, not how they were before.
MacKillSwitch ==
    /\ engine' = "built"
    /\ \/ /\ hostV6' = "off" /\ guard' = [guard EXCEPT !.v6 = "on"]
          /\ UNCHANGED <<unchecked, faults>>
       \/ Fails /\ unchecked' = unchecked \cup {"off"} /\ UNCHANGED <<hostV6, guard>>

\* Windows unbinds IPv6 only from an adapter that had it.
V6BindingEnabled == hostV6 = "on"
WindowsKillSwitch ==
    /\ engine' = "built"
    /\ \/ /\ V6BindingEnabled /\ hostV6' = "off" /\ guard' = [guard EXCEPT !.v6 = "on"]
          /\ UNCHANGED <<unchecked, faults>>
       \/ ~V6BindingEnabled /\ UNCHANGED <<hostV6, guard, unchecked, faults>>
       \/ Fails /\ unchecked' = unchecked \cup {"off"} /\ UNCHANGED <<hostV6, guard>>

KillSwitch ==
    /\ engine = "v6"
    /\ IF ~AppliesKillSwitch
       THEN engine' = "built" /\ UNCHANGED <<hostV6, guard, unchecked, faults>>
       ELSE \/ On("linux") /\ LinuxKillSwitch
            \/ On("macos") /\ MacKillSwitch
            \/ On("windows") /\ WindowsKillSwitch
    /\ UNCHANGED <<session, device, carry, route, override, hostDns, policy, todo, owned, missed,
                   taskVars, cancel, fdVars, flows, dropped>>

\* The device goes, and with it every route that leads through it and what
\* was set on its interface; Linux' policy rules are not the device's.
CloseDevice ==
    /\ device' = NoFd
    /\ closes' = IF device \in Fds THEN [closes EXCEPT ![device] = @ + 1] ELSE closes
    /\ route' = [c \in Cidrs |-> IF route[c] = "tun" THEN "none" ELSE route[c]]
    /\ override' = IF On("linux") THEN override ELSE {}
    /\ hostDns' = IF On("windows") THEN "host" ELSE hostDns

\* The session is handed over and the resolver spawned if a rule names a
\* domain.  Windows builds its guard here, after the last call that can fail.
Handover ==
    /\ engine = "built"
    /\ \/ /\ engine' = "pump" /\ guard' = [guard EXCEPT !.made = TRUE]
          /\ resolver' = IF HasDomains THEN [NoTask EXCEPT !.pc = "next"] ELSE NoTask
          /\ UNCHANGED <<device, closes, route, override, hostDns, faults>>
       \/ /\ On("windows") /\ Fails /\ engine' = "done" /\ CloseDevice
          /\ UNCHANGED <<guard, resolver>>
    /\ UNCHANGED <<session, carry, hostV6, policy, todo, owned, missed, current, cancel,
                   reattach, pending, flows, dropped, unchecked>>

-----------------------------------------------------------------------------
(* The resolver task.                                                      *)

Capped(ds) ==
    IF Cardinality(ds) <= MaxDomains THEN ds
    ELSE CHOOSE k \in SUBSET ds : Cardinality(k) = MaxDomains

\* What a round of lookups may return; a lookup that fails contributes nothing.
ResolveDomains(ds) == SUBSET UNION {Answers[d] : d \in Capped(ds)}

OtherMode(m) == IF m = "include" THEN "exclude" ELSE "include"
Running(pc) == resolver.pc = pc /\ resolver.pc # "off"

\* run_resolver: include names, then exclude names, then sleep.
Resolve ==
    /\ Running("next")
    /\ \E resolved \in ResolveDomains(DomainsOf(resolver.mode)) :
          resolver' = [resolver EXCEPT !.pc = "apply",
                                       !.add = resolved \ current[resolver.mode],
                                       !.del = current[resolver.mode] \ resolved]
    /\ UNCHANGED <<session, engine, device, carry, hostVars, todo, guardVars, current, cancel,
                   fdVars, flows, dropped, unchecked, faults>>

\* bypass_gateway of the controllers; without one the net rides the tunnel
ControllerGateway(c) == IF c \in V4 THEN Asked.gw = "v4" ELSE carry /\ V6Gateway(Asked)
\* a net of a family the TUN does not carry is left alone
ControllerViaTun(c) == c \in V4 \/ carry
Installable(m, c) == IF m = "exclude" THEN ControllerGateway(c) ELSE ControllerViaTun(c)
Kind(m) == IF m = "exclude" THEN "gateway" ELSE "tun"

\* A route through the tunnel needs the device to be there.
Free(m, c) == route[c] = "none" /\ (m = "include" => device # NoFd)

\* add_bypass and add_via_tun up to their await: a bypass is recorded
\* before the kernel is asked.
SendAdd(c) ==
    /\ Running("apply") /\ c \in resolver.add
    /\ LET m == resolver.mode
       IN  /\ owned' = IF m = "exclude" /\ Installable(m, c) THEN owned \cup {c} ELSE owned
           /\ \/ /\ route' = IF Installable(m, c) /\ Free(m, c)
                             THEN [route EXCEPT ![c] = Kind(m)] ELSE route
                 /\ resolver' = [resolver EXCEPT !.pc = "wait", !.op = "add", !.cidr = c,
                                    !.ok = ~Installable(m, c) \/ Free(m, c)]
                 /\ UNCHANGED faults
              \/ /\ Installable(m, c) /\ Fails /\ UNCHANGED route
                 /\ resolver' = [resolver EXCEPT !.pc = "wait", !.op = "add", !.cidr = c,
                                                 !.ok = FALSE]
    /\ UNCHANGED <<session, engine, device, carry, override, hostDns, hostV6, policy, todo, guard,
                   missed, current, cancel, fdVars, flows, dropped, unchecked>>

\* remove_bypass and remove_via_tun up to their await
SendRemove(c) ==
    /\ Running("apply") /\ resolver.add = {} /\ c \in resolver.del
    /\ LET m == resolver.mode
       IN  \/ /\ route' = IF Installable(m, c) /\ route[c] = Kind(m)
                          THEN [route EXCEPT ![c] = "none"] ELSE route
              /\ resolver' = [resolver EXCEPT !.pc = "wait", !.op = "del", !.cidr = c,
                                 !.ok = ~Installable(m, c) \/ route[c] = Kind(m)]
              /\ UNCHANGED faults
           \/ /\ Installable(m, c) /\ Fails /\ UNCHANGED route
              /\ resolver' = [resolver EXCEPT !.pc = "wait", !.op = "del", !.cidr = c,
                                              !.ok = FALSE]
    /\ UNCHANGED <<session, engine, device, carry, override, hostDns, hostV6, policy, todo,
                   guardVars, current, cancel, fdVars, flows, dropped, unchecked>>

\* Mutant: the baseline becomes the resolved set whatever the answers.
AnsweredRegardless ==
    /\ Running("wait")
    /\ LET m == resolver.mode  c == resolver.cidr  add == resolver.op = "add"
       IN  /\ current' = [current EXCEPT ![m] = IF add THEN @ \cup {c} ELSE @ \ {c}]
           /\ resolver' = [resolver EXCEPT !.pc = "apply", !.cidr = "none", !.op = "none",
                                           !.ok = FALSE, !.add = @ \ {c},
                                           !.del = IF add THEN @ ELSE @ \ {c}]
    /\ UNCHANGED <<session, engine, device, carry, hostVars, todo, guardVars, cancel, fdVars,
                   flows, dropped, unchecked, faults>>

\* The answer arrives: only what succeeded enters or leaves the baseline,
\* and only then is a removed bypass no longer recorded.
Answered ==
    /\ Running("wait")
    /\ LET m == resolver.mode  c == resolver.cidr  add == resolver.op = "add"
       IN  /\ current' = IF ~resolver.ok THEN current
                         ELSE [current EXCEPT ![m] = IF add THEN @ \cup {c} ELSE @ \ {c}]
           /\ owned' = IF resolver.ok /\ ~add /\ m = "exclude" /\ Installable(m, c)
                       THEN owned \ {c} ELSE owned
           /\ resolver' = [resolver EXCEPT !.pc = "apply", !.cidr = "none", !.op = "none",
                                           !.ok = FALSE, !.add = @ \ {c},
                                           !.del = IF add THEN @ ELSE @ \ {c}]
    /\ UNCHANGED <<session, engine, device, carry, hostVars, todo, guard, missed, cancel, fdVars,
                   flows, dropped, unchecked, faults>>

\* A direction is done; after both the task sleeps for the refresh interval.
NextDirection ==
    /\ Running("apply") /\ resolver.add = {} /\ resolver.del = {}
    /\ resolver' = [resolver EXCEPT !.pc = "next", !.mode = OtherMode(@)]
    /\ UNCHANGED <<session, engine, device, carry, hostVars, todo, guardVars, current, cancel,
                   fdVars, flows, dropped, unchecked, faults>>

\* An aborted task is gone once its current poll has returned.
ResolverStops ==
    /\ resolver.dying /\ resolver.pc # "off"
    /\ resolver' = [NoTask EXCEPT !.dying = TRUE]
    /\ UNCHANGED <<session, engine, device, carry, hostVars, todo, guardVars, current, cancel,
                   fdVars, flows, dropped, unchecked, faults>>

-----------------------------------------------------------------------------
(* Flows: each holds a permit of a semaphore that outlives the device.     *)

Kinds == {"tcp", "udp", "icmp"}
AliveFlows == flows.alive["tcp"] + flows.alive["udp"] + flows.alive["icmp"]
FlowStep ==
    UNCHANGED <<session, engine, device, carry, hostVars, todo, guardVars, taskVars, cancel,
                fdVars, dropped, unchecked, faults>>

\* accept_loop: past the cap a flow is dropped
Accept(k) ==
    /\ engine = "pump" /\ session.busy
    /\ flows' = IF flows.permits = 0 THEN [flows EXCEPT !.refused = TRUE]
                ELSE [flows EXCEPT !.alive[k] = @ + 1, !.permits = @ - 1]
    /\ FlowStep

\* The task ends and its permit goes back.
Ends(k) ==
    /\ flows.alive[k] > 0
    /\ flows' = [flows EXCEPT !.alive[k] = @ - 1, !.permits = @ + 1]
    /\ FlowStep

\* relay_tcp ends with the first direction that ends, or when the stream
\* could not be opened
TcpEnds == Ends("tcp")
\* pump_udp ends after 30 s without a datagram, or with an error
UdpEnds == Ends("udp")
\* relay_icmp_echo ends with the reply, its timeout, or at once for a
\* packet that is not an echo request
EchoEnds == Ends("icmp")

-----------------------------------------------------------------------------
(* Ending.                                                                 *)

\* The caller's stop: the permit is kept until the pump looks at it.
Cancel ==
    /\ session.platform \in Desktop /\ ~cancel /\ engine \notin {"done", "launch"}
    /\ cancel' = TRUE
    /\ UNCHANGED <<session, engine, device, carry, hostVars, todo, guardVars, taskVars, fdVars,
                   flows, dropped, unchecked, faults>>

\* pump returns: the caller cancelled, or reading the device failed.
PumpStops ==
    /\ engine = "pump"
    /\ \/ cancel /\ cancel' = FALSE /\ UNCHANGED faults
       \/ ~cancel /\ Fails /\ UNCHANGED cancel
    /\ CloseDevice
    /\ engine' = "stopping"
    /\ UNCHANGED <<session, carry, hostV6, policy, todo, guardVars, taskVars, reattach, pending,
                   flows, dropped, unchecked>>

\* AbortOnDrop::shutdown: abort the resolver ...
AbortResolver ==
    /\ engine = "stopping"
    /\ resolver' = [resolver EXCEPT !.dying = TRUE]
    /\ engine' = "joining"
    /\ UNCHANGED <<session, device, carry, hostVars, todo, guardVars, current, cancel, fdVars,
                   flows, dropped, unchecked, faults>>

\* Mutant: the aborted task is not waited for.
JoinNothing ==
    /\ engine = "joining"
    /\ engine' = "bypass"
    /\ UNCHANGED <<session, device, carry, hostVars, todo, guardVars, taskVars, cancel, fdVars,
                   flows, dropped, unchecked, faults>>

\* ... and wait until it has really stopped.
JoinResolver ==
    /\ engine = "joining" /\ resolver.pc = "off"
    /\ engine' = "bypass"
    /\ UNCHANGED <<session, device, carry, hostVars, todo, guardVars, taskVars, cancel, fdVars,
                   flows, dropped, unchecked, faults>>

\* Linux has no in-process removal; its guard deletes in one batch.
RemovesInProcess(c) == ~On("linux") /\ route[c] = "gateway" /\ ControllerGateway(c)

\* teardown_bypass: what is removed is no longer recorded, what fails stays
\* for the guard.
TeardownBypass ==
    /\ engine = "bypass"
    /\ \E bad \in {{}} \cup {{c} : c \in owned} :
          LET gone == {c \in owned \ bad : RemovesInProcess(c)}
          IN  /\ IF bad = {} THEN UNCHANGED faults ELSE ~On("linux") /\ Fails
              /\ route' = [c \in Cidrs |-> IF c \in gone THEN "none" ELSE route[c]]
              /\ owned' = owned \ gone
    /\ engine' = "unwind"
    /\ UNCHANGED <<session, device, carry, override, hostDns, hostV6, policy, todo, guard, missed,
                   taskVars, cancel, fdVars, flows, dropped, unchecked>>

\* The routes a guard's delete command matches: `ip route del' and `route
\* delete' name the destination only, netsh also the gateway.
IpRouteDel(c)  == route[c] # "none"
MacRouteDel(c) == route[c] # "none"
WinRouteDel(c) == route[c] = "gateway" /\ c \in V4
GuardDeletes(c) ==
    \/ On("linux") /\ IpRouteDel(c)
    \/ On("macos") /\ MacRouteDel(c)
    \/ On("windows") /\ WinRouteDel(c)

\* The settings a guard restores.  The policy it always writes, or deletes
\* when nothing was saved, also for a session that never forced it.
GuardSettings ==
    {x \in {"rules", "dns", "v6", "policy"} :
        \/ x = "rules" /\ guard.rules # {}
        \/ x = "dns" /\ guard.dns
        \/ x = "v6" /\ guard.v6 # "none"
        \/ x = "policy" /\ On("windows")}

\* The guard is dropped (the device first, if it is still open).  Every
\* error is ignored: what a command was to undo then stays.
DropGuard ==
    /\ engine = "unwind"
    /\ \E stay \in SUBSET owned, bad \in SUBSET GuardSettings :
         LET undone == GuardSettings \ bad
         IN  /\ IF stay \cup bad = {} THEN UNCHANGED faults ELSE Fails
             /\ missed' = [routes |-> stay, settings |-> bad]
             /\ route' = [c \in Cidrs |-> IF route[c] = "tun" THEN "none"
                                          ELSE IF c \in owned \ stay /\ GuardDeletes(c) THEN "none"
                                          ELSE route[c]]
             /\ override' = IF ~On("linux") \/ "rules" \in undone THEN {} ELSE override
             /\ hostDns' = IF On("windows") \/ "dns" \in undone THEN "host" ELSE hostDns
             /\ hostV6' = IF "v6" \in undone THEN guard.v6 ELSE hostV6
             /\ policy' = IF "policy" \in undone THEN guard.policy ELSE policy
    /\ device' = NoFd
    /\ engine' = "done"
    /\ UNCHANGED <<session, carry, todo, guard, owned, taskVars, cancel, fdVars, flows, dropped,
                   unchecked>>

\* The engine's future is dropped while it is suspended: the resolver is
\* told to abort but not waited for.  Linux does not suspend while starting.
Suspended ==
    \/ engine \in {"pump", "joining", "bypass"}
    \/ engine \in {"routes", "adding", "dns"} /\ session.platform \in {"macos", "windows"}
    \/ engine = "device" /\ On("windows")
DropFuture ==
    /\ Suspended /\ session.platform \in Desktop
    /\ dropped' = TRUE
    /\ CloseDevice
    /\ resolver' = [resolver EXCEPT !.dying = TRUE]
    /\ engine' = IF guard.made THEN "unwind" ELSE "done"
    /\ UNCHANGED <<session, carry, hostV6, policy, todo, guardVars, current, cancel, reattach,
                   pending, flows, unchecked, faults>>

-----------------------------------------------------------------------------
EngineStep ==
    \/ Launch \/ Prepare \/ OpenDevice \/ BeginRoutes \/ RoutesAdded \/ ForceDns \/ KillSwitch
    \/ (\E l \in todo : AddRoute(l)) \/ Handover
    \/ PumpStops \/ AbortResolver \/ JoinResolver \/ TeardownBypass \/ DropGuard
ResolverStep ==
    \/ Resolve \/ Answered \/ NextDirection \/ ResolverStops
    \/ \E c \in Cidrs : SendAdd(c) \/ SendRemove(c)
FlowNext == (\E k \in Kinds : Accept(k)) \/ TcpEnds \/ UdpEnds \/ EchoEnds
EngineNext == EngineStep \/ ResolverStep \/ FlowNext \/ Cancel \/ DropFuture

-----------------------------------------------------------------------------
(* Properties.                                                             *)

\* The host is as it was before the session, but for what a failed command
\* of the guard was to undo and for what the guards get wrong: Windows never
\* deletes the route to the server and cannot delete an IPv6 bypass that the
\* in-process removal missed; Linux and macOS delete the operator's own route
\* to a net that the session was to bypass; macOS turns IPv6 on for a service
\* whose IPv6 was off; Windows deletes the operator's name-resolution policy
\* after a session that never forced it, or could not read it.
RouteAsBefore(c) ==
    /\ route[c] = "gateway" =>
          c \in missed.routes \/ (On("windows") /\ (c = session.server \/ c \in V6))
    /\ route[c] # "tun"
    /\ c \in session.operator =>
          route[c] = "operator" \/ (c \in owned /\ (On("linux") \/ On("macos")))
AsBefore ==
    /\ \A c \in Cidrs : RouteAsBefore(c)
    /\ override # {} => "rules" \in missed.settings
    /\ hostDns # "host" => "dns" \in missed.settings
    /\ hostV6 # session.hostV6 =>
          "v6" \in missed.settings \/ (On("macos") /\ session.hostV6 = "off")
    /\ policy # session.policy =>
          /\ On("windows")
          /\ \/ "policy" \in missed.settings
             \/ policy = "unset" /\ (~ForcesDns(session) \/ "read" \in unchecked)

\* Once a session whose guard was built has ended -- stopped, failed while
\* starting, dropped between two of its route additions, or dropped later
\* while no resolver was running -- routes, default override, resolver
\* setting, name-resolution policy and IPv6 switch are as AsBefore says,
\* whatever the resolver task was doing when the session ended
\* (engine.rs run_with_reattach, the teardown guards).
Restored ==
    engine = "done" /\ guard.made /\ (dropped => ~HasDomains) => AsBefore

\* While a full tunnel is up, the IPv4 default and the resolver go through
\* it, and IPv6 either goes through it or is off; only the part whose own
\* command failed and was passed over may be open (the backends' start:
\* "fail closed").
FailClosed ==
    engine = "pump" /\ session.platform \in Desktop /\ session.split.base = "exclude" =>
        /\ "v4" \in override \cup unchecked
        /\ hostDns = "tunnel" \/ "dns" \in unchecked
        /\ On("windows") => policy = "1" \/ "policy" \in unchecked
        /\ hostV6 = "off" \/ "v6" \in override \/ unchecked \cap {"v6", "off"} # {}

\* What the resolver takes for installed is in the routing table: each
\* direction's baseline holds only routes of that direction that are really
\* there, so a refresh never skips a route that is missing
\* (resolver.rs apply_resolution).
BaselineTrue ==
    engine = "pump" =>
        \A m \in Modes : \A c \in current[m] :
            Installable(m, c) /\ ~(resolver.op = "del" /\ resolver.mode = m /\ resolver.cidr = c)
                => route[c] = Kind(m)

\* A session never runs more flow tasks than the cap, also when the device
\* is exchanged under it (engine.rs pump, MAX_CONCURRENT_FLOWS).
FlowsCapped == AliveFlows <= FlowCap
=============================================================================
