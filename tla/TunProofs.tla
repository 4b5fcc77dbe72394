----------------------------- MODULE TunProofs ------------------------------
(***************************************************************************)
(* The full-tunnel engine and the Android bridge, for every set of         *)
(* sessions, addresses, domains and descriptors, any flow cap and any      *)
(* number of failing OS calls.  The invariant is proved in parts, one per  *)
(* resource: flow permits, descriptors, what starting has done to the      *)
(* host, what teardown must undo, and the resolver's baseline.             *)
(***************************************************************************)
EXTENDS MobileBridge, TLAPS

-----------------------------------------------------------------------------
(* The session never changes.                                              *)

SessionKnown == session \in Sessions

\* What a session was started with never changes.
LEMMA SessionFixed == [BridgeNext]_allVars => session' = session
<1> USE DEF Host
<1>1. ASSUME EngineStep PROVE session' = session
  BY <1>1 DEF EngineStep, Launch, Prepare, OpenDevice, BeginRoutes, AddRoute, RoutesAdded, ForceDns, KillSwitch,
        Handover, PumpStops, AbortResolver, JoinResolver, TeardownBypass, DropGuard
<1>2. ASSUME ResolverStep PROVE session' = session
  BY <1>2 DEF ResolverStep, Resolve, Answered, NextDirection, ResolverStops, SendAdd, SendRemove
<1>3. ASSUME FlowNext \/ Cancel \/ DropFuture PROVE session' = session
  BY <1>3 DEF FlowNext, Accept, TcpEnds, UdpEnds, EchoEnds, Ends, FlowStep, Cancel, DropFuture
<1>4. ASSUME NEW f \in Fds, Start(f) \/ Refresh(f) \/ RulesChanged(f) \/ HostCloses(f)
      PROVE  session' = session
  BY <1>4 DEF Start, Refresh, RulesChanged, Reattach, HostCloses
<1>5. ASSUME NetworkChanged \/ Stop \/ Dialed \/ Retry \/ AndroidStart
             \/ ReattachSeen \/ Retake \/ EngineOver
      PROVE  session' = session
  BY <1>5 DEF NetworkChanged, Stop, Dialed, Retry, AndroidStart, ReattachSeen,
              Retake, EngineOver, vars
<1>6. CASE UNCHANGED allVars
  BY <1>6 DEF allVars, vars
<1> QED BY <1>1, <1>2, <1>3, <1>4, <1>5, <1>6 DEF BridgeNext, EngineNext

-----------------------------------------------------------------------------
(* Flow permits.                                                           *)

\* A flow task alive is a permit taken.
PermitsTaken ==
    /\ flows \in [alive : [Kinds -> Nat], permits : Nat, refused : BOOLEAN]
    /\ AliveFlows + flows.permits = FlowCap

\* An engine without flows has all its permits.
LEMMA NoFlowsPermits == flows' = NoFlows => PermitsTaken'
BY TunAssumption DEF NoFlows, PermitsTaken, AliveFlows, Kinds

\* Only accept_loop, the end of a flow and the start and stop of a runtime
\* touch the semaphore.
LEMMA FlowsUntouched ==
    ASSUME EngineStep \/ ResolverStep \/ Cancel \/ DropFuture \/ NetworkChanged
           \/ Dialed \/ Retry \/ AndroidStart \/ ReattachSeen \/ Retake \/ EngineOver
           \/ (\E f \in Fds : Refresh(f) \/ RulesChanged(f) \/ HostCloses(f)) \/ UNCHANGED allVars
    PROVE  flows' = flows
<1>1. ASSUME EngineStep PROVE flows' = flows
  BY <1>1 DEF EngineStep, Launch, Prepare, OpenDevice, BeginRoutes, AddRoute, RoutesAdded, ForceDns, KillSwitch,
        Handover, PumpStops, AbortResolver, JoinResolver, TeardownBypass, DropGuard
<1>2. ASSUME ResolverStep PROVE flows' = flows
  BY <1>2 DEF ResolverStep, Resolve, Answered, NextDirection, ResolverStops, SendAdd, SendRemove
<1>3. ASSUME Cancel \/ DropFuture \/ (\E f \in Fds : Refresh(f) \/ RulesChanged(f) \/ HostCloses(f))
      PROVE  flows' = flows
  BY <1>3 DEF Cancel, DropFuture, Refresh, RulesChanged, Reattach, HostCloses
<1>4. ASSUME NetworkChanged \/ Dialed \/ Retry \/ AndroidStart
             \/ ReattachSeen \/ Retake \/ EngineOver
      PROVE  flows' = flows
  BY <1>4 DEF NetworkChanged, Dialed, Retry, AndroidStart, ReattachSeen,
              Retake, EngineOver, vars
<1>5. CASE UNCHANGED allVars
  BY <1>5 DEF allVars, vars
<1> QED BY <1>1, <1>2, <1>3, <1>4, <1>5

\* Every step gives a permit to each flow and takes it back at its end.
LEMMA PermitsStep == PermitsTaken /\ [BridgeNext]_allVars => PermitsTaken'
<1> SUFFICES ASSUME PermitsTaken, [BridgeNext]_allVars PROVE PermitsTaken'
  OBVIOUS
<1>t. /\ flows.alive \in [Kinds -> Nat] /\ flows.permits \in Nat
      /\ flows \in [alive : [Kinds -> Nat], permits : Nat, refused : BOOLEAN]
      /\ flows.alive["tcp"] + flows.alive["udp"] + flows.alive["icmp"] + flows.permits = FlowCap
  BY DEF PermitsTaken, AliveFlows
<1>1. ASSUME NEW k \in Kinds, Accept(k) PROVE PermitsTaken'
  <2>1. CASE flows.permits = 0
    <3>1. flows' = [flows EXCEPT !.refused = TRUE]
      BY <1>1, <2>1 DEF Accept
    <3> QED BY <3>1, <1>t DEF PermitsTaken, AliveFlows
  <2>2. CASE flows.permits # 0
    <3>1. flows' = [flows EXCEPT !.alive[k] = @ + 1, !.permits = @ - 1]
      BY <1>1, <2>2 DEF Accept
    <3>2. flows' = [alive |-> [flows.alive EXCEPT ![k] = flows.alive[k] + 1],
                    permits |-> flows.permits - 1, refused |-> flows.refused]
      BY <3>1, <1>t
    <3>3. flows' \in [alive : [Kinds -> Nat], permits : Nat, refused : BOOLEAN]
      BY <3>2, <2>2, <1>t
    <3> QED BY <3>2, <3>3, <1>t DEF PermitsTaken, AliveFlows, Kinds
  <2> QED BY <2>1, <2>2
<1>2. ASSUME NEW k \in Kinds, Ends(k) PROVE PermitsTaken'
  <2>1. flows.alive[k] > 0 /\ flows' = [flows EXCEPT !.alive[k] = @ - 1, !.permits = @ + 1]
    BY <1>2 DEF Ends
  <2>2. flows' = [alive |-> [flows.alive EXCEPT ![k] = flows.alive[k] - 1],
                  permits |-> flows.permits + 1, refused |-> flows.refused]
    BY <2>1, <1>t
  <2>0. flows.alive[k] - 1 \in Nat /\ flows.permits + 1 \in Nat /\ flows.refused \in BOOLEAN
    BY <2>1, <1>t
  <2>3. flows' \in [alive : [Kinds -> Nat], permits : Nat, refused : BOOLEAN]
    BY <2>0, <2>2, <1>t
  <2> QED BY <2>2, <2>3, <1>t DEF PermitsTaken, AliveFlows, Kinds
<1>3. CASE Stop
  BY <1>3, NoFlowsPermits DEF Stop
<1>4. ASSUME flows' = flows PROVE PermitsTaken'
  BY <1>4 DEF PermitsTaken, AliveFlows
<1>5. ASSUME NEW f \in Fds, Start(f) PROVE PermitsTaken'
  BY <1>4, <1>5, NoFlowsPermits DEF Start
<1>6. CASE FlowNext
  BY <1>1, <1>2, <1>6 DEF FlowNext, TcpEnds, UdpEnds, EchoEnds, Kinds
<1> QED BY <1>3, <1>4, <1>5, <1>6, FlowsUntouched DEF BridgeNext, EngineNext

\* The flow tasks of a session never exceed MAX_CONCURRENT_FLOWS, through any
\* number of device exchanges.
THEOREM FlowsStayCapped == BridgeSpec => []FlowsCapped
<1>1. BridgeInit => PermitsTaken
  BY TunAssumption DEF BridgeInit, EngineInit, NoFlows, PermitsTaken, AliveFlows, Kinds
<1>2. PermitsTaken => FlowsCapped
  <2> SUFFICES ASSUME PermitsTaken PROVE FlowsCapped
    OBVIOUS
  <2>1. flows.alive \in [Kinds -> Nat] /\ flows.permits \in Nat
    BY DEF PermitsTaken
  <2> QED BY <2>1, TunAssumption DEF PermitsTaken, FlowsCapped, AliveFlows, Kinds
<1> QED BY <1>1, <1>2, PermitsStep, PTL DEF BridgeSpec

-----------------------------------------------------------------------------
(* Interface descriptors.                                                  *)

\* Who may hold a descriptor: the slot, or the device while the pump runs.
\* A session that has not been started, or was stopped, holds none, and what
\* was refused is never held.
FdInv ==
    /\ given \subseteq Fds /\ closes \in [Fds -> Nat] /\ \A f \in Fds \ given : closes[f] = 0
    /\ device \in Fds \cup {NoFd, "tun"}
    /\ pending \in given \cup {NoFd} /\ refused \subseteq given /\ rejected \subseteq refused
    /\ device \notin refused /\ pending \notin refused
    /\ ~running => pending = NoFd /\ device \notin Fds
    /\ device \in Fds => device \in given /\ device # pending /\ engine = "pump"
    /\ given # {} => Android
    /\ Android /\ engine # "off" => running
    /\ FdsHeld

\* How often a descriptor has been closed.
LEMMA ClosesOf ==
    ASSUME FdInv, NEW f \in given
    PROVE  /\ f \in Fds /\ f # NoFd /\ f # "tun" /\ closes[f] \in Nat
           /\ f \in {device, pending} => closes[f] = 0 /\ running /\ f \notin refused
           /\ f \notin {device, pending} => closes[f] = IF f \in refused \ rejected THEN 2 ELSE 1
BY TunAssumption DEF FdInv, FdsHeld

\* The platform is part of the session.
LEMMA AndroidFixed == session' = session => Android' = Android
BY DEF Android

\* A step that hands no descriptor on.
LEMMA FdSame ==
    ASSUME FdInv, session' = session,
           UNCHANGED <<closes, pending, given, refused, rejected, running>>,
           device' = device \/ (device \notin Fds /\ device' \in {NoFd, "tun"}),
           device \in Fds => engine' = engine,
           engine' # "off" => engine # "off"
    PROVE  FdInv'
<1>1. Android' = Android /\ NoFd \notin Fds /\ "tun" \notin Fds
  BY AndroidFixed, TunAssumption
<1>2. device' \in Fds => device' = device
  BY <1>1
<1>3. FdsHeld'
  <2> SUFFICES ASSUME NEW f \in given
               PROVE  closes[f] = IF running /\ f \in {device', pending} THEN 0
                                  ELSE IF f \in refused \ rejected THEN 2 ELSE 1
    BY DEF FdsHeld
  <2>1. f = device' <=> f = device
    BY <1>1, ClosesOf
  <2> QED BY <2>1, ClosesOf
<1>4. device' \notin refused
  BY <1>1, <1>2 DEF FdInv
<1> QED BY <1>1, <1>2, <1>3, <1>4 DEF FdInv

\* A descriptor becomes the session's: the one it replaces is closed.
LEMMA SetTunFdInv ==
    ASSUME FdInv, session' = session, NEW f \in Fds \ given, given' = given \cup {f},
           SetTunFd(f), UNCHANGED <<device, refused, rejected>>, running', Android,
           device \in Fds => engine' = engine
    PROVE  FdInv'
<1>1. Android' = Android /\ NoFd \notin Fds /\ "tun" \notin Fds
  BY AndroidFixed, TunAssumption
<1>2. pending' = f /\ closes' = [g \in Fds |-> IF g \in {pending} \cap Fds THEN closes[g] + 1 ELSE closes[g]]
  BY DEF SetTunFd, Closed
<1>3. closes' \in [Fds -> Nat] /\ f # device /\ f # pending /\ f \notin refused
  BY <1>1, <1>2 DEF FdInv
<1>4. FdsHeld'
  <2> SUFFICES ASSUME NEW g \in given'
               PROVE  closes'[g] = IF g \in {device, f} THEN 0
                                   ELSE IF g \in refused \ rejected THEN 2 ELSE 1
    BY <1>2 DEF FdsHeld
  <2>1. CASE g = f
    BY <1>1, <1>2, <1>3, <2>1 DEF FdInv
  <2>2. CASE g \in given /\ g = pending
    <3>1. closes'[g] = closes[g] + 1 /\ g # device /\ g # f
      BY <1>2, <2>2, ClosesOf DEF FdInv
    <3> QED BY <2>2, <3>1, ClosesOf
  <2>3. CASE g \in given /\ g # pending
    <3>1. closes'[g] = closes[g] /\ g # f
      BY <1>2, <2>3, ClosesOf
    <3> QED BY <2>3, <3>1, ClosesOf
  <2> QED BY <2>1, <2>2, <2>3
<1>5. ASSUME NEW g \in Fds \ given' PROVE closes'[g] = 0
  <2>1. g # pending /\ closes[g] = 0
    BY <1>1 DEF FdInv
  <2> QED BY <1>2, <2>1
<1>6. /\ given' \subseteq Fds /\ refused \subseteq given' /\ f \in given' \cup {NoFd}
      /\ device \in Fds => device \in given' /\ device # f /\ engine' = "pump"
  BY <1>3 DEF FdInv
<1> QED BY <1>1, <1>2, <1>3, <1>4, <1>5, <1>6 DEF FdInv

\* A refused descriptor is closed and the host told so.
LEMMA RefusedInv ==
    ASSUME FdInv, session' = session, NEW f \in Fds \ given, given' = given \cup {f},
           Refused(f), UNCHANGED <<device, running, engine>>, Android
    PROVE  FdInv'
<1>1. Android' = Android /\ NoFd \notin Fds /\ "tun" \notin Fds
  BY AndroidFixed, TunAssumption
<1>2. /\ pending' = pending /\ refused' = refused \cup {f} /\ rejected' = rejected \cup {f}
      /\ closes' = [g \in Fds |-> IF g \in {f} THEN closes[g] + 1 ELSE closes[g]]
  BY DEF Refused, Closed
<1>3. closes' \in [Fds -> Nat] /\ f # device /\ f # pending /\ closes'[f] = 1
  BY <1>1, <1>2 DEF FdInv
<1>4. FdsHeld'
  <2> SUFFICES ASSUME NEW g \in given'
               PROVE  closes'[g] = IF running /\ g \in {device, pending} THEN 0
                                   ELSE IF g \in refused' \ rejected' THEN 2 ELSE 1
    BY <1>2 DEF FdsHeld
  <2>1. CASE g = f
    BY <1>2, <1>3, <2>1
  <2>2. CASE g \in given
    <3>1. closes'[g] = closes[g] /\ (g \in refused' \ rejected' <=> g \in refused \ rejected)
      BY <1>2, <2>2, ClosesOf
    <3> QED BY <2>2, <3>1, ClosesOf
  <2> QED BY <2>1, <2>2
<1>5. \A g \in Fds \ given' : closes'[g] = 0
  BY <1>2 DEF FdInv
<1> QED BY <1>1, <1>2, <1>3, <1>4, <1>5 DEF FdInv

\* The device is closed and its descriptor with it.
LEMMA ClosedDeviceInv ==
    ASSUME FdInv, session' = session, device' = NoFd, engine' # "off" => engine # "off",
           closes' = IF device \in Fds THEN [closes EXCEPT ![device] = @ + 1] ELSE closes,
           UNCHANGED <<pending, given, refused, rejected, running>>
    PROVE  FdInv'
<1>1. Android' = Android /\ NoFd \notin Fds /\ "tun" \notin Fds
  BY AndroidFixed, TunAssumption
<1>2. CASE device \notin Fds
  <2>1. closes' = closes
    BY <1>2
  <2> QED BY <1>2, <2>1, FdSame
<1>3. CASE device \in Fds
  <2>0. device \in given /\ device # pending /\ NoFd \notin refused
    BY <1>1, <1>3 DEF FdInv
  <2>1. closes' \in [Fds -> Nat] /\ closes'[device] = closes[device] + 1
        /\ \A g \in Fds \ {device} : closes'[g] = closes[g]
    BY <1>3 DEF FdInv
  <2>2. FdsHeld'
    <3> SUFFICES ASSUME NEW g \in given
                 PROVE  closes'[g] = IF running /\ g \in {NoFd, pending} THEN 0
                                     ELSE IF g \in refused \ rejected THEN 2 ELSE 1
      BY DEF FdsHeld
    <3>1. CASE g = device
      BY <2>0, <2>1, <3>1, ClosesOf
    <3>2. CASE g # device
      BY <2>1, <3>2, ClosesOf
    <3> QED BY <3>1, <3>2
  <2> QED BY <1>1, <2>0, <2>1, <2>2 DEF FdInv
<1> QED BY <1>2, <1>3

\* Every step keeps each descriptor with someone who will close it.
LEMMA FdStep == FdInv /\ [BridgeNext]_allVars => FdInv'
<1> SUFFICES ASSUME FdInv, [BridgeNext]_allVars PROVE FdInv'
  OBVIOUS
<1>s. session' = session /\ Android' = Android /\ NoFd \notin Fds /\ "tun" \notin Fds
  BY SessionFixed, AndroidFixed, TunAssumption
<1>p. device \in Fds => engine = "pump"
  BY DEF FdInv
<1>1. ASSUME UNCHANGED bridgeVars, Launch \/ Prepare \/ OpenDevice \/ BeginRoutes \/ RoutesAdded
             \/ (\E l \in todo : AddRoute(l)) \/ ForceDns \/ KillSwitch \/ Handover \/ AbortResolver \/ JoinResolver \/ TeardownBypass \/ DropGuard
      PROVE  FdInv'
  <2>1. UNCHANGED <<given, refused, rejected, running>>
    BY <1>1 DEF bridgeVars
  <2>a. device \notin Fds \/ engine = "pump"
    BY <1>p
  <2>b. engine # "off" /\ engine # "pump" /\ UNCHANGED pending
    BY <1>1 DEF Launch, Prepare, OpenDevice, BeginRoutes, AddRoute, RoutesAdded, ForceDns,
         KillSwitch, Handover, AbortResolver, JoinResolver, TeardownBypass, DropGuard, fdVars
  <2>c. closes' = closes \/ (Handover /\ CloseDevice)
    BY <1>1 DEF Launch, Prepare, OpenDevice, BeginRoutes, AddRoute, RoutesAdded, ForceDns,
         KillSwitch, Handover, AbortResolver, JoinResolver, TeardownBypass, DropGuard, fdVars
  <2>2. UNCHANGED <<closes, pending>>
    BY <2>a, <2>b, <2>c DEF CloseDevice
  <2>3. device' = device \/ device' \in {NoFd, "tun"}
    BY <1>1 DEF Launch, Prepare, OpenDevice, LinuxOpen, MacOpen, WindowsOpen, OpenWith,
         BeginRoutes, AddRoute, RoutesAdded, ForceDns, KillSwitch, Handover, CloseDevice,
         AbortResolver, JoinResolver, TeardownBypass, DropGuard
  <2> QED BY <1>s, <1>p, <2>1, <2>2, <2>3, <2>b, FdSame
<1>2. ASSUME UNCHANGED bridgeVars, PumpStops \/ DropFuture PROVE FdInv'
  <2>1. CloseDevice /\ UNCHANGED <<pending, given, refused, rejected, running>>
    BY <1>2 DEF PumpStops, DropFuture, bridgeVars
  <2>2. engine # "off"
    BY <1>2 DEF PumpStops, DropFuture, Suspended
  <2> QED BY <1>s, <2>1, <2>2, ClosedDeviceInv DEF CloseDevice
<1>3. ASSUME UNCHANGED bridgeVars, ResolverStep \/ FlowNext \/ Cancel PROVE FdInv'
  <2>1. UNCHANGED <<device, engine, fdVars>>
    BY <1>3 DEF ResolverStep, Resolve, Answered, NextDirection, ResolverStops, SendAdd, SendRemove,
         FlowNext, Accept, TcpEnds, UdpEnds, EchoEnds, Ends, FlowStep, Cancel
  <2> QED BY <1>3, <1>s, <2>1, FdSame DEF bridgeVars, fdVars
<1>4. ASSUME NEW f \in Fds, Start(f) PROVE FdInv'
  <2>1. /\ Android /\ f \in Fds \ given /\ given' = given \cup {f} /\ device' = device
    BY <1>4 DEF Start, Establish
  <2>2. CASE ~running /\ SetTunFd(f) /\ running' /\ UNCHANGED <<refused, rejected>>
    <3>1. device \notin Fds
      BY <2>2 DEF FdInv
    <3> QED BY <1>s, <2>1, <2>2, <3>1, SetTunFdInv
  <2>3. CASE Refused(f) /\ UNCHANGED <<running, engine>>
    BY <1>s, <2>1, <2>3, RefusedInv
  <2> QED BY <1>4, <2>2, <2>3 DEF Start
<1>5. ASSUME NEW f \in Fds, Refresh(f) \/ RulesChanged(f) PROVE FdInv'
  <2>1. /\ Android /\ f \in Fds \ given /\ given' = given \cup {f}
        /\ UNCHANGED <<device, engine, running>> /\ Reattach(f)
    BY <1>5 DEF Refresh, RulesChanged, Reattach, Establish
  <2>2. CASE running
    BY <1>s, <2>1, <2>2, SetTunFdInv DEF Reattach
  <2>3. CASE ~running
    BY <1>s, <2>1, <2>3, RefusedInv DEF Reattach
  <2> QED BY <2>2, <2>3
<1>6. CASE Stop
  <2>1. /\ running' = FALSE /\ engine' = "off" /\ device' = NoFd /\ pending' = NoFd
        /\ UNCHANGED <<given, refused, rejected>> /\ Android
        /\ closes' = [g \in Fds |-> IF g \in {device, pending} \cap Fds THEN closes[g] + 1 ELSE closes[g]]
    BY <1>6 DEF Stop, Closed
  <2>2. closes' \in [Fds -> Nat]
    BY <2>1 DEF FdInv
  <2>3. ASSUME NEW g \in given PROVE closes'[g] = IF g \in refused \ rejected THEN 2 ELSE 1
    BY <2>1, ClosesOf
  <2>4. \A g \in Fds \ given : closes'[g] = 0
    BY <2>1, <1>s DEF FdInv
  <2>5. NoFd \notin refused
    BY <1>s DEF FdInv
  <2> QED BY <1>s, <2>1, <2>2, <2>3, <2>4, <2>5 DEF FdInv, FdsHeld
<1>7. ASSUME NEW f \in Fds, HostCloses(f) PROVE FdInv'
  <2>1. /\ f \in rejected /\ rejected' = rejected \ {f}
        /\ closes' = [g \in Fds |-> IF g \in {f} THEN closes[g] + 1 ELSE closes[g]]
        /\ UNCHANGED <<engine, device, pending, running, given, refused>>
    BY <1>7 DEF HostCloses, Closed
  <2>2. /\ closes' \in [Fds -> Nat] /\ f \in given /\ f \in refused /\ f \notin {device, pending}
        /\ \A g \in Fds : g # f => closes'[g] = closes[g]
    BY <2>1 DEF FdInv
  <2>3. closes'[f] = 2
    BY <2>1, <2>2, ClosesOf
  <2>4. ASSUME NEW g \in given
        PROVE  closes'[g] = IF running /\ g \in {device, pending} THEN 0
                            ELSE IF g \in refused \ rejected' THEN 2 ELSE 1
    <3>1. CASE g = f
      BY <2>1, <2>2, <2>3, <3>1
    <3>2. CASE g # f
      BY <2>1, <2>2, <3>2, ClosesOf
    <3> QED BY <3>1, <3>2
  <2>5. FdsHeld'
    BY <2>1, <2>4 DEF FdsHeld
  <2> QED BY <1>s, <2>1, <2>2, <2>5 DEF FdInv
<1>8. ASSUME (AndroidStart \/ Retake), UNCHANGED bridgeVars PROVE FdInv'
  <2>1. /\ UNCHANGED <<closes, given, refused, rejected, running>> /\ engine # "off" /\ engine # "pump" /\ engine' # "off"
        /\ \/ pending = NoFd /\ UNCHANGED <<device, pending>>
           \/ pending # NoFd /\ engine' = "pump" /\ device' = pending /\ pending' = NoFd
    BY <1>8 DEF AndroidStart, Retake, TakeFd, bridgeVars
  <2>2. CASE pending = NoFd /\ UNCHANGED <<device, pending>>
    BY <1>s, <1>p, <2>1, <2>2, FdSame
  <2>3. CASE pending # NoFd /\ engine' = "pump" /\ device' = pending /\ pending' = NoFd
    <3>1. /\ pending \in given /\ pending \in Fds /\ device \notin Fds /\ pending \notin refused
          /\ NoFd \notin refused /\ running
      BY <1>s, <1>p, <2>1, <2>3 DEF FdInv
    <3>2. FdsHeld'
      <4> SUFFICES ASSUME NEW g \in given
                   PROVE  closes[g] = IF running /\ g \in {pending, NoFd} THEN 0
                                      ELSE IF g \in refused \ rejected THEN 2 ELSE 1
        BY <2>1, <2>3 DEF FdsHeld
      <4> QED BY <3>1, ClosesOf
    <3> QED BY <1>s, <2>1, <2>3, <3>1, <3>2 DEF FdInv
  <2> QED BY <2>1, <2>2, <2>3
<1>9. CASE ReattachSeen
  <2>1. /\ engine = "pump" /\ engine' = "retake" /\ device' = NoFd
        /\ closes' = [g \in Fds |-> IF g \in {device} THEN closes[g] + 1 ELSE closes[g]]
        /\ UNCHANGED <<pending, given, refused, rejected, running>>
    BY <1>9 DEF ReattachSeen, Closed, bridgeVars
  <2>2. closes' = IF device \in Fds THEN [closes EXCEPT ![device] = @ + 1] ELSE closes
    BY <2>1 DEF FdInv
  <2> QED BY <1>s, <2>1, <2>2, ClosedDeviceInv
<1>10. CASE NetworkChanged \/ Dialed \/ Retry \/ EngineOver
  <2>1. UNCHANGED <<closes, pending, given, refused, rejected, running, device>>
    BY <1>10 DEF NetworkChanged, Dialed, Retry, EngineOver, vars, fdVars
  <2>2. (engine' # "off" => engine # "off") /\ (engine = "pump" => engine' = engine)
    BY <1>10 DEF NetworkChanged, Dialed, Retry, EngineOver, vars
  <2> QED BY <1>s, <1>p, <2>1, <2>2, FdSame
<1>11. CASE UNCHANGED allVars
  BY <1>11, FdSame DEF allVars, vars, bridgeVars, fdVars
<1>12. ASSUME EngineNext, UNCHANGED bridgeVars PROVE FdInv'
  BY <1>1, <1>2, <1>3, <1>12 DEF EngineNext, EngineStep
<1>13. AndroidStart \/ Retake => UNCHANGED bridgeVars
  BY DEF AndroidStart, Retake
<1> QED BY <1>4, <1>5, <1>6, <1>7, <1>8, <1>9, <1>10, <1>11, <1>12, <1>13 DEF BridgeNext

\* Every interface of a VpnService is open exactly while the running session
\* holds it and closed once by native code, whatever order start, stop,
\* reattach_tun and the engine's own steps come in; the host closes again
\* those, and only those, of calls that were refused.
THEOREM EveryFdHeld == BridgeSpec => []FdsHeld
<1>1. BridgeInit => FdInv
  BY TunAssumption DEF BridgeInit, EngineInit, FdInv, FdsHeld, Android
<1>2. FdInv => FdsHeld
  BY DEF FdInv
<1> QED BY <1>1, <1>2, FdStep, PTL DEF BridgeSpec

-----------------------------------------------------------------------------
(* The host: what starting does to it and what teardown must undo.         *)

OnDesktop == session.platform \in Desktop
FullTunnel == session.split.base = "exclude"

GuardType == [made : BOOLEAN, dns : BOOLEAN, v6 : {"none", "on", "off"},
              rules : SUBSET {"v4", "v6"}, policy : {"unset", "0", "1"}]

HostType ==
    /\ SessionKnown /\ carry \in BOOLEAN /\ dropped \in BOOLEAN
    /\ policy \in {"unset", "0", "1"}
    /\ route \in [Cidrs -> {"none", "operator", "gateway", "tun"}]
    /\ hostDns \in {"host", "tunnel"} /\ hostV6 \in {"on", "off"}
    /\ guard \in GuardType
    /\ engine \in {"off", "dial", "backoff", "retake"} => Android
    /\ engine \in {"routes", "adding", "dns", "v6", "built"} => OnDesktop

\* What has not been touched at each stage of a start; Android's start
\* touches nothing, and Windows has no guard before the hand-over.
ToRoutes == {"launch", "new", "device"}
Stages ==
    /\ Android \/ engine \in ToRoutes => ~guard.made
    /\ Android \/ engine \in ToRoutes \cup {"routes"} =>
         override = {} /\ guard.rules = {} /\ owned = {} /\ \A c \in Cidrs : route[c] # "gateway"
    /\ Android \/ engine \in ToRoutes \cup {"routes", "adding", "dns"} =>
         hostDns = "host" /\ ~guard.dns /\ policy = session.policy /\ guard.policy = "unset"
    /\ Android \/ engine \in ToRoutes \cup {"routes", "adding", "dns", "v6"} =>
         hostV6 = session.hostV6 /\ guard.v6 = "none"
    /\ On("windows") /\ engine \in ToRoutes \cup {"routes", "adding", "dns", "v6", "built"} =>
         ~guard.made
    /\ Android \/ engine \in ToRoutes \cup {"routes", "adding", "dns", "v6", "built"} =>
         resolver.pc = "off" /\ \A m \in Modes : current[m] = {}

\* While routes are added, one by one, what is still to come is part of the
\* plan and no family of the default override has been forgotten.
Adding ==
    engine = "adding" =>
      /\ todo \subseteq RouteLines
      /\ On("linux") => guard.rules = CarriedOverride /\ LinuxRecords \subseteq owned
      /\ \A f \in CarriedOverride :
            f \in override \/ f \in unchecked \/ [kind |-> "override", dest |-> f] \in todo

\* The policy the Windows guard will write: the operator's, or none where it
\* was not saved.
SavedPolicy ==
    \/ guard.policy = session.policy
    \/ guard.policy = "unset" /\ (~ForcesDns(session) \/ "read" \in unchecked)

\* Every change to the host is one the guard, or the engine before it, will
\* undo: a bypass is recorded before it is installed and forgotten only once
\* it is gone, and no route of the operator's is touched before the guard.
Undoable ==
    /\ \A c \in Cidrs : route[c] = "gateway" => c \in owned \/ (On("windows") /\ c = session.server)
    /\ engine # "done" \/ Android => \A c \in Cidrs : c \in session.operator => route[c] = "operator"
    /\ On("linux") => override \subseteq guard.rules
    /\ hostDns # "host" => guard.dns \/ On("windows")
    /\ hostV6 # session.hostV6 => guard.v6 # "none"
    /\ guard.v6 # "none" => guard.v6 = session.hostV6 \/ (On("macos") /\ guard.v6 = "on")
    /\ ~On("windows") => policy = session.policy
    /\ On("windows") /\ engine \in {"v6", "built", "pump", "stopping", "joining", "bypass", "unwind"}
         => SavedPolicy

\* What the tunnel must carry is carried, shut off or known to have failed,
\* stage by stage.
Shut ==
    OnDesktop /\ FullTunnel =>
      /\ engine \in {"dns", "v6", "built", "pump"} =>
           \A f \in CarriedOverride : f \in override \/ f \in unchecked
      /\ engine \in {"v6", "built", "pump"} =>
           /\ hostDns = "tunnel" \/ "dns" \in unchecked
           /\ On("windows") => policy = "1" \/ "policy" \in unchecked
      /\ engine \in {"built", "pump"} /\ (~session.tun6 \/ ~carry) =>
           hostV6 = "off" \/ "off" \in unchecked

\* The resolver task: it lives from the hand-over to the join, or until it
\* notices that a dropped engine aborted it.
TaskInv ==
    /\ resolver = [pc |-> resolver.pc, mode |-> resolver.mode, add |-> resolver.add,
                   del |-> resolver.del, op |-> resolver.op, cidr |-> resolver.cidr,
                   ok |-> resolver.ok, dying |-> resolver.dying]
    /\ resolver.pc \in {"off", "next", "apply", "wait"} /\ resolver.mode \in Modes
    /\ resolver.ok \in BOOLEAN /\ resolver.dying \in BOOLEAN
    /\ current \in [Modes -> SUBSET Cidrs]
    /\ IF resolver.pc = "wait" THEN resolver.cidr \in Cidrs /\ resolver.op \in {"add", "del"}
       ELSE resolver.op = "none"
    /\ resolver.pc # "off" => HasDomains /\ (dropped \/ engine \in {"pump", "stopping", "joining"})
    /\ resolver.dying /\ engine = "pump" => Android
    \* a removal that succeeded took the route with it
    /\ resolver.pc = "wait" /\ resolver.op = "del" /\ resolver.ok /\ resolver.mode = "exclude"
         /\ Installable("exclude", resolver.cidr) => route[resolver.cidr] # "gateway"

\* The routes behind a baseline, with the answer that is on its way.
Baseline ==
    engine = "pump" =>
      /\ BaselineTrue
      /\ resolver.pc = "wait" /\ resolver.op = "add" /\ resolver.ok
           /\ Installable(resolver.mode, resolver.cidr) => route[resolver.cidr] = Kind(resolver.mode)
      /\ resolver.pc = "wait" /\ resolver.op = "del" /\ ~resolver.ok
           /\ resolver.cidr \in current[resolver.mode]
           /\ Installable(resolver.mode, resolver.cidr) => route[resolver.cidr] = Kind(resolver.mode)

HostInv ==
    HostType /\ Stages /\ Adding /\ Undoable /\ Shut /\ TaskInv /\ Baseline /\ Restored

\* The rules are part of the session.
LEMMA HasDomainsFixed == session' = session => HasDomains' = HasDomains
BY DEF HasDomains, DomainsOf

\* Which bypasses can be installed depends on the session and the platform.
LEMMA InstallableFixed ==
    ASSUME session' = session, carry' = carry, NEW m, NEW c
    PROVE  Installable(m, c)' = Installable(m, c)
BY DEF Installable, ControllerGateway, ControllerViaTun, Asked

\* The facts about a session that the code takes for granted.
LEMMA SessionFacts ==
    ASSUME SessionKnown
    PROVE  /\ session.platform \in {"linux", "macos", "windows", "android"}
           /\ session.tun6 \in BOOLEAN /\ session.hostV6 \in {"on", "off"} /\ session.server \in Cidrs
           /\ session.policy \in {"unset", "0", "1"}
           /\ OnDesktop <=> ~Android
BY TunAssumption DEF SessionKnown, OnDesktop, Android, Desktop

\* The lines of a plan depend on the session and on what is carried.
LEMMA LinesFixed ==
    ASSUME session' = session, carry' = carry
    PROVE  RouteLines' = RouteLines /\ CarriedOverride' = CarriedOverride /\ LinuxRecords' = LinuxRecords
BY DEF RouteLines, Line, Exceptions, LinuxException, MacException, WindowsException, LinuxRecords,
       CarriedOverride, Carried, Plan, Asked, On

\* All that the session fixes.
LEMMA Frame ==
    ASSUME SessionKnown, session' = session
    PROVE  /\ Android' = Android /\ OnDesktop' = OnDesktop /\ FullTunnel' = FullTunnel
           /\ HasDomains' = HasDomains /\ (OnDesktop <=> ~Android) /\ SessionKnown'
           /\ \A p : On(p)' = On(p)
           /\ \A m, c : carry' = carry => Installable(m, c)' = Installable(m, c)
           /\ carry' = carry => RouteLines' = RouteLines /\ CarriedOverride' = CarriedOverride
                                /\ LinuxRecords' = LinuxRecords
BY HasDomainsFixed, InstallableFixed, LinesFixed, SessionFacts DEF Android, OnDesktop, FullTunnel, On, SessionKnown

\* A step that leaves the host and the resolver alone.
LEMMA HostSame ==
    ASSUME HostInv, UNCHANGED Host,
           \/ Android /\ engine' \notin {"routes", "adding", "dns", "v6", "built"}
           \/ engine' = engine
           \/ engine \in {"launch", "new"} /\ engine' \in {"new", "device", "done"}
           \/ engine = "joining" /\ resolver.pc = "off" /\ engine' = "bypass"
    PROVE  HostInv'
<1>0. /\ UNCHANGED <<session, carry, route, override, hostDns, hostV6, policy, todo, guard, owned, missed, resolver,
                     current, dropped, unchecked>>
      /\ HostType /\ Stages /\ Adding /\ Undoable /\ Shut /\ TaskInv /\ Baseline /\ Restored
  BY DEF Host, hostVars, guardVars, taskVars, HostInv
<1>s. /\ Android' = Android /\ OnDesktop' = OnDesktop /\ FullTunnel' = FullTunnel
      /\ HasDomains' = HasDomains /\ (OnDesktop <=> ~Android) /\ SessionKnown'
      /\ \A p : On(p)' = On(p)
      /\ \A m, c : Installable(m, c)' = Installable(m, c)
      /\ CarriedOverride' = CarriedOverride /\ RouteLines' = RouteLines /\ LinuxRecords' = LinuxRecords
  BY <1>0, Frame DEF HostType
<1>1. HostType'
  BY <1>0, <1>s DEF HostType, SessionKnown
<1>2. Stages'
  BY <1>0, <1>s DEF Stages, ToRoutes
<1>w. Android => ~On("windows") /\ ~On("windows")'
  BY <1>s DEF Android, On
<1>3. Undoable'
  BY <1>0, <1>s, <1>w DEF Undoable, SavedPolicy, Stages
<1>4. Shut'
  BY <1>0, <1>s DEF Shut
<1>5. TaskInv'
  BY <1>0, <1>s DEF TaskInv, Stages
<1>6. Baseline'
  BY <1>0, <1>s DEF Baseline, BaselineTrue, Stages
<1>8. Adding'
  BY <1>0, <1>s, SessionFacts DEF Adding, HostType
<1>7. Restored'
  BY <1>0, <1>s DEF Restored, AsBefore, RouteAsBefore, Stages, ToRoutes
<1> QED BY <1>1, <1>2, <1>3, <1>4, <1>5, <1>6, <1>7, <1>8 DEF HostInv

-----------------------------------------------------------------------------
(* Starting.                                                               *)

\* The device is opened.
LEMMA OpenDeviceHost == HostInv /\ OpenDevice => HostInv'
<1> SUFFICES ASSUME HostInv, OpenDevice PROVE HostInv'
  OBVIOUS
<1>0. /\ UNCHANGED <<session, route, override, hostDns, hostV6, policy, owned, resolver,
                     current, dropped, unchecked>>
      /\ HostType /\ Stages /\ Adding /\ Undoable /\ Shut /\ TaskInv /\ Baseline /\ Restored
  BY DEF OpenDevice, hostVars, taskVars, HostInv
<1>s. /\ Android' = Android /\ OnDesktop' = OnDesktop /\ HasDomains' = HasDomains
      /\ (OnDesktop <=> ~Android) /\ SessionKnown' /\ \A p : On(p)' = On(p)
  BY <1>0, Frame DEF HostType
<1>a. /\ engine = "device" /\ engine' \in {"routes", "done"} /\ ~Android /\ carry' \in BOOLEAN
      /\ \/ guard' = guard /\ ~guard.made
         \/ guard' = [guard EXCEPT !.made = TRUE] /\ ~On("windows") /\ engine' = "routes"
         \/ guard' = [guard EXCEPT !.made = FALSE]
  BY <1>0, SessionFacts DEF OpenDevice, LinuxOpen, MacOpen, WindowsOpen, OpenWith, On, Android,
        HostType, Stages, ToRoutes
<1>g. /\ guard' \in GuardType
      /\ guard'.dns = guard.dns /\ guard'.v6 = guard.v6 /\ guard'.rules = guard.rules
      /\ guard'.policy = guard.policy
      /\ (On("windows") \/ engine' = "done" => ~guard'.made)
  BY <1>0, <1>a DEF HostType, GuardType
<1>1. HostType'
  BY <1>0, <1>s, <1>a, <1>g DEF HostType
<1>2. Stages'
  BY <1>0, <1>s, <1>a, <1>g DEF Stages, ToRoutes
<1>3. Undoable'
  BY <1>0, <1>s, <1>a, <1>g DEF Undoable
<1>4. Shut' /\ Adding'
  BY <1>a DEF Shut, Adding
<1>5. TaskInv'
  BY <1>0, <1>s, <1>a DEF TaskInv, Stages, ToRoutes
<1>6. Baseline' /\ Restored'
  BY <1>a, <1>g DEF Baseline, Restored
<1> QED BY <1>1, <1>2, <1>3, <1>4, <1>5, <1>6 DEF HostInv

\* What the plan of a full tunnel says, and what every plan says.
LEMMA PlanFacts ==
    ASSUME SessionKnown, OnDesktop
    PROVE  /\ Plan.exception = session.server /\ CarriedOverride \subseteq {"v4", "v6"}
           /\ FullTunnel => "v4" \in CarriedOverride
           /\ FullTunnel /\ session.tun6 /\ carry => "v6" \in CarriedOverride
BY DEF Plan, FromSplit, Asked, OnDesktop, FullTunnel, CarriedOverride

\* A line names a kind and, unless it is the override's, a net; the gateway
\* routes are the bypasses and the exception, which Linux has recorded.
LEMMA LineFacts ==
    ASSUME SessionKnown, OnDesktop, NEW l \in RouteLines
    PROVE  /\ l = [kind |-> l.kind, dest |-> l.dest]
           /\ l.kind \in {"exception", "tun", "override", "bypass"}
           /\ l.kind = "override" => l.dest \in CarriedOverride
           /\ l.kind = "exception" => l.dest = session.server
           /\ On("linux") /\ l.kind \in {"exception", "bypass"} => l.dest \in LinuxRecords
<1>1. PICK k, ds : l \in Line(k, ds) /\ (\/ k = "exception" /\ ds = Exceptions
                                         \/ k = "tun" /\ ds = Carried(Plan.viaTun)
                                         \/ k = "override" /\ ds = CarriedOverride
                                         \/ k = "bypass" /\ ds = Carried(Plan.bypass))
  BY DEF RouteLines
<1>2. PICK d \in ds : l = [kind |-> k, dest |-> d]
  BY <1>1 DEF Line
<1>3. l.kind = k /\ l.dest = d
  BY <1>2
<1>4. k = "exception" => d = Plan.exception /\ (On("linux") => d \in LinuxException)
  BY <1>1, <1>2 DEF Exceptions, LinuxException, MacException, WindowsException, Carried, OnDesktop,
        Desktop, On
<1> QED BY <1>1, <1>2, <1>3, <1>4, PlanFacts DEF LinuxRecords

\* Linux writes down what its batch will add.
LEMMA BeginRoutesHost == HostInv /\ BeginRoutes /\ ~Android => HostInv'
<1> SUFFICES ASSUME HostInv, BeginRoutes, ~Android PROVE HostInv'
  OBVIOUS
<1>0. /\ UNCHANGED <<session, carry, route, override, hostDns, hostV6, policy, missed, resolver, current,
                     dropped, unchecked>>
      /\ HostType /\ Stages /\ Adding /\ Undoable /\ Shut /\ TaskInv /\ Baseline /\ Restored
      /\ engine = "routes" /\ engine' \in {"adding", "unwind"}
  BY DEF BeginRoutes, taskVars, hostVars, HostInv
<1>s. /\ Android' = Android /\ OnDesktop' = OnDesktop /\ HasDomains' = HasDomains /\ FullTunnel' = FullTunnel
      /\ OnDesktop /\ SessionKnown /\ SessionKnown' /\ \A p : On(p)' = On(p)
      /\ RouteLines' = RouteLines /\ CarriedOverride' = CarriedOverride /\ LinuxRecords' = LinuxRecords
  BY <1>0, Frame DEF HostType
<1>a. /\ On("linux") => owned' = LinuxRecords /\ guard' = [guard EXCEPT !.rules = CarriedOverride]
      /\ ~On("linux") => owned' = owned /\ guard' = guard
      /\ engine' = "unwind" => On("linux")
      /\ engine' = "adding" => todo' = RouteLines
  BY DEF BeginRoutes
<1>g. /\ guard' \in GuardType
      /\ guard'.dns = guard.dns /\ guard'.v6 = guard.v6 /\ guard'.policy = guard.policy
      /\ guard'.made = guard.made /\ (On("linux") => guard'.rules = CarriedOverride)
  BY <1>0, <1>s, <1>a, PlanFacts DEF HostType, GuardType
<1>n. On("linux") => ~On("windows")
  BY DEF On
<1>1. HostType'
  BY <1>0, <1>s, <1>g DEF HostType
<1>2. Stages'
  BY <1>0, <1>s, <1>a, <1>g DEF Stages, ToRoutes
<1>3. Undoable'
  BY <1>0, <1>s, <1>a, <1>g, <1>n DEF Undoable, Stages, SavedPolicy
<1>4. Adding'
  <2> SUFFICES ASSUME engine' = "adding"
               PROVE  /\ todo' \subseteq RouteLines
                      /\ On("linux") => guard'.rules = CarriedOverride /\ LinuxRecords \subseteq owned'
                      /\ \A f \in CarriedOverride : [kind |-> "override", dest |-> f] \in todo'
    BY <1>0, <1>s DEF Adding
  <2>1. todo' = RouteLines
    BY <1>a
  <2>2. \A f \in CarriedOverride : [kind |-> "override", dest |-> f] \in RouteLines
    BY DEF RouteLines, Line
  <2> QED BY <1>a, <1>g, <2>1, <2>2
<1>5. TaskInv'
  BY <1>0, <1>s DEF TaskInv, Stages
<1> QED BY <1>0, <1>1, <1>2, <1>3, <1>4, <1>5 DEF HostInv, Shut, Baseline, Restored

\* One route is added, or its addition fails.
LEMMA AddRouteHost ==
    ASSUME HostInv, NEW l \in todo, AddRoute(l), ~Android PROVE HostInv'
<1>0. /\ UNCHANGED <<session, engine, carry, hostDns, hostV6, policy, guard, missed, resolver, current, dropped>>
      /\ HostType /\ Stages /\ Adding /\ Undoable /\ Shut /\ TaskInv /\ Baseline /\ Restored
      /\ engine = "adding" /\ todo' = todo \ {l}
  BY DEF AddRoute, taskVars, HostInv
<1>s. /\ Android' = Android /\ OnDesktop' = OnDesktop /\ HasDomains' = HasDomains /\ FullTunnel' = FullTunnel
      /\ OnDesktop /\ SessionKnown /\ SessionKnown' /\ \A p : On(p)' = On(p)
      /\ RouteLines' = RouteLines /\ CarriedOverride' = CarriedOverride /\ LinuxRecords' = LinuxRecords
  BY <1>0, Frame DEF HostType
<1>l. /\ l = [kind |-> l.kind, dest |-> l.dest] /\ l.kind \in {"exception", "tun", "override", "bypass"}
      /\ l.kind = "override" => l.dest \in CarriedOverride
      /\ l.kind = "exception" => l.dest = session.server
      /\ On("linux") /\ l.kind \in {"exception", "bypass"} => l.dest \in LinuxRecords
  BY <1>0, <1>s, LineFacts DEF Adding
<1>a. PICK added \in BOOLEAN :
        /\ added => Taken(l)
        /\ unchecked' = unchecked \/ (unchecked' = IF l.kind = "override" THEN unchecked \cup {l.dest} ELSE unchecked)
        /\ ~added /\ l.kind = "override" => l.dest \in unchecked'
        /\ route' = IF added /\ l.kind # "override"
                    THEN [route EXCEPT ![l.dest] = IF l.kind = "tun" THEN "tun" ELSE "gateway"]
                    ELSE route
        /\ override' = IF added /\ l.kind = "override" THEN override \cup {l.dest} ELSE override
        /\ owned' = IF Records(l, added) THEN owned \cup {l.dest} ELSE owned
  BY DEF AddRoute, Taken
<1>u. unchecked \subseteq unchecked' /\ owned \subseteq owned'
  BY <1>a
<1>b. /\ route' \in [Cidrs -> {"none", "operator", "gateway", "tun"}]
      /\ \A c \in Cidrs : route[c] = "operator" => route'[c] = "operator"
      /\ \A c \in Cidrs : route'[c] = "gateway" =>
            route[c] = "gateway" \/ (added /\ c = l.dest /\ l.kind \in {"exception", "bypass"})
  BY <1>0, <1>l, <1>a DEF HostType, Taken
<1>1. HostType'
  BY <1>0, <1>s, <1>b DEF HostType
<1>2. Stages'
  BY <1>0, <1>s DEF Stages, ToRoutes
<1>3. Undoable'
  <2>1. ASSUME NEW c \in Cidrs, route'[c] = "gateway"
        PROVE  c \in owned' \/ (On("windows") /\ c = session.server)
    <3>1. CASE route[c] = "gateway"
      BY <1>0, <1>u, <3>1 DEF Undoable
    <3>2. CASE added /\ c = l.dest /\ l.kind \in {"exception", "bypass"}
      <4>1. CASE On("linux")
        BY <1>0, <1>l, <1>u, <3>2, <4>1 DEF Adding
      <4>2. CASE On("macos")
        BY <1>a, <3>2, <4>2 DEF Records, MacRecords
      <4>3. CASE On("windows")
        BY <1>a, <1>l, <3>2, <4>3 DEF Records, WindowsRecords
      <4> QED BY <1>s, <4>1, <4>2, <4>3 DEF OnDesktop, Desktop, On
    <3> QED BY <1>b, <2>1, <3>1, <3>2
  <2>2. On("linux") => override' \subseteq guard.rules
    BY <1>0, <1>l, <1>a DEF Undoable, Adding
  <2> QED BY <1>0, <1>s, <1>b, <2>1, <2>2 DEF Undoable
<1>4. Adding'
  <2>1. ASSUME NEW f \in CarriedOverride
        PROVE  f \in override' \/ f \in unchecked' \/ [kind |-> "override", dest |-> f] \in todo'
    <3>1. CASE f \in override \/ f \in unchecked
      BY <1>a, <1>u, <3>1
    <3>2. CASE [kind |-> "override", dest |-> f] \in todo /\ l # [kind |-> "override", dest |-> f]
      BY <1>0, <3>2
    <3>3. CASE l = [kind |-> "override", dest |-> f]
      <4>1. l.kind = "override" /\ l.dest = f
        BY <3>3
      <4> QED BY <1>a, <4>1
    <3> QED BY <1>0, <3>1, <3>2, <3>3 DEF Adding
  <2> QED BY <1>0, <1>s, <1>u, <2>1 DEF Adding
<1>5. TaskInv'
  BY <1>0, <1>s DEF TaskInv, Stages
<1> QED BY <1>0, <1>1, <1>2, <1>3, <1>4, <1>5 DEF HostInv, Shut, Baseline, Restored

\* The last route has been tried.
LEMMA RoutesAddedHost == HostInv /\ RoutesAdded /\ ~Android => HostInv'
<1> SUFFICES ASSUME HostInv, RoutesAdded, ~Android PROVE HostInv'
  OBVIOUS
<1>0. /\ UNCHANGED <<session, carry, route, override, hostDns, hostV6, policy, guard, owned, missed, resolver,
                     current, dropped, unchecked>>
      /\ HostType /\ Stages /\ Adding /\ Undoable /\ Shut /\ TaskInv /\ Baseline /\ Restored
      /\ engine = "adding" /\ engine' = "dns" /\ todo = {}
  BY DEF RoutesAdded, taskVars, hostVars, guardVars, HostInv
<1>s. /\ Android' = Android /\ OnDesktop' = OnDesktop /\ HasDomains' = HasDomains /\ FullTunnel' = FullTunnel
      /\ OnDesktop /\ SessionKnown /\ SessionKnown' /\ \A p : On(p)' = On(p)
      /\ CarriedOverride' = CarriedOverride
  BY <1>0, Frame DEF HostType
<1>1. HostType' /\ Stages'
  BY <1>0, <1>s DEF HostType, Stages, ToRoutes
<1>2. Undoable'
  BY <1>0, <1>s DEF Undoable
<1>3. Shut'
  BY <1>0, <1>s DEF Shut, Adding
<1>4. TaskInv'
  BY <1>0, <1>s DEF TaskInv, Stages
<1> QED BY <1>0, <1>1, <1>2, <1>3, <1>4 DEF HostInv, Adding, Baseline, Restored

\* DNS is forced; a failure is noted or unwinds the start.
LEMMA ForceDnsHost == HostInv /\ ForceDns /\ ~Android => HostInv'
<1> SUFFICES ASSUME HostInv, ForceDns, ~Android PROVE HostInv'
  OBVIOUS
<1>0. /\ UNCHANGED <<session, carry, route, override, hostV6, owned, resolver, current, dropped>>
      /\ HostType /\ Stages /\ Adding /\ Undoable /\ Shut /\ TaskInv /\ Baseline /\ Restored
      /\ engine = "dns"
  BY DEF ForceDns, taskVars, HostInv
<1>s. /\ Android' = Android /\ OnDesktop' = OnDesktop /\ HasDomains' = HasDomains /\ FullTunnel' = FullTunnel
      /\ OnDesktop /\ SessionKnown /\ SessionKnown' /\ \A p : On(p)' = On(p)
      /\ CarriedOverride' = CarriedOverride
  BY <1>0, Frame DEF HostType
<1>t. /\ hostDns = "host" /\ ~guard.dns /\ policy = session.policy /\ guard.policy = "unset"
      /\ guard \in GuardType /\ policy \in {"unset", "0", "1"} /\ (ForcesDns(session) <=> FullTunnel)
  BY <1>0 DEF Stages, HostType, ForcesDns, FullTunnel
<1>a. /\ engine' \in {"v6", "unwind"} /\ unchecked \subseteq unchecked'
      /\ hostDns' \in {"host", "tunnel"} /\ policy' \in {"unset", "0", "1"}
      /\ guard' \in GuardType
      /\ guard'.v6 = guard.v6 /\ guard'.rules = guard.rules /\ guard'.made = guard.made
      /\ hostDns' # "host" => guard'.dns \/ On("windows")
      /\ ~On("windows") => policy' = policy
      /\ On("windows") => guard'.policy = session.policy
                          \/ (guard'.policy = "unset" /\ (~ForcesDns(session) \/ "read" \in unchecked'))
      /\ FullTunnel /\ engine' = "v6" =>
           /\ hostDns' = "tunnel" \/ "dns" \in unchecked'
           /\ On("windows") => policy' = "1" \/ "policy" \in unchecked'
  <2>1. CASE ~ForcesDns(session)
    BY <1>t, <2>1 DEF ForceDns
  <2>2. CASE ForcesDns(session) /\ On("windows")
    <3>1. ForceDns /\ ~On("linux") /\ ~On("macos")
      BY <2>2 DEF On
    <3>2. WindowsDns
      BY <2>2, <3>1 DEF ForceDns
    <3>3. PICK bad \in SUBSET {"dns", "policy", "read"} :
            /\ unchecked' = unchecked \cup bad
            /\ hostDns' = IF "dns" \in bad THEN hostDns ELSE "tunnel"
            /\ policy' = IF "policy" \in bad THEN policy ELSE "1"
            /\ guard' = [guard EXCEPT !.policy = IF "read" \in bad THEN "unset" ELSE policy]
      BY <3>2 DEF WindowsDns
    <3>4. engine' = "v6"
      BY <3>2 DEF WindowsDns
    <3>5. /\ guard' \in GuardType /\ guard'.policy = IF "read" \in bad THEN "unset" ELSE policy
          /\ guard'.v6 = guard.v6 /\ guard'.rules = guard.rules /\ guard'.made = guard.made
      BY <1>t, <3>3 DEF GuardType
    <3> QED BY <1>t, <2>2, <3>3, <3>4, <3>5
  <2>3. CASE ForcesDns(session) /\ ~On("windows")
    <3>1. /\ policy' = policy
          /\ \/ engine' = "v6" /\ hostDns' = "tunnel" /\ guard' = [guard EXCEPT !.dns = TRUE] /\ unchecked' = unchecked
             \/ engine' = "v6" /\ hostDns' = hostDns /\ guard' = [guard EXCEPT !.dns = TRUE] /\ unchecked' = unchecked \cup {"dns"}
             \/ engine' = "unwind" /\ hostDns' = hostDns /\ guard' = [guard EXCEPT !.dns = FALSE] /\ unchecked' = unchecked
             \/ engine' = "unwind" /\ hostDns' = "tunnel" /\ guard' = [guard EXCEPT !.dns = TRUE] /\ unchecked' = unchecked
      BY <2>3 DEF ForceDns, LinuxDns, MacDns, DnsForced, DnsTo
    <3> QED BY <1>t, <2>3, <3>1 DEF GuardType
  <2> QED BY <2>1, <2>2, <2>3
<1>1. HostType'
  BY <1>0, <1>s, <1>a DEF HostType
<1>2. Stages'
  BY <1>0, <1>s, <1>a DEF Stages, ToRoutes
<1>3. Undoable'
  BY <1>0, <1>s, <1>a DEF Undoable, SavedPolicy
<1>4. Shut' /\ Adding'
  BY <1>0, <1>s, <1>a DEF Shut, Adding
<1>5. TaskInv'
  BY <1>0, <1>s, <1>a DEF TaskInv, Stages
<1>6. Baseline' /\ Restored'
  BY <1>a DEF Baseline, Restored
<1> QED BY <1>1, <1>2, <1>3, <1>4, <1>5, <1>6 DEF HostInv

\* IPv6 is shut; a failure is noted or unwinds the start.
LEMMA KillSwitchHost == HostInv /\ KillSwitch /\ ~Android => HostInv'
<1> SUFFICES ASSUME HostInv, KillSwitch, ~Android PROVE HostInv'
  OBVIOUS
<1>0. /\ UNCHANGED <<session, carry, route, override, hostDns, policy, owned, resolver, current, dropped>>
      /\ HostType /\ Stages /\ Adding /\ Undoable /\ Shut /\ TaskInv /\ Baseline /\ Restored
      /\ engine = "v6"
  BY DEF KillSwitch, taskVars, HostInv
<1>s. /\ Android' = Android /\ OnDesktop' = OnDesktop /\ HasDomains' = HasDomains /\ FullTunnel' = FullTunnel
      /\ OnDesktop /\ SessionKnown /\ SessionKnown' /\ \A p : On(p)' = On(p)
      /\ CarriedOverride' = CarriedOverride
  BY <1>0, Frame DEF HostType
<1>t. /\ hostV6 = session.hostV6 /\ guard.v6 = "none" /\ hostV6 \in {"on", "off"}
      /\ guard \in GuardType
  BY <1>0 DEF Stages, HostType
<1>a. \/ /\ UNCHANGED <<hostV6, guard, unchecked>> /\ engine' = "built"
         /\ ~AppliesKillSwitch \/ hostV6 = "off"
      \/ UNCHANGED <<hostV6, guard>> /\ unchecked' = unchecked \cup {"off"} /\ engine' = "built"
      \/ /\ hostV6' = "off" /\ engine' = "built" /\ UNCHANGED unchecked
         /\ \/ guard' = [guard EXCEPT !.v6 = hostV6]
            \/ On("macos") /\ guard' = [guard EXCEPT !.v6 = "on"]
      \/ /\ hostV6' \in {hostV6, "off"} /\ engine' = "unwind" /\ UNCHANGED unchecked
         /\ guard' = [guard EXCEPT !.v6 = hostV6]
  <2>1. CASE ~AppliesKillSwitch
    BY <2>1 DEF KillSwitch
  <2>2. CASE AppliesKillSwitch
    BY <1>t, <2>2 DEF KillSwitch, LinuxKillSwitch, MacKillSwitch, WindowsKillSwitch, V6BindingEnabled
  <2> QED BY <2>1, <2>2
<1>g. /\ guard' \in GuardType
      /\ guard'.dns = guard.dns /\ guard'.rules = guard.rules /\ guard'.made = guard.made
      /\ guard'.v6 # "none" => guard'.v6 = session.hostV6 \/ (On("macos") /\ guard'.v6 = "on")
      /\ hostV6' # session.hostV6 => guard'.v6 # "none"
      /\ hostV6' \in {"on", "off"} /\ engine' \in {"built", "unwind"}
      /\ unchecked \subseteq unchecked' /\ guard'.policy = guard.policy
  BY <1>t, <1>a DEF GuardType
<1>v. engine' = "built" /\ AppliesKillSwitch => hostV6' = "off" \/ "off" \in unchecked'
  BY <1>t, <1>a
<1>1. HostType'
  BY <1>0, <1>s, <1>g DEF HostType
<1>2. Stages'
  BY <1>0, <1>s, <1>g DEF Stages, ToRoutes
<1>3. Undoable'
  BY <1>0, <1>s, <1>g DEF Undoable, SavedPolicy
<1>4. Shut'
  BY <1>0, <1>s, <1>g, <1>v, SessionFacts DEF Shut, AppliesKillSwitch, WantsKillSwitch, FullTunnel
<1>5. TaskInv'
  BY <1>0, <1>s, <1>g DEF TaskInv, Stages
<1>6. Baseline' /\ Restored' /\ Adding'
  BY <1>g DEF Baseline, Restored, Adding
<1> QED BY <1>1, <1>2, <1>3, <1>4, <1>5, <1>6 DEF HostInv

\* Closing the device takes the routes through it and no others.
LEMMA CloseDeviceHost ==
    ASSUME HostType, CloseDevice
    PROVE  /\ route' \in [Cidrs -> {"none", "operator", "gateway", "tun"}]
           /\ \A c \in Cidrs : route'[c] = "gateway" <=> route[c] = "gateway"
           /\ \A c \in Cidrs : route[c] = "operator" => route'[c] = "operator"
           /\ override' \subseteq override /\ hostDns' \in {hostDns, "host"}
BY DEF HostType, CloseDevice

\* The start hands its guard to the engine.
LEMMA HandoverHost == HostInv /\ Handover /\ ~Android => HostInv'
<1> SUFFICES ASSUME HostInv, Handover, ~Android PROVE HostInv'
  OBVIOUS
<1>0. /\ UNCHANGED <<session, carry, hostV6, policy, owned, missed, current, dropped, unchecked>>
      /\ HostType /\ Stages /\ Adding /\ Undoable /\ Shut /\ TaskInv /\ Baseline /\ Restored
      /\ engine = "built"
  BY DEF Handover, HostInv
<1>s. /\ Android' = Android /\ OnDesktop' = OnDesktop /\ HasDomains' = HasDomains /\ FullTunnel' = FullTunnel
      /\ OnDesktop /\ SessionKnown /\ SessionKnown' /\ \A p : On(p)' = On(p)
      /\ CarriedOverride' = CarriedOverride
  BY <1>0, Frame DEF HostType
<1>1. CASE engine' = "done"
  <2>1. UNCHANGED <<guard, resolver>> /\ ~guard.made /\ CloseDevice
    BY <1>0, <1>1 DEF Handover, Stages
  <2>2. HostType' /\ Stages' /\ Undoable'
    BY <1>0, <1>s, <1>1, <2>1, CloseDeviceHost DEF HostType, Stages, ToRoutes, Undoable
  <2>3. TaskInv'
    BY <1>0, <1>s, <1>1, <2>1 DEF TaskInv, Stages
  <2> QED BY <1>1, <2>1, <2>2, <2>3 DEF HostInv, Adding, Shut, Baseline, Restored
<1>2. CASE engine' = "pump"
  <2>a. /\ guard' = [guard EXCEPT !.made = TRUE] /\ UNCHANGED <<route, override, hostDns>>
        /\ resolver' = IF HasDomains THEN [NoTask EXCEPT !.pc = "next"] ELSE NoTask
    BY <1>2 DEF Handover
  <2>g. /\ guard' \in GuardType
        /\ guard'.dns = guard.dns /\ guard'.v6 = guard.v6 /\ guard'.rules = guard.rules
        /\ guard'.policy = guard.policy
    BY <1>0, <2>a DEF HostType, GuardType
  <2>1. HostType'
    BY <1>0, <1>s, <1>2, <2>a, <2>g DEF HostType
  <2>2. Stages'
    BY <1>0, <1>s, <1>2, <2>g DEF Stages, ToRoutes
  <2>3. Undoable'
    BY <1>0, <1>s, <1>2, <2>a, <2>g DEF Undoable, SavedPolicy
  <2>4. Shut'
    BY <1>0, <1>s, <1>2, <2>a DEF Shut
  <2>5. TaskInv'
    BY <1>0, <1>s, <1>2, <2>a DEF TaskInv, NoTask, Modes
  <2>6. Baseline'
    BY <1>0, <1>s, <2>a DEF Baseline, BaselineTrue, Stages, NoTask
  <2> QED BY <1>2, <2>1, <2>2, <2>3, <2>4, <2>5, <2>6 DEF HostInv, Adding, Restored
<1> QED BY <1>1, <1>2 DEF Handover

-----------------------------------------------------------------------------
(* Ending.                                                                 *)

\* The pump stops; the host is as it was.
LEMMA PumpStopsHost == HostInv /\ PumpStops => HostInv'
<1> SUFFICES ASSUME HostInv, PumpStops PROVE HostInv'
  OBVIOUS
<1>0. /\ UNCHANGED <<session, carry, hostV6, policy, todo, guard, owned, missed, resolver, current, dropped, unchecked>>
      /\ HostType /\ Stages /\ Adding /\ Undoable /\ Shut /\ TaskInv /\ Baseline /\ Restored
      /\ CloseDevice /\ engine = "pump" /\ engine' = "stopping"
  BY DEF PumpStops, taskVars, guardVars, HostInv
<1>s. /\ Android' = Android /\ OnDesktop' = OnDesktop /\ HasDomains' = HasDomains /\ FullTunnel' = FullTunnel
      /\ (OnDesktop <=> ~Android) /\ SessionKnown /\ SessionKnown' /\ \A p : On(p)' = On(p)
      /\ \A m, c : Installable(m, c)' = Installable(m, c)
      /\ CarriedOverride' = CarriedOverride
  BY <1>0, Frame DEF HostType
<1>c. /\ route' \in [Cidrs -> {"none", "operator", "gateway", "tun"}]
      /\ \A c \in Cidrs : route'[c] = "gateway" <=> route[c] = "gateway"
      /\ \A c \in Cidrs : route[c] = "operator" => route'[c] = "operator"
      /\ override' \subseteq override /\ hostDns' \in {hostDns, "host"}
  BY <1>0, CloseDeviceHost
<1>1. HostType' /\ Stages'
  BY <1>0, <1>s, <1>c DEF HostType, Stages, ToRoutes
<1>2. Undoable'
  BY <1>0, <1>s, <1>c DEF Undoable, SavedPolicy
<1>3. TaskInv'
  BY <1>0, <1>s, <1>c DEF TaskInv
<1> QED BY <1>0, <1>1, <1>2, <1>3 DEF HostInv, Adding, Shut, Baseline, Restored

\* The resolver task is aborted, its OS call still under way or not.
LEMMA AbortResolverHost == HostInv /\ AbortResolver => HostInv'
<1> SUFFICES ASSUME HostInv, AbortResolver PROVE HostInv'
  OBVIOUS
<1>0. /\ UNCHANGED <<session, carry, route, override, hostDns, hostV6, policy, todo, guard, owned, missed, current, dropped, unchecked>>
      /\ HostType /\ Stages /\ Adding /\ Undoable /\ Shut /\ TaskInv /\ Baseline /\ Restored
      /\ resolver' = [resolver EXCEPT !.dying = TRUE] /\ engine = "stopping" /\ engine' = "joining"
  BY DEF AbortResolver, hostVars, guardVars, HostInv
<1>s. /\ Android' = Android /\ OnDesktop' = OnDesktop /\ HasDomains' = HasDomains /\ FullTunnel' = FullTunnel
      /\ (OnDesktop <=> ~Android) /\ SessionKnown /\ SessionKnown' /\ \A p : On(p)' = On(p)
      /\ \A m, c : Installable(m, c)' = Installable(m, c)
      /\ CarriedOverride' = CarriedOverride
  BY <1>0, Frame DEF HostType
<1>r. /\ resolver'.pc = resolver.pc /\ resolver'.mode = resolver.mode /\ resolver'.op = resolver.op
      /\ resolver'.cidr = resolver.cidr /\ resolver'.ok = resolver.ok /\ resolver'.dying = TRUE
      /\ resolver'.add = resolver.add /\ resolver'.del = resolver.del
      /\ resolver' = [pc |-> resolver'.pc, mode |-> resolver'.mode, add |-> resolver'.add,
                      del |-> resolver'.del, op |-> resolver'.op, cidr |-> resolver'.cidr,
                      ok |-> resolver'.ok, dying |-> resolver'.dying]
  BY <1>0 DEF TaskInv
<1>1. HostType' /\ Stages'
  BY <1>0, <1>s, <1>r DEF HostType, Stages, ToRoutes
<1>2. Undoable'
  BY <1>0, <1>s DEF Undoable, SavedPolicy
<1>3. TaskInv'
  BY <1>0, <1>s, <1>r DEF TaskInv
<1> QED BY <1>0, <1>1, <1>2, <1>3 DEF HostInv, Adding, Shut, Baseline, Restored

\* The teardown removes bypasses; what fails stays with the guard.
LEMMA TeardownBypassHost == HostInv /\ TeardownBypass => HostInv'
<1> SUFFICES ASSUME HostInv, TeardownBypass PROVE HostInv'
  OBVIOUS
<1>0. /\ UNCHANGED <<session, carry, override, hostDns, hostV6, policy, todo, guard, missed, resolver, current, dropped, unchecked>>
      /\ HostType /\ Stages /\ Adding /\ Undoable /\ Shut /\ TaskInv /\ Baseline /\ Restored
      /\ engine = "bypass" /\ engine' = "unwind"
  BY DEF TeardownBypass, taskVars, HostInv
<1>s. /\ Android' = Android /\ OnDesktop' = OnDesktop /\ HasDomains' = HasDomains /\ FullTunnel' = FullTunnel
      /\ (OnDesktop <=> ~Android) /\ SessionKnown /\ SessionKnown' /\ \A p : On(p)' = On(p)
      /\ \A m, c : Installable(m, c)' = Installable(m, c)
      /\ CarriedOverride' = CarriedOverride
  BY <1>0, Frame DEF HostType
<1>c. PICK gone \in SUBSET owned :
        /\ \A c \in gone : route[c] = "gateway"
        /\ route' = [c \in Cidrs |-> IF c \in gone THEN "none" ELSE route[c]]
        /\ owned' = owned \ gone
  <2>1. PICK bad \in {{}} \cup {{c} : c \in owned} :
          LET gone == {c \in owned \ bad : RemovesInProcess(c)}
          IN  /\ route' = [c \in Cidrs |-> IF c \in gone THEN "none" ELSE route[c]]
              /\ owned' = owned \ gone
    BY DEF TeardownBypass
  <2> QED BY <2>1 DEF RemovesInProcess
<1>1. HostType' /\ Stages'
  BY <1>0, <1>s, <1>c DEF HostType, Stages, ToRoutes
<1>2. Undoable'
  BY <1>0, <1>s, <1>c DEF Undoable, SavedPolicy
<1>3. TaskInv'
  BY <1>0, <1>s, <1>c DEF TaskInv
<1> QED BY <1>0, <1>1, <1>2, <1>3 DEF HostInv, Adding, Shut, Baseline, Restored

\* What the guard is dropped with is enough to undo what is left.
LEMMA DropGuardHost == HostInv /\ DropGuard => HostInv'
<1> SUFFICES ASSUME HostInv, DropGuard PROVE HostInv'
  OBVIOUS
<1>0. /\ UNCHANGED <<session, carry, guard, owned, resolver, current, dropped, unchecked>>
      /\ HostType /\ Stages /\ Adding /\ Undoable /\ Shut /\ TaskInv /\ Baseline /\ Restored
      /\ engine = "unwind" /\ engine' = "done"
  BY DEF DropGuard, taskVars, HostInv
<1>s. /\ Android' = Android /\ OnDesktop' = OnDesktop /\ HasDomains' = HasDomains /\ FullTunnel' = FullTunnel
      /\ (OnDesktop <=> ~Android) /\ SessionKnown /\ SessionKnown' /\ \A p : On(p)' = On(p)
      /\ \A m, c : Installable(m, c)' = Installable(m, c)
  BY <1>0, Frame DEF HostType
<1>d. PICK stay \in SUBSET owned, bad \in SUBSET GuardSettings :
        LET undone == GuardSettings \ bad
        IN  /\ missed' = [routes |-> stay, settings |-> bad]
            /\ route' = [c \in Cidrs |-> IF route[c] = "tun" THEN "none"
                                         ELSE IF c \in owned \ stay /\ GuardDeletes(c) THEN "none"
                                         ELSE route[c]]
            /\ override' = IF ~On("linux") \/ "rules" \in undone THEN {} ELSE override
            /\ hostDns' = IF On("windows") \/ "dns" \in undone THEN "host" ELSE hostDns
            /\ hostV6' = IF "v6" \in undone THEN guard.v6 ELSE hostV6
            /\ policy' = IF "policy" \in undone THEN guard.policy ELSE policy
  BY DEF DropGuard
<1>e. /\ "rules" \in GuardSettings <=> guard.rules # {}
      /\ "dns" \in GuardSettings <=> guard.dns
      /\ "v6" \in GuardSettings <=> guard.v6 # "none"
      /\ "policy" \in GuardSettings <=> On("windows")
  BY DEF GuardSettings
<1>c. /\ route' \in [Cidrs -> {"none", "operator", "gateway", "tun"}]
      /\ \A c \in Cidrs : route'[c] = "gateway" => route[c] = "gateway" /\ ~(c \in owned \ stay /\ GuardDeletes(c))
      /\ \A c \in Cidrs : route'[c] # "tun"
      /\ \A c \in Cidrs : route[c] = "operator" => route'[c] = "operator" \/ (c \in owned /\ GuardDeletes(c))
  BY <1>0, <1>d DEF HostType
<1>g. guard.dns \in BOOLEAN /\ guard.v6 \in {"none", "on", "off"} /\ guard.policy \in {"unset", "0", "1"}
  BY <1>0 DEF HostType, GuardType
<1>o. Android => owned = {} /\ guard.rules = {} /\ ~guard.dns /\ guard.v6 = "none" /\ ~guard.made
                 /\ override = {} /\ hostDns = "host" /\ hostV6 = session.hostV6 /\ ~On("windows")
  BY <1>0 DEF Stages, Android, On
<1>1. HostType'
  BY <1>0, <1>s, <1>d, <1>e, <1>c, <1>g DEF HostType
<1>2. Stages'
  BY <1>0, <1>s, <1>d, <1>e, <1>c, <1>o DEF Stages, ToRoutes
<1>v. hostV6' # session.hostV6 => guard.v6 # "none" /\ ("v6" \in bad \/ (On("macos") /\ session.hostV6 = "off"))
  BY <1>0, <1>s, <1>d, <1>e, SessionFacts DEF Undoable, HostType
<1>3. Undoable'
  <2>1. Android => \A c \in Cidrs : c \in session.operator => route'[c] = "operator"
    BY <1>0, <1>c, <1>o DEF Undoable
  <2>2. On("linux") => override' \subseteq guard.rules
    BY <1>0, <1>d DEF Undoable
  <2>3. hostDns' # "host" => guard.dns \/ On("windows")
    BY <1>0, <1>d DEF Undoable
  <2>4. ~On("windows") => policy' = session.policy
    BY <1>0, <1>d, <1>e DEF Undoable
  <2> QED BY <1>0, <1>s, <1>c, <1>v, <2>1, <2>2, <2>3, <2>4 DEF Undoable
<1>3t. TaskInv'
  BY <1>0, <1>s, <1>c DEF TaskInv
<1>4. Restored'
  <2> SUFFICES ASSUME guard.made PROVE AsBefore'
    BY <1>0 DEF Restored
  <2>0. missed'.routes = stay /\ missed'.settings = bad
    BY <1>d
  <2>1. OnDesktop
    BY <1>0, <1>s DEF Stages
  <2>2. ASSUME NEW c \in Cidrs PROVE RouteAsBefore(c)'
    <3>1. ASSUME route'[c] = "gateway"
          PROVE  c \in stay \/ (On("windows") /\ (c = session.server \/ c \in V6))
      <4>1. route[c] = "gateway" /\ ~(c \in owned \ stay /\ GuardDeletes(c))
        BY <1>c, <3>1
      <4>2. CASE c \notin owned
        BY <1>0, <4>1, <4>2 DEF Undoable
      <4>3. CASE c \in owned \ stay
        BY <2>1, <4>1, <4>3 DEF GuardDeletes, IpRouteDel, MacRouteDel, WinRouteDel, OnDesktop, Desktop, On, Cidrs
      <4> QED BY <4>2, <4>3
    <3>2. ASSUME c \in session.operator, route'[c] # "operator"
          PROVE  c \in owned /\ (On("linux") \/ On("macos"))
      <4>1. route[c] = "operator" /\ c \in owned /\ GuardDeletes(c)
        BY <1>0, <1>c, <3>2 DEF Undoable
      <4> QED BY <4>1 DEF GuardDeletes, WinRouteDel
    <3> QED BY <1>0, <1>s, <1>c, <2>0, <3>1, <3>2 DEF RouteAsBefore
  <2>3. override' # {} => "rules" \in bad
    BY <1>0, <1>d, <1>e DEF Undoable
  <2>4. hostDns' # "host" => "dns" \in bad
    BY <1>0, <1>d, <1>e DEF Undoable
  <2>5. policy' # session.policy =>
          /\ On("windows")
          /\ "policy" \in bad \/ (policy' = "unset" /\ (~ForcesDns(session) \/ "read" \in unchecked))
    BY <1>0, <1>d, <1>e DEF Undoable, SavedPolicy
  <2> QED BY <1>0, <1>s, <1>v, <2>0, <2>2, <2>3, <2>4, <2>5 DEF AsBefore
<1> QED BY <1>0, <1>1, <1>2, <1>3, <1>3t, <1>4 DEF HostInv, Adding, Shut, Baseline

\* The engine is dropped where it is suspended.
LEMMA DropFutureHost == HostInv /\ DropFuture => HostInv'
<1> SUFFICES ASSUME HostInv, DropFuture PROVE HostInv'
  OBVIOUS
<1>0. /\ UNCHANGED <<session, carry, hostV6, policy, todo, guard, owned, missed, current, unchecked>>
      /\ HostType /\ Stages /\ Adding /\ Undoable /\ Shut /\ TaskInv /\ Baseline /\ Restored
      /\ resolver' = [resolver EXCEPT !.dying = TRUE] /\ dropped' = TRUE /\ CloseDevice
      /\ engine' = IF guard.made THEN "unwind" ELSE "done"
  BY DEF DropFuture, guardVars, HostInv
<1>s. /\ Android' = Android /\ OnDesktop' = OnDesktop /\ HasDomains' = HasDomains /\ FullTunnel' = FullTunnel
      /\ (OnDesktop <=> ~Android) /\ SessionKnown /\ SessionKnown' /\ \A p : On(p)' = On(p)
      /\ \A m, c : Installable(m, c)' = Installable(m, c)
      /\ CarriedOverride' = CarriedOverride
  BY <1>0, Frame DEF HostType
<1>c. /\ route' \in [Cidrs -> {"none", "operator", "gateway", "tun"}]
      /\ \A c \in Cidrs : route'[c] = "gateway" <=> route[c] = "gateway"
      /\ \A c \in Cidrs : route[c] = "operator" => route'[c] = "operator"
      /\ override' \subseteq override /\ hostDns' \in {hostDns, "host"}
  BY <1>0, CloseDeviceHost
<1>r. /\ resolver'.pc = resolver.pc /\ resolver'.mode = resolver.mode /\ resolver'.op = resolver.op
      /\ resolver'.cidr = resolver.cidr /\ resolver'.ok = resolver.ok /\ resolver'.dying = TRUE
      /\ resolver' = [pc |-> resolver'.pc, mode |-> resolver'.mode, add |-> resolver'.add,
                      del |-> resolver'.del, op |-> resolver'.op, cidr |-> resolver'.cidr,
                      ok |-> resolver'.ok, dying |-> resolver'.dying]
  BY <1>0 DEF TaskInv
<1>1. HostType' /\ Stages'
  BY <1>0, <1>s, <1>c, <1>r DEF HostType, Stages, ToRoutes
<1>d. /\ Suspended
      /\ On("windows") /\ guard.made => engine \in {"pump", "joining", "bypass"}
  BY <1>0 DEF DropFuture, Suspended, Stages, ToRoutes
<1>2. Undoable'
  BY <1>0, <1>s, <1>c, <1>d DEF Undoable, SavedPolicy, Suspended
<1>3. TaskInv'
  BY <1>0, <1>s, <1>c, <1>r DEF TaskInv
<1> QED BY <1>0, <1>1, <1>2, <1>3 DEF HostInv, Adding, Shut, Baseline, Restored

-----------------------------------------------------------------------------
(* The resolver.                                                           *)

\* It only runs once the routes are in place, and after the end only if the
\* engine was dropped.
LEMMA QuietStepHost == HostInv /\ (Resolve \/ NextDirection) => HostInv'
<1> SUFFICES ASSUME HostInv, Resolve \/ NextDirection PROVE HostInv'
  OBVIOUS
<1>0. /\ UNCHANGED <<session, engine, carry, override, hostDns, hostV6, policy, todo, guard, missed, dropped, unchecked, route, owned,
                     current>>
      /\ HostType /\ Stages /\ Adding /\ Undoable /\ Shut /\ TaskInv /\ Baseline /\ Restored
  BY DEF Resolve, NextDirection, hostVars, guardVars, HostInv
<1>s. /\ Android' = Android /\ OnDesktop' = OnDesktop /\ HasDomains' = HasDomains /\ FullTunnel' = FullTunnel
      /\ (OnDesktop <=> ~Android) /\ SessionKnown /\ SessionKnown' /\ \A p : On(p)' = On(p)
      /\ \A m, c : Installable(m, c)' = Installable(m, c)
      /\ CarriedOverride' = CarriedOverride
  BY <1>0, Frame DEF HostType
<1>a. TRUE
  OBVIOUS
<1>r. /\ resolver.pc \in {"next", "apply"} /\ resolver'.pc \in {"next", "apply"}
      /\ resolver'.mode \in Modes /\ resolver'.op = resolver.op /\ resolver'.ok = resolver.ok
      /\ resolver'.cidr = resolver.cidr /\ resolver'.dying = resolver.dying
      /\ resolver' = [pc |-> resolver'.pc, mode |-> resolver'.mode, add |-> resolver'.add,
                      del |-> resolver'.del, op |-> resolver'.op, cidr |-> resolver'.cidr,
                      ok |-> resolver'.ok, dying |-> resolver'.dying]
  BY <1>0 DEF Resolve, NextDirection, Running, OtherMode, TaskInv, Modes
<1>1. HostType'
  BY <1>0, <1>s, <1>a DEF HostType
<1>2. Stages'
  BY <1>0, <1>s, <1>r, <1>a DEF Stages, ToRoutes
<1>3. Undoable'
  BY <1>0, <1>s, <1>a DEF Undoable, SavedPolicy
<1>4. Shut'
  BY <1>0, <1>s DEF Shut
<1>5. TaskInv'
  BY <1>0, <1>s, <1>r, <1>a DEF TaskInv
<1>6. Baseline'
  BY <1>0, <1>s, <1>r, <1>a DEF Baseline, BaselineTrue, TaskInv, Kind, Modes
<1>8. Adding'
  BY <1>0 DEF Adding, Stages, Resolve, NextDirection, Running
<1>7. Restored'
  BY <1>0, <1>s, <1>r DEF Restored, TaskInv, AsBefore, RouteAsBefore
<1> QED BY <1>1, <1>2, <1>3, <1>4, <1>5, <1>6, <1>7, <1>8 DEF HostInv

\* The resolver task asks the OS to add a bypass.
LEMMA SendAddHost ==
    ASSUME HostInv, NEW c \in Cidrs, SendAdd(c) PROVE HostInv'
<1>0. /\ UNCHANGED <<session, engine, carry, override, hostDns, hostV6, policy, todo, guard, missed, dropped, unchecked, current>>
      /\ HostType /\ Stages /\ Adding /\ Undoable /\ Shut /\ TaskInv /\ Baseline /\ Restored
      /\ resolver.pc = "apply" /\ resolver.mode \in Modes
  BY DEF SendAdd, Running, HostInv, TaskInv
<1>s. /\ Android' = Android /\ OnDesktop' = OnDesktop /\ HasDomains' = HasDomains /\ FullTunnel' = FullTunnel
      /\ (OnDesktop <=> ~Android) /\ SessionKnown /\ SessionKnown' /\ \A p : On(p)' = On(p)
      /\ \A m, d : Installable(m, d)' = Installable(m, d)
      /\ CarriedOverride' = CarriedOverride
  BY <1>0, Frame DEF HostType
<1>r. /\ resolver'.pc = "wait" /\ resolver'.mode = resolver.mode /\ resolver'.op = "add"
      /\ resolver'.cidr = c /\ resolver'.ok \in BOOLEAN /\ resolver'.dying = resolver.dying
      /\ resolver' = [pc |-> resolver'.pc, mode |-> resolver'.mode, add |-> resolver'.add,
                      del |-> resolver'.del, op |-> resolver'.op, cidr |-> resolver'.cidr,
                      ok |-> resolver'.ok, dying |-> resolver'.dying]
  BY <1>0 DEF SendAdd, TaskInv
<1>b. /\ owned \subseteq owned'
      /\ resolver.mode = "exclude" /\ Installable(resolver.mode, c) => c \in owned'
      /\ \/ /\ Installable(resolver.mode, c) /\ route[c] = "none"
            /\ route' = [route EXCEPT ![c] = Kind(resolver.mode)]
         \/ route' = route /\ (resolver'.ok => ~Installable(resolver.mode, c))
      /\ Kind(resolver.mode) = "gateway" => resolver.mode = "exclude"
      /\ Kind(resolver.mode) \in {"gateway", "tun"}
  BY <1>0 DEF SendAdd, Free, TaskInv, Kind
<1>a. /\ owned \subseteq owned'
      /\ route' \in [Cidrs -> {"none", "operator", "gateway", "tun"}]
      /\ route'[c] = "gateway" /\ route[c] # "gateway" => c \in owned'
      /\ \A d \in Cidrs : d # c => route'[d] = route[d]
      /\ route[c] # "none" => route'[c] = route[c]
      /\ resolver'.ok /\ Installable(resolver.mode, c) => route'[c] = Kind(resolver.mode)
  BY <1>0, <1>b DEF HostType
<1>1. HostType'
  BY <1>0, <1>s, <1>a DEF HostType
<1>2. Stages'
  BY <1>0, <1>s, <1>r, <1>a DEF Stages, ToRoutes
<1>3. Undoable'
  BY <1>0, <1>s, <1>a DEF Undoable, SavedPolicy
<1>4. Shut'
  BY <1>0, <1>s DEF Shut
<1>5. TaskInv'
  BY <1>0, <1>s, <1>r, <1>a DEF TaskInv
<1>6. Baseline'
  BY <1>0, <1>s, <1>r, <1>a DEF Baseline, BaselineTrue, TaskInv, Kind, Modes
<1>8. Adding'
  BY <1>0 DEF Adding, Stages, Resolve, NextDirection, Running
<1>7. Restored'
  BY <1>0, <1>s, <1>r DEF Restored, TaskInv, AsBefore, RouteAsBefore
<1> QED BY <1>1, <1>2, <1>3, <1>4, <1>5, <1>6, <1>7, <1>8 DEF HostInv

\* The resolver task asks the OS to remove one.
LEMMA SendRemoveHost ==
    ASSUME HostInv, NEW c \in Cidrs, SendRemove(c) PROVE HostInv'
<1>0. /\ UNCHANGED <<session, engine, carry, override, hostDns, hostV6, policy, todo, guard, missed, dropped, unchecked,
                     owned, current>>
      /\ HostType /\ Stages /\ Adding /\ Undoable /\ Shut /\ TaskInv /\ Baseline /\ Restored
      /\ resolver.pc = "apply" /\ resolver.mode \in Modes
  BY DEF SendRemove, Running, HostInv, TaskInv, guardVars
<1>s. /\ Android' = Android /\ OnDesktop' = OnDesktop /\ HasDomains' = HasDomains /\ FullTunnel' = FullTunnel
      /\ (OnDesktop <=> ~Android) /\ SessionKnown /\ SessionKnown' /\ \A p : On(p)' = On(p)
      /\ \A m, d : Installable(m, d)' = Installable(m, d)
      /\ CarriedOverride' = CarriedOverride
  BY <1>0, Frame DEF HostType
<1>r. /\ resolver'.pc = "wait" /\ resolver'.mode = resolver.mode /\ resolver'.op = "del"
      /\ resolver'.cidr = c /\ resolver'.ok \in BOOLEAN /\ resolver'.dying = resolver.dying
      /\ resolver' = [pc |-> resolver'.pc, mode |-> resolver'.mode, add |-> resolver'.add,
                      del |-> resolver'.del, op |-> resolver'.op, cidr |-> resolver'.cidr,
                      ok |-> resolver'.ok, dying |-> resolver'.dying]
  BY <1>0 DEF SendRemove, TaskInv
<1>b. \/ /\ Installable(resolver.mode, c) /\ route[c] = Kind(resolver.mode) /\ resolver'.ok
         /\ route' = [route EXCEPT ![c] = "none"]
      \/ route' = route /\ (resolver'.ok => ~Installable(resolver.mode, c))
  BY <1>0 DEF SendRemove, TaskInv
<1>a. /\ route' \in [Cidrs -> {"none", "operator", "gateway", "tun"}]
      /\ \A d \in Cidrs : d # c => route'[d] = route[d]
      /\ route'[c] = "gateway" => route[c] = "gateway"
      /\ route[c] # Kind(resolver.mode) => route'[c] = route[c]
      /\ resolver'.ok /\ Installable(resolver.mode, c) => route'[c] # Kind(resolver.mode)
      /\ ~resolver'.ok /\ Installable(resolver.mode, c) => route'[c] = route[c]
      /\ Kind("exclude") = "gateway"
  BY <1>0, <1>b DEF HostType, Kind
<1>1. HostType'
  BY <1>0, <1>s, <1>a DEF HostType
<1>2. Stages'
  BY <1>0, <1>s, <1>r, <1>a DEF Stages, ToRoutes
<1>k. Kind(resolver.mode) # "operator"
  BY DEF Kind
<1>3. Undoable'
  BY <1>0, <1>s, <1>a, <1>k DEF Undoable, SavedPolicy
<1>4. Shut'
  BY <1>0, <1>s DEF Shut
<1>5. TaskInv'
  BY <1>0, <1>s, <1>r, <1>a DEF TaskInv
<1>6. Baseline'
  BY <1>0, <1>s, <1>r, <1>a DEF Baseline, BaselineTrue, TaskInv, Kind, Modes
<1>8. Adding'
  BY <1>0 DEF Adding, Stages, Resolve, NextDirection, Running
<1>7. Restored'
  BY <1>0, <1>s, <1>r DEF Restored, TaskInv, AsBefore, RouteAsBefore
<1> QED BY <1>1, <1>2, <1>3, <1>4, <1>5, <1>6, <1>7, <1>8 DEF HostInv

\* The OS answers the resolver task.
LEMMA AnsweredHost == HostInv /\ Answered => HostInv'
<1> SUFFICES ASSUME HostInv, Answered PROVE HostInv'
  OBVIOUS
<1>0. /\ UNCHANGED <<session, engine, carry, override, hostDns, hostV6, policy, todo, guard, missed, dropped, unchecked, route>>
      /\ HostType /\ Stages /\ Adding /\ Undoable /\ Shut /\ TaskInv /\ Baseline /\ Restored
      /\ resolver.pc = "wait" /\ resolver.mode \in Modes /\ resolver.cidr \in Cidrs
      /\ resolver.op \in {"add", "del"}
  BY DEF Answered, Running, HostInv, TaskInv, hostVars
<1>s. /\ Android' = Android /\ OnDesktop' = OnDesktop /\ HasDomains' = HasDomains /\ FullTunnel' = FullTunnel
      /\ (OnDesktop <=> ~Android) /\ SessionKnown /\ SessionKnown' /\ \A p : On(p)' = On(p)
      /\ \A m, c : Installable(m, c)' = Installable(m, c)
      /\ CarriedOverride' = CarriedOverride
  BY <1>0, Frame DEF HostType
<1>r. /\ resolver'.pc = "apply" /\ resolver'.mode = resolver.mode /\ resolver'.op = "none"
      /\ resolver'.ok = FALSE /\ resolver'.dying = resolver.dying
      /\ resolver' = [pc |-> resolver'.pc, mode |-> resolver'.mode, add |-> resolver'.add,
                      del |-> resolver'.del, op |-> resolver'.op, cidr |-> resolver'.cidr,
                      ok |-> resolver'.ok, dying |-> resolver'.dying]
  BY <1>0 DEF Answered, TaskInv
<1>a. /\ owned' = IF /\ resolver.ok /\ resolver.op = "del" /\ resolver.mode = "exclude"
                     /\ Installable(resolver.mode, resolver.cidr)
                  THEN owned \ {resolver.cidr} ELSE owned
      /\ current' = IF ~resolver.ok THEN current
                    ELSE [current EXCEPT ![resolver.mode] = IF resolver.op = "add"
                               THEN current[resolver.mode] \cup {resolver.cidr}
                               ELSE current[resolver.mode] \ {resolver.cidr}]
  BY <1>0 DEF Answered
<1>1. HostType'
  BY <1>0, <1>s, <1>a DEF HostType
<1>2. Stages'
  BY <1>0, <1>s, <1>r, <1>a DEF Stages, ToRoutes
<1>3. Undoable'
  BY <1>0, <1>s, <1>a DEF Undoable, SavedPolicy, TaskInv
<1>4. Shut'
  BY <1>0, <1>s DEF Shut
<1>5. TaskInv'
  BY <1>0, <1>s, <1>r, <1>a DEF TaskInv
<1>6. Baseline'
  BY <1>0, <1>s, <1>r, <1>a DEF Baseline, BaselineTrue, TaskInv, Kind, Modes
<1>8. Adding'
  BY <1>0 DEF Adding, Stages, Resolve, NextDirection, Running
<1>7. Restored'
  BY <1>0, <1>s, <1>r DEF Restored, TaskInv, AsBefore, RouteAsBefore
<1> QED BY <1>1, <1>2, <1>3, <1>4, <1>5, <1>6, <1>7, <1>8 DEF HostInv

\* The resolver task ends.
LEMMA ResolverStopsHost == HostInv /\ ResolverStops => HostInv'
<1> SUFFICES ASSUME HostInv, ResolverStops PROVE HostInv'
  OBVIOUS
<1>0. /\ UNCHANGED <<session, engine, carry, override, hostDns, hostV6, policy, todo, guard, missed, dropped, unchecked, route, owned,
                     current>>
      /\ HostType /\ Stages /\ Adding /\ Undoable /\ Shut /\ TaskInv /\ Baseline /\ Restored
      /\ resolver.dying /\ resolver.pc # "off" /\ resolver' = [NoTask EXCEPT !.dying = TRUE]
  BY DEF ResolverStops, HostInv, hostVars, guardVars
<1>s. /\ Android' = Android /\ OnDesktop' = OnDesktop /\ HasDomains' = HasDomains /\ FullTunnel' = FullTunnel
      /\ (OnDesktop <=> ~Android) /\ SessionKnown /\ SessionKnown' /\ \A p : On(p)' = On(p)
      /\ \A m, c : Installable(m, c)' = Installable(m, c)
      /\ CarriedOverride' = CarriedOverride
  BY <1>0, Frame DEF HostType
<1>a. engine # "pump"
  BY <1>0 DEF TaskInv, Stages
<1>r. /\ resolver'.pc = "off" /\ resolver'.mode \in Modes /\ resolver'.op = "none"
      /\ resolver'.ok = FALSE /\ resolver'.dying = TRUE
      /\ resolver' = [pc |-> resolver'.pc, mode |-> resolver'.mode, add |-> resolver'.add,
                      del |-> resolver'.del, op |-> resolver'.op, cidr |-> resolver'.cidr,
                      ok |-> resolver'.ok, dying |-> resolver'.dying]
  BY <1>0 DEF NoTask, Modes
<1>1. HostType'
  BY <1>0, <1>s, <1>a DEF HostType
<1>2. Stages'
  BY <1>0, <1>s, <1>r, <1>a DEF Stages, ToRoutes
<1>3. Undoable'
  BY <1>0, <1>s, <1>a DEF Undoable, SavedPolicy
<1>4. Shut'
  BY <1>0, <1>s DEF Shut
<1>5. TaskInv'
  BY <1>0, <1>s, <1>r, <1>a DEF TaskInv
<1>6. Baseline'
  BY <1>0, <1>s, <1>r, <1>a DEF Baseline, BaselineTrue, TaskInv, Kind, Modes
<1>8. Adding'
  BY <1>0 DEF Adding, Stages, Resolve, NextDirection, Running
<1>7. Restored'
  BY <1>0, <1>s, <1>r DEF Restored, TaskInv, AsBefore, RouteAsBefore
<1> QED BY <1>1, <1>2, <1>3, <1>4, <1>5, <1>6, <1>7, <1>8 DEF HostInv

-----------------------------------------------------------------------------
\* Every step keeps each change to the host undoable.
LEMMA HostStep == HostInv /\ [BridgeNext]_allVars => HostInv'
<1> SUFFICES ASSUME HostInv, [BridgeNext]_allVars PROVE HostInv'
  OBVIOUS
<1>0. HostType /\ Stages
  BY DEF HostInv
<1>1. ASSUME EngineStep PROVE HostInv'
  <2>1. ASSUME Launch \/ Prepare \/ JoinResolver PROVE HostInv'
    BY <2>1, HostSame DEF Launch, Prepare, JoinResolver, Host
  <2>2. ASSUME BeginRoutes \/ RoutesAdded \/ ForceDns \/ KillSwitch \/ Handover
               \/ (\E l \in todo : AddRoute(l))
        PROVE  ~Android
    <3>1. engine \in {"routes", "adding", "dns", "v6", "built"}
      <4>1. CASE BeginRoutes BY <4>1 DEF BeginRoutes
      <4>2. CASE RoutesAdded BY <4>2 DEF RoutesAdded
      <4>3. CASE ForceDns BY <4>3 DEF ForceDns
      <4>4. CASE KillSwitch BY <4>4 DEF KillSwitch
      <4>5. CASE Handover BY <4>5 DEF Handover
      <4>6. CASE \E l \in todo : AddRoute(l) BY <4>6 DEF AddRoute
      <4> QED BY <2>2, <4>1, <4>2, <4>3, <4>4, <4>5, <4>6
    <3> QED BY <1>0, <3>1, SessionFacts DEF HostType
  <2> QED BY <1>1, <2>1, <2>2, OpenDeviceHost, BeginRoutesHost, AddRouteHost,
             RoutesAddedHost, ForceDnsHost, KillSwitchHost,
             HandoverHost, PumpStopsHost, AbortResolverHost, TeardownBypassHost, DropGuardHost
          DEF EngineStep
<1>2. ASSUME ResolverStep PROVE HostInv'
  BY <1>2, QuietStepHost, SendAddHost, SendRemoveHost, AnsweredHost, ResolverStopsHost DEF ResolverStep
<1>3. ASSUME FlowNext \/ Cancel PROVE HostInv'
  <2>1. UNCHANGED <<Host, engine>>
    BY <1>3 DEF FlowNext, Accept, TcpEnds, UdpEnds, EchoEnds, Ends, FlowStep, Cancel, Host
  <2> QED BY <2>1, HostSame
<1>4. ASSUME NEW f \in Fds, Start(f) \/ Refresh(f) \/ RulesChanged(f) PROVE HostInv'
  <2>1. UNCHANGED Host /\ Android /\ engine' \in {engine, "dial"}
    BY <1>4 DEF Start, Refresh, RulesChanged, Reattach
  <2> QED BY <2>1, HostSame
<1>5. ASSUME NetworkChanged \/ (\E f \in Fds : HostCloses(f)) \/ EngineOver \/ UNCHANGED allVars
      PROVE  HostInv'
  <2>1. UNCHANGED <<Host, engine>>
    BY <1>5 DEF NetworkChanged, HostCloses, EngineOver, allVars, vars, Host
  <2> QED BY <2>1, HostSame
<1>6. ASSUME Stop \/ Dialed \/ Retry \/ AndroidStart \/ ReattachSeen \/ Retake PROVE HostInv'
  <2>1. UNCHANGED Host /\ engine' \in {"off", "new", "backoff", "dial", "pump", "done", "retake", "stopping"}
    BY <1>6 DEF Stop, Dialed, Retry, AndroidStart, ReattachSeen, Retake, TakeFd
  <2>2. Android
    BY <1>0, <1>6 DEF Stop, Dialed, Retry, AndroidStart, ReattachSeen, Retake, HostType
  <2> QED BY <2>1, <2>2, HostSame
<1> QED BY <1>1, <1>2, <1>3, <1>4, <1>5, <1>6, DropFutureHost DEF BridgeNext, EngineNext

\* The host starts untouched.
LEMMA HostStart == BridgeInit => HostInv
<1> SUFFICES ASSUME BridgeInit PROVE HostInv
  OBVIOUS
<1>0. /\ session \in Sessions /\ SessionKnown /\ engine = IF Android THEN "off" ELSE "launch"
      /\ carry = FALSE
      /\ route = [c \in Cidrs |-> IF c \in session.operator THEN "operator" ELSE "none"]
      /\ override = {} /\ hostDns = "host" /\ hostV6 = session.hostV6
      /\ guard = NoGuard /\ owned = {} /\ resolver = NoTask /\ current = [m \in Modes |-> {}]
      /\ dropped = FALSE /\ policy = session.policy
  BY DEF BridgeInit, EngineInit, SessionKnown, Android
<1>1. HostType
  BY <1>0, SessionFacts DEF HostType, GuardType, NoGuard
<1>2. Stages /\ Undoable
  BY <1>0 DEF Stages, ToRoutes, Undoable, NoGuard, NoTask, Modes
<1>3. Shut /\ Adding /\ Baseline /\ Restored
  BY <1>0 DEF Shut, Adding, Baseline, Restored
<1>4. TaskInv
  BY <1>0 DEF TaskInv, NoTask, Modes
<1> QED BY <1>1, <1>2, <1>3, <1>4 DEF HostInv

\* Whatever the session, the order in which the engine and the resolver act
\* and the OS calls that fail, a session whose guard was built leaves the
\* host as it found it.
THEOREM HostRestored == BridgeSpec => []Restored
<1>1. HostInv => Restored
  BY DEF HostInv
<1> QED BY <1>1, HostStart, HostStep, PTL DEF BridgeSpec

\* A full tunnel that is up lets nothing past it that the code did not at
\* least warn about.
THEOREM FailsClosed == BridgeSpec => []FailClosed
<1>1. HostInv => FailClosed
  BY SessionFacts, PlanFacts DEF HostInv, HostType, Shut, FailClosed, OnDesktop, FullTunnel
<1> QED BY <1>1, HostStart, HostStep, PTL DEF BridgeSpec

\* What the resolver believes installed is installed, between any two steps
\* of the engine and the task and whichever of its commands fail.
THEOREM BaselineHolds == BridgeSpec => []BaselineTrue
<1>1. HostInv => BaselineTrue
  BY DEF HostInv, Baseline, BaselineTrue
<1> QED BY <1>1, HostStart, HostStep, PTL DEF BridgeSpec
=============================================================================
