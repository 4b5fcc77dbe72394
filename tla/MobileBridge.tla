---------------------------- MODULE MobileBridge ----------------------------
(***************************************************************************)
(* The Android side of the engine: LeshiyBridge (crates/leshiy-mobile/src/ *)
(* bridge.rs), the task that dials and then runs the engine (runtime.rs),  *)
(* the hand-over of interface descriptors (leshiy-tun sys/pending_fd.rs,   *)
(* sys/android.rs), resolution through the tunnel (dns.rs), and the host   *)
(* service that drives them (LeshiyVpnService.kt).                         *)
(*                                                                         *)
(* Calls of the bridge hold its lock and are steps of their own.  stop     *)
(* drops the engine at its next suspension point within STOP_GRACE; the    *)
(* engine's polls are short, so the step that ends it is stop's.           *)
(***************************************************************************)
EXTENDS TunEngine

CONSTANTS MaxPerHost        \* addresses taken per host

VARIABLES
    running,     \* LeshiyBridge.inner is Some
    status,      \* the ConnState the host is shown
    slot,        \* the tunnel slot has been filled
    kick,        \* the latched permit of the kick Notify
    given,       \* the interfaces the host has established
    baked,       \* domainRoutes: addresses baked into the interface
    refused,     \* the fds native code refused
    rejected     \* those of them the host has yet to close

bridgeVars == <<running, status, slot, kick, given, baked, refused, rejected>>
allVars == <<vars, bridgeVars>>

Android == session.platform = "android"

BridgeInit ==
    /\ EngineInit
    /\ running = FALSE /\ status = "disconnected" /\ slot = FALSE /\ kick = FALSE
    /\ given = {} /\ baked = {} /\ refused = {} /\ rejected = {}

\* What no step of this module but start touches
Host == <<session, carry, hostVars, todo, guardVars, taskVars, dropped, unchecked>>

-----------------------------------------------------------------------------
(* Descriptors.                                                            *)

Closed(cl, fs) == [f \in Fds |-> IF f \in fs THEN cl[f] + 1 ELSE cl[f]]

\* Mutant: the slot's old owner is forgotten instead of dropped.
SetTunFdForgets(f) == pending' = f /\ UNCHANGED closes

\* set_tun_fd: the descriptor it replaces is closed by its owner's drop
SetTunFd(f) ==
    /\ pending' = f
    /\ closes' = Closed(closes, {pending} \cap Fds)

\* A refused call drops the PendingTunFd it had made, which closes the fd.
Refused(f) ==
    /\ closes' = Closed(closes, {f})
    /\ refused' = refused \cup {f} /\ rejected' = rejected \cup {f}
    /\ UNCHANGED pending

\* The host closes the descriptor of a refused call once more.  By then its
\* number may belong to whatever the process opened in between; here a
\* descriptor is an identity, so the count tells a second close.
HostCloses(f) ==
    /\ f \in rejected
    /\ closes' = Closed(closes, {f}) /\ rejected' = rejected \ {f}
    /\ UNCHANGED <<Host, engine, device, cancel, reattach, pending, flows, faults, running,
                   status, slot, kick, given, baked, refused>>

-----------------------------------------------------------------------------
(* The bridge's calls.                                                     *)

Establish(f) == f \in Fds \ given /\ given' = given \cup {f}

\* start: refused while a session runs or when the URI does not parse
Start(f) ==
    /\ Android /\ Establish(f)
    /\ \/ /\ ~running /\ SetTunFd(f)
          /\ running' = TRUE /\ status' = "connecting" /\ slot' = FALSE /\ kick' = FALSE
          /\ reattach' = FALSE /\ cancel' = FALSE /\ engine' = "dial"
          /\ flows' = NoFlows
          /\ baked' = {} /\ UNCHANGED <<refused, rejected>>
       \/ /\ Refused(f)
          /\ UNCHANGED <<running, status, slot, kick, reattach, cancel, engine, flows, baked>>
    /\ UNCHANGED <<Host, device, faults>>

\* reattach_tun: the permit is latched, so it is not lost between selects
Reattach(f) ==
    /\ Establish(f)
    /\ IF running THEN SetTunFd(f) /\ reattach' = TRUE /\ UNCHANGED <<refused, rejected>>
       ELSE Refused(f) /\ UNCHANGED reattach
    /\ UNCHANGED <<Host, engine, device, cancel, flows, faults, running, status, slot, kick>>

NetworkChanged ==
    /\ running /\ ~kick /\ kick' = TRUE
    /\ UNCHANGED <<Host, engine, device, cancel, fdVars, flows, faults, running, status, slot,
                   given, baked, refused, rejected>>

\* stop: the runtime is shut down and with it every task; what nobody took
\* is closed.
Stop ==
    /\ Android /\ running
    /\ running' = FALSE /\ status' = "disconnected" /\ slot' = FALSE
    /\ engine' = "off" /\ device' = NoFd /\ pending' = NoFd
    /\ closes' = Closed(closes, {device, pending} \cap Fds)
    /\ flows' = NoFlows
    /\ UNCHANGED <<Host, cancel, reattach, faults, kick, given, baked, refused, rejected>>

-----------------------------------------------------------------------------
(* Resolving the host's domain rules through the tunnel.                   *)

\* One exchange asks for A and AAAA under two ids; a reply counts if it
\* answers an id still open, parses and carries no error.
ParseAnswers(r, id) == IF r.id = id /\ r.ok THEN r.addrs ELSE {}
Exchange(ids, replies) == UNION {ParseAnswers(r, id) : r \in replies, id \in ids}

Replies(d) == {[id |-> 0, ok |-> TRUE, addrs |-> Answers[d] \cap V4],
               [id |-> 1, ok |-> FALSE, addrs |-> Answers[d] \cap V6],
               [id |-> 7, ok |-> TRUE, addrs |-> V4]}
ResolveHost(d, replies) ==
    LET addrs == Exchange({0, 1}, replies)
    IN  {k \in SUBSET addrs : Cardinality(k) <= MaxPerHost
                              /\ (Cardinality(addrs) <= MaxPerHost => k = addrs)}
ResolveAll == UNION {ResolveHost(d, rs) : d \in DomainsOf("exclude"), rs \in SUBSET
                        UNION {Replies(d) : d \in DomainsOf("exclude")}}

\* resolve_via_tunnel: nothing before the tunnel is up or after it is gone
ResolveViaTunnel ==
    IF running /\ slot /\ engine \notin {"done", "off"} THEN ResolveAll ELSE {{}}

\* refreshDomainRoutes: the interface is replaced only when the union grew.
Refresh(f) ==
    /\ Android /\ running
    /\ \E fresh \in ResolveViaTunnel :
          ~(fresh \subseteq baked) /\ baked' = baked \cup fresh
    /\ Reattach(f)

\* scheduleReconfigure: the user edits the rules of a started session
RulesChanged(f) ==
    /\ Android /\ baked' = {} /\ Reattach(f)

-----------------------------------------------------------------------------
(* run_engine: dial until it succeeds, then run the engine.                *)

Dialed ==
    /\ engine = "dial"
    /\ \/ engine' = "new" /\ status' = "connected" /\ slot' = TRUE /\ UNCHANGED faults
       \/ engine' = "backoff" /\ status' = "failed" /\ Fails /\ UNCHANGED slot
    /\ UNCHANGED <<Host, device, cancel, fdVars, flows, running, kick, given, baked, refused, rejected>>

\* retry_until: a kick cuts the wait short
Retry ==
    /\ engine = "backoff"
    /\ engine' = "dial" /\ kick' \in {FALSE, kick}
    /\ UNCHANGED <<Host, device, cancel, fdVars, flows, faults, running, status, slot, given,
                   baked, refused, rejected>>

\* device_from_injected_fd: fails if no fd was injected
TakeFd(done) ==
    IF pending = NoFd THEN engine' = done /\ UNCHANGED <<device, pending>>
    ELSE engine' = "pump" /\ device' = pending /\ pending' = NoFd

AndroidStart ==
    /\ Android /\ engine = "device"
    /\ TakeFd("done")
    /\ UNCHANGED <<Host, cancel, reattach, closes, flows, faults, bridgeVars>>

\* pump's second select arm: the old device is closed before the new one is
\* taken.
ReattachSeen ==
    /\ Android /\ engine = "pump" /\ reattach
    /\ reattach' = FALSE /\ engine' = "retake" /\ device' = NoFd
    /\ closes' = Closed(closes, {device})
    /\ UNCHANGED <<Host, cancel, pending, flows, faults, bridgeVars>>

\* Mutant: a new device comes with a new semaphore.
RetakeAnew ==
    /\ engine = "retake"
    /\ TakeFd("stopping")
    /\ flows' = [flows EXCEPT !.permits = FlowCap]
    /\ UNCHANGED <<Host, cancel, reattach, closes, faults, bridgeVars>>

Retake ==
    /\ engine = "retake"
    /\ TakeFd("stopping")
    /\ UNCHANGED <<Host, cancel, reattach, closes, flows, faults, bridgeVars>>

\* The engine has ended by itself; the bridge keeps its Running until stop.
EngineOver ==
    /\ Android /\ engine = "done" /\ status # "failed"
    /\ status' = "failed"
    /\ UNCHANGED <<vars, running, slot, kick, given, baked, refused, rejected>>

BridgeNext ==
    \/ EngineNext /\ UNCHANGED bridgeVars
    \/ \E f \in Fds : Start(f) \/ Refresh(f) \/ RulesChanged(f) \/ HostCloses(f)
    \/ NetworkChanged \/ Stop
    \/ Dialed \/ Retry \/ AndroidStart \/ ReattachSeen \/ Retake \/ EngineOver

BridgeSpec == BridgeInit /\ [][BridgeNext]_allVars

-----------------------------------------------------------------------------
\* Every interface the host ever handed over is open exactly as long as the
\* running session holds it, waiting in the slot or wrapped by the device,
\* and none outlives stop.  Native code closes each once, never twice and
\* never while it is held; a second close comes from the host alone, and for
\* exactly the descriptors of refused calls (bridge.rs start, reattach_tun
\* and stop; pending_fd.rs; LeshiyVpnService.kt startBridge, reestablish).
FdsHeld ==
    \A f \in given :
        closes[f] = IF running /\ f \in {device, pending} THEN 0
                    ELSE IF f \in refused \ rejected THEN 2 ELSE 1

\* Changing the rules of a session keeps the session: when the engine
\* exchanges its device, the descriptor it was signalled for is there
\* (bridge.rs reattach_tun, engine.rs pump).
ReattachFindsFd == engine = "retake" => pending # NoFd
=============================================================================
