----------------------------- MODULE Supervisor -----------------------------
(***************************************************************************)
(* The proxy-mode connection supervisor of leshiy-client: the pure state   *)
(* machine `Machine' (supervisor.rs) and the actor that drives it          *)
(* (`Inner' and `run' in runtime.rs).                                      *)
(*                                                                         *)
(* The actor owns every field below; it is one tokio task, so each arm of  *)
(* its select! is one atomic step.  What runs beside it are the tasks it   *)
(* spawns (a dial, a backoff timer, the SOCKS listener and the watcher of  *)
(* tunnel.closed()), which talk back over channels and tag what they send  *)
(* with the generation they were spawned in.  abort() is asynchronous: a   *)
(* task that is aborted may still have delivered its message.              *)
(*                                                                         *)
(* Time is abstracted: a timer may fire at any moment, so `attempt' and    *)
(* the length of the delay are not represented.                            *)
(***************************************************************************)
EXTENDS Naturals, Sequences

CONSTANTS
    CmdCap,       \* slots of the command channel (16 in spawn_supervisor)
    MaxEvents     \* bound on user commands, tunnel drops and dial failures

ASSUME BoundsAssumption == CmdCap \in Nat \ {0} /\ MaxEvents \in Nat

VARIABLES
    \* Machine
    state, kill_switch, proxy_set, online,
    \* Inner: generation counter, the dial's JoinHandle, the tunnel held, the
    \* listener + closed monitor (the generation they serve), the watch channel
    generation, dial, current, serving, published,
    \* the operating system's proxy setting
    osProxy,
    \* spawned tasks and the messages they sent
    dialing, results, timers, drops,
    \* the command channel, whether handles/the actor live, events so far
    cmds, phase, events

machine == <<state, kill_switch, proxy_set, online>>
shell   == <<generation, dial, current, serving, published>>
tasks   == <<dialing, results, timers, drops>>
outside == <<cmds, phase, events>>
vars    == <<machine, shell, osProxy, tasks, outside>>

State    == {"Disconnected", "Connecting", "Connected", "Reconnecting", "Error"}
Command  == {"Connect", "Disconnect", "Online", "Offline"}
Watcher  == {"listener", "monitor"}
NoGen    == 0     \* Option::None where a generation is expected

TypeOK ==
    /\ state \in State
    /\ published \in State
    /\ kill_switch \in BOOLEAN
    /\ proxy_set \in BOOLEAN
    /\ online \in BOOLEAN
    /\ generation \in Nat
    /\ dial \in Nat
    /\ current \in Nat
    /\ serving \in Nat
    /\ osProxy \in {"off", "on"}
    /\ dialing \subseteq Nat
    /\ results \subseteq [gen : Nat, ok : BOOLEAN]
    /\ timers \subseteq Nat
    /\ drops \subseteq Nat \X Watcher
    /\ cmds \in Seq(Command)
    /\ phase \in {"running", "closing", "stopped"}
    /\ events \in Nat

\* spawn_supervisor with Machine::new: nothing runs and no proxy is set.
Init ==
    /\ state = "Disconnected" /\ published = "Disconnected"
    /\ kill_switch \in BOOLEAN
    /\ proxy_set = FALSE /\ online = TRUE
    /\ generation = 0 /\ dial = NoGen /\ current = NoGen /\ serving = NoGen
    /\ osProxy = "off"
    /\ dialing = {} /\ results = {} /\ timers = {} /\ drops = {}
    /\ cmds = <<>> /\ phase = "running" /\ events = 0

-----------------------------------------------------------------------------
(* Side effects: the arms of Inner::apply.                                 *)

\* Action::Dial: skipped while a dial is in flight, else a new generation.
DoDial ==
    IF dial # NoGen
      THEN UNCHANGED <<generation, dial, dialing>>
      ELSE /\ generation' = generation + 1
           /\ dial' = generation + 1
           /\ dialing' = dialing \cup {generation + 1}

\* Action::ScheduleBackoff: a detached timer tagged with the generation.
DoScheduleBackoff == timers' = timers \cup {generation}

\* Action::StopServing: abort listener and monitor, drop the tunnel.
DoStopServing == serving' = NoGen /\ current' = NoGen

\* machine.state = s and Action::Emit(s), which end every transition.
Enter(s) == state' = s /\ published' = s

\* Input::ServiceFailed, fed from inside apply() when a local step failed.
DoServiceFailed ==
    /\ Enter("Error")
    /\ proxy_set' = FALSE
    /\ DoStopServing

\* Mutant: the flag survives the clear.
ClearOkKeepFlag(s) == osProxy' = "off" /\ UNCHANGED proxy_set /\ Enter(s)

\* What a clear() that failed leaves: its first command (GNOME's mode, the
\* first network service, ProxyEnable) ran or did not.
AfterFailedClear == {osProxy, "off"}

\* What a set() that failed leaves once clear() has tried to undo it, on macOS
\* within set() as well.
AfterFailedSet == {osProxy, "on", "off"}

\* Action::ClearProxy followed by Emit(s); a failed clear() turns the
\* transition into ServiceFailed.
ClearOk(s)  == osProxy' = "off" /\ proxy_set' = FALSE /\ Enter(s)
ClearFailed == osProxy' \in AfterFailedClear /\ DoServiceFailed

-----------------------------------------------------------------------------
(* SupervisorHandle: try_send on the bounded channel, the result ignored.  *)

Send(c) ==
    /\ phase = "running"
    /\ events < MaxEvents
    /\ events' = events + 1
    /\ cmds' = IF Len(cmds) < CmdCap THEN Append(cmds, c) ELSE cmds
    /\ UNCHANGED <<machine, shell, osProxy, tasks, phase>>

\* The last handle is dropped: the channel closes behind what it holds.
DropHandles ==
    /\ phase = "running"
    /\ phase' = "closing"
    /\ UNCHANGED <<machine, shell, osProxy, tasks, cmds, events>>

-----------------------------------------------------------------------------
(* The tasks beside the actor.                                             *)

DialDelivers(g, ok) ==
    /\ g \in dialing
    /\ dialing' = dialing \ {g}
    /\ results' = results \cup {[gen |-> g, ok |-> ok]}
    /\ UNCHANGED <<machine, shell, osProxy, timers, drops, cmds, phase>>

DialSucceeds(g) == DialDelivers(g, TRUE) /\ UNCHANGED events
DialFails(g) ==
    /\ events < MaxEvents
    /\ events' = events + 1
    /\ DialDelivers(g, FALSE)

\* An abort()ed dial task stops at its next await.
DialAborted(g) ==
    /\ g \in dialing \ {dial}
    /\ dialing' = dialing \ {g}
    /\ UNCHANGED <<machine, shell, osProxy, results, timers, drops, outside>>

\* The tunnel closed, or accept() failed: the watcher reports its generation.
ServiceDrops(w) ==
    /\ serving # NoGen
    /\ <<serving, w>> \notin drops
    /\ events < MaxEvents
    /\ events' = events + 1
    /\ drops' = drops \cup {<<serving, w>>}
    /\ UNCHANGED <<machine, shell, osProxy, dialing, results, timers, cmds, phase>>

-----------------------------------------------------------------------------
(* The actor: one action per select! arm and input.                        *)

Live == phase # "stopped"

\* Machine::handle(Connect), reached only from Disconnected | Error.
OnConnect ==
    IF state \in {"Disconnected", "Error"}
      THEN /\ Enter("Connecting")
           /\ DoDial
           /\ UNCHANGED <<kill_switch, proxy_set, online, current, serving,
                          osProxy, results, timers, drops>>
      ELSE UNCHANGED <<machine, shell, osProxy, tasks>>

\* Mutant: Connecting not handled.
NothingToStopWhileConnecting == state \in {"Disconnected", "Connecting"}
\* Machine::handle(Disconnect) by state: a no-op when Disconnected; the proxy
\* is cleared unconditionally where a failure may have retained it.
NothingToStop == state = "Disconnected"
ServesOrFailed == state \in {"Error", "Connected"}
MustClear == state \in {"Error", "Connecting"} \/ proxy_set

\* Command::Disconnect: retire the generation and the dial, then handle().
OnDisconnect ==
    /\ generation' = generation + 1
    /\ dial' = NoGen
    /\ IF NothingToStop
         THEN UNCHANGED <<state, proxy_set, current, serving, published, osProxy>>
         ELSE \/ /\ MustClear
                 /\ ClearFailed
              \/ /\ IF MustClear THEN ClearOk("Disconnected")
                                 ELSE Enter("Disconnected") /\ UNCHANGED <<proxy_set, osProxy>>
                 /\ IF ServesOrFailed THEN DoStopServing
                                      ELSE UNCHANGED <<current, serving>>
    /\ UNCHANGED <<kill_switch, online, tasks>>

\* Mutant: connectivity is recorded but does not resume a parked reconnect.
OnConnectivityRecordOnly(o) ==
    /\ online' = o
    /\ UNCHANGED <<state, kill_switch, proxy_set, shell, osProxy, tasks>>

\* Machine::handle(Connectivity(o)): parked reconnects resume at once.
OnConnectivity(o) ==
    /\ online' = o
    /\ IF state = "Reconnecting" /\ o /\ ~online
         THEN DoDial
         ELSE UNCHANGED <<generation, dial, dialing>>
    /\ UNCHANGED <<state, kill_switch, proxy_set, current, serving, published,
                   osProxy, results, timers, drops>>

RecvCommand ==
    /\ Live /\ cmds # <<>>
    /\ cmds' = Tail(cmds)
    /\ \/ Head(cmds) = "Connect"    /\ OnConnect
       \/ Head(cmds) = "Disconnect" /\ OnDisconnect
       \/ Head(cmds) = "Online"     /\ OnConnectivity(TRUE)
       \/ Head(cmds) = "Offline"    /\ OnConnectivity(FALSE)
    /\ UNCHANGED <<phase, events>>

\* recv() returned None: run() leaves its loop through a last Disconnect.
RecvClosed ==
    /\ phase = "closing" /\ cmds = <<>>
    /\ phase' = "stopped"
    /\ OnDisconnect
    /\ UNCHANGED <<cmds, events>>

\* Action::StartServing bound the listener (and spawned both watchers), then
\* SetProxy unless the proxy is still set, then Connected.
StartServingOk ==
    /\ current' = generation /\ serving' = generation
    /\ proxy_set' = TRUE
    /\ osProxy' = IF proxy_set THEN osProxy ELSE "on"
    /\ Enter("Connected")
    /\ UNCHANGED drops

StartServingBindFailed == DoServiceFailed /\ UNCHANGED <<osProxy, drops>>

\* set() failed half way and clear() tried to undo it; the watchers spawned a
\* moment ago may have reported already.
SetProxyFailed ==
    /\ ~proxy_set
    /\ osProxy' \in AfterFailedSet
    /\ DoServiceFailed
    /\ drops' \in {drops, drops \cup {<<generation, "monitor">>}}

\* on_dial_result with Machine::handle(DialSucceeded); a tunnel that nobody
\* adopts is dropped again.
OnDialSucceeded ==
    IF state \in {"Connecting", "Reconnecting"}
      THEN StartServingOk \/ StartServingBindFailed \/ SetProxyFailed
      ELSE /\ current' = IF state = "Connected" THEN generation ELSE NoGen
           /\ UNCHANGED <<state, proxy_set, serving, published, osProxy, drops>>

\* Machine::handle(DialFailed): the first dial gives up, a later one retries.
OnDialFailed ==
    /\ IF state = "Connecting" THEN Enter("Error") ELSE UNCHANGED <<state, published>>
    /\ IF state = "Reconnecting" THEN DoScheduleBackoff ELSE UNCHANGED timers
    /\ UNCHANGED <<proxy_set, current, serving, osProxy, drops>>

RecvDial(r) ==
    /\ Live /\ r \in results
    /\ results' = results \ {r}
    /\ IF r.gen # generation
         THEN UNCHANGED <<machine, shell, osProxy, timers, drops>>
         ELSE /\ dial' = NoGen
              /\ \/ r.ok /\ OnDialSucceeded /\ UNCHANGED timers
                 \/ ~r.ok /\ OnDialFailed
              /\ UNCHANGED <<kill_switch, online, generation>>
    /\ UNCHANGED <<dialing, outside>>

\* The backoff arm with Machine::handle(BackoffElapsed).
RecvBackoff(g) ==
    /\ Live /\ g \in timers
    /\ timers' = timers \ {g}
    /\ IF g = generation /\ state = "Reconnecting" /\ online
         THEN DoDial
         ELSE UNCHANGED <<generation, dial, dialing>>
    /\ UNCHANGED <<machine, current, serving, published, osProxy, results,
                   drops, outside>>

\* Mutant: the kill switch is not consulted.
DropClearsAlways == proxy_set

\* Machine::handle(TunnelDropped): keep the proxy under the kill switch,
\* otherwise clear it; retry after a backoff.
DropClears == ~kill_switch /\ proxy_set

OnTunnelDropped ==
    IF state # "Connected"
      THEN UNCHANGED <<state, proxy_set, current, serving, published, osProxy, timers>>
      ELSE \/ /\ DropClears
              /\ ClearFailed
              /\ UNCHANGED timers
           \/ /\ IF DropClears THEN ClearOk("Reconnecting")
                               ELSE Enter("Reconnecting") /\ UNCHANGED <<proxy_set, osProxy>>
              /\ DoStopServing
              /\ DoScheduleBackoff

RecvDropped(d) ==
    /\ Live /\ d \in drops
    /\ drops' = drops \ {d}
    /\ IF d[1] = generation
         THEN OnTunnelDropped
         ELSE UNCHANGED <<state, proxy_set, current, serving, published, osProxy, timers>>
    /\ UNCHANGED <<kill_switch, online, generation, dial, dialing, results, outside>>

-----------------------------------------------------------------------------

Actor ==
    \/ RecvCommand
    \/ RecvClosed
    \/ \E r \in results : RecvDial(r)
    \/ \E g \in timers : RecvBackoff(g)
    \/ \E d \in drops : RecvDropped(d)

Tasks ==
    \/ \E g \in dialing : DialSucceeds(g) \/ DialFails(g) \/ DialAborted(g)
    \/ \E w \in Watcher : ServiceDrops(w)

Next ==
    \/ \E c \in Command : Send(c)
    \/ DropHandles
    \/ Actor
    \/ Tasks

\* select! polls its ready arms in random order and messages stay queued, so
\* every arm that stays ready is taken; a dial ends (its connects carry
\* timeouts).  Nothing forces users, networks or timers of other parties.
Fairness ==
    /\ WF_vars(RecvCommand)
    /\ WF_vars(RecvClosed)
    /\ WF_vars(\E r \in results : RecvDial(r))
    /\ WF_vars(\E g \in timers : RecvBackoff(g))
    /\ WF_vars(\E d \in drops : RecvDropped(d))
    /\ WF_vars(\E g \in dialing : DialSucceeds(g) \/ DialFails(g))

Spec     == Init /\ [][Next]_vars
FairSpec == Spec /\ Fairness

-----------------------------------------------------------------------------
(* What the user is promised, as the abstract specification ProxySession.  *)

Session == INSTANCE ProxySession
             WITH ui <- published, proxy <- osProxy, kill <- kill_switch

\* The supervisor, with its tasks, channels and failures, implements the
\* promise: the published states and the OS proxy only move together and
\* only along the contract's edges.
ImplementsSession == Session!Spec

-----------------------------------------------------------------------------
(* Properties.                                                             *)

\* A dial's JoinHandle is kept exactly while its outcome is still to come.
DialPending ==
    /\ dial = generation
    /\ dial \in dialing \/ \E r \in results : r.gen = dial

\* Machine + apply: whoever waits has something to wait for.  Connecting
\* always has a dial under way; Reconnecting has a dial, or the timer of this
\* very generation (a stale one would be ignored), or is parked offline
\* waiting for Connectivity(true).  No interleaving of commands, timers and
\* results strands the supervisor.
NoStrandedWait ==
    /\ state = "Connecting" => DialPending
    /\ state = "Reconnecting" => DialPending \/ generation \in timers \/ ~online

\* apply(Dial)/ScheduleBackoff: one retry chain.  While a dial is in flight
\* or the tunnel is up, no timer of the live generation is pending, so a
\* second dial is never started from a left-over timer.
OneRetryChain ==
    dial # NoGen \/ state = "Connected" => generation \notin timers

\* on_dial_result, StopServing: a tunnel is held and served only while
\* Connected, and it is the tunnel of the live generation.
NoLeakedTunnel ==
    /\ state = "Connected" => current = generation /\ serving = generation
    /\ state # "Connected" => current = NoGen /\ serving = NoGen

\* apply() emits Connected last: whoever observes Connected finds the
\* listener bound and the OS proxy pointing at it.
ConnectedIsReady ==
    published = "Connected" => serving # NoGen /\ osProxy = "on"

\* Disconnected is only published once the proxy is known to be gone, even
\* when earlier failures retained it (the ServiceFailed paths).
DisconnectedRestoresProxy == published = "Disconnected" => osProxy = "off"

\* While reconnecting, the OS proxy is up exactly under the kill switch:
\* apps fail closed with it and go direct without it.
ReconnectingProxyPolicy ==
    state = "Reconnecting" => ((osProxy = "on") <=> kill_switch)

\* The OS proxy and what the user is shown never disagree: the three
\* promises above, which apply()'s order of actions and the ServiceFailed
\* paths have to keep together.
ProxyFollowsState ==
    ConnectedIsReady /\ DisconnectedRestoresProxy /\ ReconnectingProxyPolicy

\* TunnelDropped/ServiceFailed under the kill switch: once a session is up,
\* only the user's Disconnect (or the failed set() of a later Connect, which
\* calls clear()) takes the OS proxy away.
KillSwitchHolds ==
    [][ kill_switch /\ osProxy = "on" /\ osProxy' = "off"
          => \/ generation' = generation + 1 /\ dial' = NoGen
             \/ state = "Connecting" ]_vars

\* A Disconnect that got into the channel takes effect: the user sees
\* Disconnected, or Error when the proxy could not be cleared.
DisconnectHonoured ==
    (\E i \in 1..Len(cmds) : cmds[i] = "Disconnect")
        ~> published \in {"Disconnected", "Error"}
=============================================================================
