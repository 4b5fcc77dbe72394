-------------------------- MODULE SupervisorProofs --------------------------
(***************************************************************************)
(* The supervisor's safety for every channel size and any number of        *)
(* events: the inductive invariant IInv, the properties it implies and     *)
(* the refinement of ProxySession.                                         *)
(***************************************************************************)
EXTENDS Supervisor, TLAPS

\* Generation tags: nothing is tagged with a generation still to come, and a
\* dial task or result of the live generation belongs to the dial in flight.
\* A dial task delivers once.
TasksTagged ==
    /\ \A g \in timers : g <= generation
    /\ \A g \in dialing : g \in 1..generation /\ (g = generation => dial = g)
    /\ \A r \in results : r.gen \in 1..generation /\ (r.gen = generation => dial = r.gen)
    /\ \A r \in results : r.gen \notin dialing
    /\ \A r, q \in results : r.gen = q.gen => r = q

\* The JoinHandle is held only in the states that await a dial.
DialTracked ==
    /\ dial # NoGen => DialPending /\ state \in {"Connecting", "Reconnecting"}
    /\ state = "Connecting" => dial # NoGen
    /\ state = "Reconnecting" => dial # NoGen \/ generation \in timers \/ ~online

\* What the machine's flag and the OS setting are, by state.
ProxyTracked ==
    /\ proxy_set => state \in {"Connected", "Reconnecting"}
    /\ state = "Connected" => proxy_set /\ osProxy = "on"
    /\ state = "Reconnecting" =>
          (proxy_set <=> kill_switch) /\ ((osProxy = "on") <=> kill_switch)
    /\ state = "Disconnected" => osProxy = "off"

IInv ==
    /\ TypeOK
    /\ published = state
    /\ TasksTagged
    /\ DialTracked
    /\ OneRetryChain
    /\ NoLeakedTunnel
    /\ ProxyTracked
    /\ state = "Connected" => generation # 0

-----------------------------------------------------------------------------
(* IInv does not depend on the channel, the phase and the event counter.   *)

\* Sending a command or ignoring one keeps the invariant.
LEMMA StutterKeeps ==
  ASSUME IInv, UNCHANGED <<machine, shell, osProxy, tasks>>, cmds' \in Seq(Command),
         phase' \in {"running", "closing", "stopped"}, events' \in Nat
  PROVE  IInv'
<1> USE DEF machine, shell, tasks
<1>1. TypeOK' /\ TasksTagged'
  BY DEF IInv, TypeOK, TasksTagged
<1>2. DialTracked' /\ OneRetryChain' /\ NoLeakedTunnel'
  BY DEF IInv, DialTracked, DialPending, OneRetryChain, NoLeakedTunnel
<1>3. ProxyTracked' /\ (published = state)' /\ (state = "Connected" => generation # 0)'
  BY DEF IInv, ProxyTracked
<1> QED BY <1>1, <1>2, <1>3 DEF IInv

-----------------------------------------------------------------------------
(* The three command handlers, shared by RecvCommand and RecvClosed.       *)

\* Machine::handle(Connect) keeps the invariant.
LEMMA ConnectKeeps ==
  ASSUME IInv, OnConnect, cmds' \in Seq(Command),
         phase' \in {"running", "closing", "stopped"}, events' = events
  PROVE  IInv'
<1>1. CASE state \notin {"Disconnected", "Error"}
  <2>1. UNCHANGED <<machine, shell, osProxy, tasks>> /\ events' \in Nat
    BY <1>1 DEF OnConnect, IInv, TypeOK
  <2> QED BY <2>1, StutterKeeps
<1>2. CASE state \in {"Disconnected", "Error"}
  <2> USE <1>2 DEF IInv, NoGen
  <2>1. dial = 0
    BY DEF DialTracked
  <2>2. /\ state' = "Connecting" /\ published' = "Connecting"
        /\ generation' = generation + 1 /\ dial' = generation + 1
        /\ dialing' = dialing \cup {generation + 1}
        /\ UNCHANGED <<kill_switch, proxy_set, online, current, serving,
                       osProxy, results, timers, drops>>
    BY <2>1 DEF OnConnect, DoDial, Enter
  <2>3. TypeOK'
    BY <2>2 DEF TypeOK, State
  <2>4. TasksTagged'
    BY <2>2 DEF TypeOK, TasksTagged
  <2>5. DialTracked' /\ OneRetryChain'
    BY <2>2 DEF TypeOK, TasksTagged, DialTracked, DialPending, OneRetryChain
  <2>6. NoLeakedTunnel' /\ ProxyTracked'
    BY <2>2 DEF TypeOK, NoLeakedTunnel, ProxyTracked
  <2> QED BY <2>2, <2>3, <2>4, <2>5, <2>6
<1> QED BY <1>1, <1>2

\* Command::Disconnect keeps the invariant: it retires the generation, so every
\* pending task becomes stale at once.
LEMMA DisconnectKeeps ==
  ASSUME IInv, OnDisconnect, cmds' \in Seq(Command),
         phase' \in {"running", "closing", "stopped"}, events' = events
  PROVE  IInv'
<1> USE DEF IInv, NoGen
<1>1. /\ generation' = generation + 1 /\ dial' = 0
      /\ UNCHANGED <<kill_switch, online, dialing, results, timers, drops>>
  BY DEF OnDisconnect, tasks
<1>2. /\ state' \in {"Disconnected", "Error"} /\ published' = state'
      /\ proxy_set' = FALSE
      /\ osProxy' \in {"off", osProxy}
      /\ state' = "Disconnected" => osProxy' = "off"
      /\ current' = 0 /\ serving' = 0
  BY DEF OnDisconnect, NothingToStop, MustClear, ServesOrFailed, ClearFailed, AfterFailedClear, ClearOk,
     DoServiceFailed, DoStopServing, Enter, ProxyTracked, NoLeakedTunnel, TypeOK, State
<1>3. TypeOK'
  <2>1. state' \in State /\ published' \in State /\ proxy_set' \in BOOLEAN
        /\ osProxy' \in {"off", "on"} /\ current' \in Nat /\ serving' \in Nat
    BY <1>2 DEF TypeOK, State
  <2> QED BY <1>1, <2>1 DEF TypeOK
<1>4. TasksTagged'
  BY <1>1 DEF TypeOK, TasksTagged
<1>5. DialTracked' /\ OneRetryChain'
  BY <1>1, <1>2 DEF TypeOK, TasksTagged, DialTracked, OneRetryChain
<1>6. NoLeakedTunnel' /\ ProxyTracked'
  BY <1>1, <1>2 DEF NoLeakedTunnel, ProxyTracked
<1> QED BY <1>1, <1>2, <1>3, <1>4, <1>5, <1>6

\* Connectivity(o) keeps the invariant: coming back online while parked dials.
LEMMA ConnectivityKeeps ==
  ASSUME NEW o \in BOOLEAN, IInv, OnConnectivity(o), cmds' \in Seq(Command),
         phase' \in {"running", "closing", "stopped"}, events' = events
  PROVE  IInv'
<1> USE DEF IInv, NoGen
<1>0. /\ online' = o
      /\ UNCHANGED <<state, kill_switch, proxy_set, current, serving, published,
                     osProxy, results, timers, drops>>
  BY DEF OnConnectivity
<1>1. CASE UNCHANGED <<generation, dial, dialing>>
             /\ (dial # NoGen \/ ~(state = "Reconnecting" /\ o /\ ~online))
  <2>1. TypeOK' /\ TasksTagged'
    BY <1>0, <1>1 DEF TypeOK, TasksTagged
  <2>2. DialTracked' /\ OneRetryChain'
    BY <1>0, <1>1 DEF DialTracked, DialPending, OneRetryChain
  <2>3. NoLeakedTunnel' /\ ProxyTracked'
    BY <1>0, <1>1 DEF NoLeakedTunnel, ProxyTracked
  <2> QED BY <1>0, <1>1, <2>1, <2>2, <2>3
<1>2. CASE /\ dial = NoGen /\ state = "Reconnecting"
           /\ generation' = generation + 1 /\ dial' = generation + 1
           /\ dialing' = dialing \cup {generation + 1}
  <2>1. TypeOK' /\ TasksTagged'
    BY <1>0, <1>2 DEF TypeOK, TasksTagged
  <2>2. DialTracked' /\ OneRetryChain'
    BY <1>0, <1>2 DEF TypeOK, TasksTagged, DialTracked, DialPending, OneRetryChain
  <2>3. NoLeakedTunnel' /\ ProxyTracked'
    BY <1>0, <1>2 DEF NoLeakedTunnel, ProxyTracked
  <2> QED BY <1>0, <1>2, <2>1, <2>2, <2>3
<1> QED BY <1>1, <1>2 DEF OnConnectivity, DoDial

-----------------------------------------------------------------------------
(* The remaining steps of the actor and of its tasks.                      *)

\* The dial arm keeps the invariant: a stale result changes nothing, the live
\* one ends the wait it belongs to.
LEMMA RecvDialKeeps ==
  ASSUME NEW r \in results, IInv, RecvDial(r)
  PROVE  IInv'
<1> USE DEF IInv, NoGen
<1>0. /\ results' = results \ {r} /\ dialing' = dialing
      /\ cmds' = cmds /\ phase' = phase /\ events' = events
  BY DEF RecvDial, outside
<1>1. CASE r.gen # generation
  <2>1. UNCHANGED <<machine, shell, osProxy, timers, drops>>
    BY <1>1 DEF RecvDial
  <2> USE <1>0, <1>1, <2>1 DEF machine, shell
  <2>2. TypeOK' /\ TasksTagged'
    BY DEF TypeOK, TasksTagged
  <2>3. DialTracked' /\ OneRetryChain'
    BY DEF DialTracked, DialPending, OneRetryChain
  <2>4. NoLeakedTunnel' /\ ProxyTracked'
    BY DEF NoLeakedTunnel, ProxyTracked
  <2> QED BY <2>2, <2>3, <2>4
<1>2. CASE r.gen = generation
  <2>1. /\ dial = generation /\ generation \in Nat \ {0}
        /\ state \in {"Connecting", "Reconnecting"}
        /\ generation \notin dialing /\ generation \notin timers
        /\ \A q \in results' : q.gen # generation
    BY <1>0, <1>2 DEF TypeOK, TasksTagged, DialTracked, OneRetryChain
  <2>2. /\ dial' = 0 /\ UNCHANGED <<kill_switch, online, generation>>
        /\ \/ r.ok /\ OnDialSucceeded /\ UNCHANGED timers
           \/ ~r.ok /\ OnDialFailed
    BY <1>2 DEF RecvDial
  <2>3. TasksTagged'
    <3>1. timers' \subseteq timers \cup {generation}
      BY <2>1, <2>2 DEF OnDialFailed, DoScheduleBackoff
    <3> QED BY <1>0, <2>1, <2>2, <3>1 DEF TypeOK, TasksTagged
  <2>4. CASE r.ok /\ OnDialSucceeded /\ UNCHANGED timers
    <3>1. CASE StartServingOk
      <4>1. TypeOK'
        BY <1>0, <2>1, <2>2, <2>4, <3>1 DEF StartServingOk, Enter, TypeOK, State
      <4>2. DialTracked' /\ OneRetryChain' /\ NoLeakedTunnel'
        BY <1>0, <2>1, <2>2, <2>4, <3>1
           DEF StartServingOk, Enter, DialTracked, OneRetryChain, NoLeakedTunnel
      <4>3. ProxyTracked' /\ published' = state' /\ generation' # 0
        BY <2>1, <2>2, <3>1 DEF StartServingOk, Enter, ProxyTracked
      <4> QED BY <2>3, <4>1, <4>2, <4>3
    <3>2. CASE StartServingBindFailed \/ SetProxyFailed
      <4>1. /\ state' = "Error" /\ published' = "Error" /\ proxy_set' = FALSE
            /\ current' = 0 /\ serving' = 0
            /\ osProxy' \in {osProxy, "on", "off"}
            /\ drops' \subseteq drops \cup {<<generation, "monitor">>}
        BY <3>2 DEF StartServingBindFailed, SetProxyFailed, AfterFailedSet, DoServiceFailed,
           DoStopServing, Enter
      <4>2. drops' \subseteq Nat \X Watcher
        BY <4>1, <2>1 DEF TypeOK, Watcher
      <4>3. TypeOK'
        BY <1>0, <2>1, <2>2, <2>4, <4>1, <4>2 DEF TypeOK, State
      <4>4. DialTracked' /\ OneRetryChain' /\ NoLeakedTunnel' /\ ProxyTracked'
        BY <2>1, <2>2, <4>1 DEF DialTracked, OneRetryChain, NoLeakedTunnel, ProxyTracked
      <4> QED BY <2>3, <4>1, <4>3, <4>4
    <3> QED BY <2>1, <2>4, <3>1, <3>2 DEF OnDialSucceeded
  <2>5. CASE ~r.ok /\ OnDialFailed
    <3> USE <1>0, <2>1, <2>2, <2>5
    <3>1. /\ UNCHANGED <<proxy_set, current, serving, osProxy, drops>>
          /\ \/ /\ state = "Connecting" /\ state' = "Error" /\ published' = "Error"
                /\ timers' = timers
             \/ /\ state = "Reconnecting" /\ UNCHANGED <<state, published>>
                /\ timers' = timers \cup {generation}
      BY DEF OnDialFailed, DoScheduleBackoff, Enter
    <3>2. TypeOK'
      BY <3>1 DEF TypeOK, State
    <3>3. DialTracked' /\ OneRetryChain'
      BY <3>1 DEF DialTracked, OneRetryChain
    <3>4. NoLeakedTunnel' /\ ProxyTracked'
      BY <3>1 DEF NoLeakedTunnel, ProxyTracked
    <3> QED BY <2>3, <3>1, <3>2, <3>3, <3>4
  <2> QED BY <2>2, <2>4, <2>5
<1> QED BY <1>1, <1>2

\* The backoff arm keeps the invariant: the live timer turns into a dial, or
\* the supervisor is offline and parked.
LEMMA RecvBackoffKeeps ==
  ASSUME NEW g \in timers, IInv, RecvBackoff(g)
  PROVE  IInv'
<1> USE DEF IInv, NoGen
<1>0. /\ timers' = timers \ {g}
      /\ UNCHANGED <<state, kill_switch, proxy_set, online, current, serving, published,
                     osProxy, results, drops, cmds, phase, events>>
  BY DEF RecvBackoff, machine, outside
<1>1. CASE /\ UNCHANGED <<generation, dial, dialing>>
           /\ g # generation \/ state # "Reconnecting" \/ ~online
  <2>1. TypeOK' /\ TasksTagged'
    BY <1>0, <1>1 DEF TypeOK, TasksTagged
  <2>2. DialTracked' /\ OneRetryChain'
    BY <1>0, <1>1 DEF DialTracked, DialPending, OneRetryChain
  <2>3. NoLeakedTunnel' /\ ProxyTracked'
    BY <1>0, <1>1 DEF NoLeakedTunnel, ProxyTracked
  <2> QED BY <1>0, <1>1, <2>1, <2>2, <2>3
<1>2. CASE g = generation /\ state = "Reconnecting" /\ online
  <2>1. dial = 0
    BY <1>2 DEF OneRetryChain
  <2>2. /\ generation' = generation + 1 /\ dial' = generation + 1
        /\ dialing' = dialing \cup {generation + 1}
    BY <1>2, <2>1 DEF RecvBackoff, DoDial
  <2>3. TypeOK' /\ TasksTagged'
    BY <1>0, <2>2 DEF TypeOK, TasksTagged
  <2>4. DialTracked' /\ OneRetryChain'
    BY <1>0, <1>2, <2>2 DEF TypeOK, TasksTagged, DialTracked, DialPending, OneRetryChain
  <2>5. NoLeakedTunnel' /\ ProxyTracked'
    BY <1>0, <1>2, <2>2 DEF NoLeakedTunnel, ProxyTracked
  <2> QED BY <1>0, <1>2, <2>3, <2>4, <2>5
<1> QED BY <1>1, <1>2 DEF RecvBackoff

\* The dropped arm keeps the invariant: only a report of the live generation
\* ends the session, and it leaves a timer of that generation behind.
LEMMA RecvDroppedKeeps ==
  ASSUME NEW e \in drops, IInv, RecvDropped(e)
  PROVE  IInv'
<1> USE DEF IInv, NoGen
<1>0. /\ drops' = drops \ {e}
      /\ UNCHANGED <<kill_switch, online, generation, dial, dialing, results,
                     cmds, phase, events>>
  BY DEF RecvDropped, outside
<1>1. CASE UNCHANGED <<state, proxy_set, current, serving, published, osProxy, timers>>
  <2>1. TypeOK' /\ TasksTagged'
    BY <1>0, <1>1 DEF TypeOK, TasksTagged
  <2>2. DialTracked' /\ OneRetryChain'
    BY <1>0, <1>1 DEF DialTracked, DialPending, OneRetryChain
  <2>3. NoLeakedTunnel' /\ ProxyTracked'
    BY <1>0, <1>1 DEF NoLeakedTunnel, ProxyTracked
  <2> QED BY <1>0, <1>1, <2>1, <2>2, <2>3
<1>2. CASE state = "Connected" /\ OnTunnelDropped
  <2>1. dial = 0 /\ generation \notin timers /\ generation \in Nat
        /\ proxy_set /\ osProxy = "on"
    BY <1>2 DEF TypeOK, DialTracked, OneRetryChain, ProxyTracked
  <2>2. /\ current' = 0 /\ serving' = 0 /\ published' = state'
        /\ \/ /\ state' = "Error" /\ proxy_set' = FALSE
              /\ osProxy' \in {"on", "off"} /\ timers' = timers
           \/ /\ state' = "Reconnecting" /\ timers' = timers \cup {generation}
              /\ proxy_set' = kill_switch
              /\ osProxy' = IF kill_switch THEN "on" ELSE "off"
    <3>1. CASE DropClears
      BY <1>2, <2>1, <3>1 DEF OnTunnelDropped, DropClears, ClearFailed, AfterFailedClear, ClearOk,
         DoServiceFailed, DoStopServing, DoScheduleBackoff, Enter, TypeOK
    <3>2. CASE ~DropClears
      BY <1>2, <2>1, <3>2 DEF OnTunnelDropped, DropClears, DoStopServing,
         DoScheduleBackoff, Enter, TypeOK
    <3> QED BY <3>1, <3>2
  <2>3. TypeOK'
    <3>1. state' \in State /\ published' \in State /\ osProxy' \in {"off", "on"}
          /\ current' \in Nat /\ serving' \in Nat /\ timers' \subseteq Nat
      BY <2>1, <2>2 DEF TypeOK, State
    <3>2. proxy_set' \in BOOLEAN /\ drops' \subseteq Nat \X Watcher
      BY <1>0, <2>2 DEF TypeOK
    <3> QED BY <1>0, <3>1, <3>2 DEF TypeOK
  <2>4. TasksTagged'
    <3>1. \A g \in timers' : g <= generation'
      BY <1>0, <2>1, <2>2 DEF TasksTagged
    <3> QED BY <1>0, <3>1 DEF TasksTagged
  <2>5. DialTracked' /\ OneRetryChain'
    BY <1>0, <2>1, <2>2 DEF DialTracked, OneRetryChain
  <2>6. NoLeakedTunnel' /\ ProxyTracked'
    BY <1>0, <2>1, <2>2 DEF NoLeakedTunnel, ProxyTracked, TypeOK
  <2> QED BY <2>2, <2>3, <2>4, <2>5, <2>6
<1> QED BY <1>1, <1>2 DEF RecvDropped, OnTunnelDropped

\* The spawned tasks only move tagged messages.
LEMMA TasksKeep ==
  ASSUME IInv, Tasks
  PROVE  IInv'
<1> USE DEF IInv, NoGen
<1>1. ASSUME NEW g \in dialing, NEW ok \in BOOLEAN, DialDelivers(g, ok), events' \in Nat
      PROVE  IInv'
  <2> USE <1>1 DEF DialDelivers, machine, shell
  <2>1. TypeOK'
    <3>1. [gen |-> g, ok |-> ok] \in [gen : Nat, ok : BOOLEAN]
      BY DEF TypeOK
    <3> QED BY <3>1 DEF TypeOK
  <2>4. TasksTagged'
    BY DEF TypeOK, TasksTagged
  <2>2. DialTracked' /\ OneRetryChain'
    <3>1. dial # NoGen => DialPending'
      <4>1. [gen |-> g, ok |-> ok].gen = g /\ [gen |-> g, ok |-> ok] \in results'
        OBVIOUS
      <4>2. dial # NoGen => DialPending
        BY DEF DialTracked
      <4>3. dialing' = dialing \ {g} /\ results \subseteq results'
            /\ dial' = dial /\ generation' = generation
        OBVIOUS
      <4> QED BY <4>1, <4>2, <4>3 DEF DialPending
    <3> QED BY <3>1 DEF DialTracked, OneRetryChain
  <2>3. NoLeakedTunnel' /\ ProxyTracked'
    BY DEF NoLeakedTunnel, ProxyTracked
  <2> QED BY <2>1, <2>2, <2>3, <2>4
<1>2. ASSUME NEW g \in dialing, DialAborted(g)
      PROVE  IInv'
  <2> USE <1>2 DEF DialAborted, machine, shell, outside
  <2>1. TypeOK' /\ TasksTagged'
    BY DEF TypeOK, TasksTagged
  <2>2. DialTracked' /\ OneRetryChain'
    BY DEF DialTracked, DialPending, OneRetryChain
  <2>3. NoLeakedTunnel' /\ ProxyTracked'
    BY DEF NoLeakedTunnel, ProxyTracked
  <2> QED BY <2>1, <2>2, <2>3
<1>3. ASSUME NEW w \in Watcher, ServiceDrops(w)
      PROVE  IInv'
  <2> USE <1>3 DEF ServiceDrops, machine, shell
  <2>1. TypeOK' /\ TasksTagged'
    BY DEF TypeOK, TasksTagged
  <2>2. DialTracked' /\ OneRetryChain'
    BY DEF DialTracked, DialPending, OneRetryChain
  <2>3. NoLeakedTunnel' /\ ProxyTracked'
    BY DEF NoLeakedTunnel, ProxyTracked
  <2> QED BY <2>1, <2>2, <2>3
<1>4. ASSUME NEW g \in dialing, DialSucceeds(g)
      PROVE  DialDelivers(g, TRUE) /\ events' \in Nat
  BY <1>4 DEF DialSucceeds, TypeOK
<1>5. ASSUME NEW g \in dialing, DialFails(g)
      PROVE  DialDelivers(g, FALSE) /\ events' \in Nat
  <2>1. DialDelivers(g, FALSE)
    BY <1>5, Zenon DEF DialFails
  <2>2. events' = events + 1 /\ events \in Nat
    BY <1>5 DEF DialFails, TypeOK
  <2>3. events' \in Nat
    BY <2>2
  <2> QED BY <2>1, <2>3, Zenon
<1>6. CASE \E g \in dialing : DialSucceeds(g) \/ DialFails(g) \/ DialAborted(g)
  BY <1>1, <1>2, <1>4, <1>5, <1>6
<1>7. CASE \E w \in Watcher : ServiceDrops(w)
  BY <1>3, <1>7
<1> QED BY <1>6, <1>7 DEF Tasks

-----------------------------------------------------------------------------
(* The theorems.                                                           *)

\* spawn_supervisor starts in the invariant.
LEMMA InitIInv == Init => IInv
<1> SUFFICES ASSUME Init PROVE IInv
  OBVIOUS
<1>1. TypeOK
  <2>1. cmds \in Seq(Command) /\ generation \in Nat /\ dial \in Nat /\ current \in Nat
        /\ serving \in Nat /\ events \in Nat
    BY DEF Init, NoGen
  <2>2. state \in State /\ published \in State /\ online \in BOOLEAN /\ proxy_set \in BOOLEAN
    BY DEF Init, State
  <2> QED BY <2>1, <2>2 DEF Init, TypeOK
<1> QED BY <1>1 DEF Init, IInv, TasksTagged, DialTracked, OneRetryChain,
           NoLeakedTunnel, ProxyTracked, NoGen

\* Every step of the actor, its tasks and its environment keeps the invariant.
LEMMA NextIInv == IInv /\ [Next]_vars => IInv'
<1> SUFFICES ASSUME IInv, [Next]_vars PROVE IInv'
  OBVIOUS
<1>0. cmds \in Seq(Command) /\ phase \in {"running", "closing", "stopped"} /\ events \in Nat
  BY DEF IInv, TypeOK
<1>1. CASE \E c \in Command : Send(c)
  <2>1. PICK c \in Command : Send(c)
    BY <1>1
  <2>2. cmds' \in Seq(Command) /\ events' \in Nat /\ phase' = phase
        /\ UNCHANGED <<machine, shell, osProxy, tasks>>
    BY <1>0, <2>1 DEF Send
  <2> QED BY <1>0, <2>2, StutterKeeps
<1>2. CASE DropHandles
  BY <1>0, <1>2, StutterKeeps DEF DropHandles
<1>3. CASE RecvCommand
  <2>1. cmds' \in Seq(Command) /\ phase' = phase /\ events' = events
    BY <1>0, <1>3 DEF RecvCommand
  <2> QED BY <1>0, <1>3, <2>1, ConnectKeeps, DisconnectKeeps, ConnectivityKeeps
          DEF RecvCommand
<1>4. CASE RecvClosed
  BY <1>0, <1>4, DisconnectKeeps DEF RecvClosed
<1>5. CASE \E r \in results : RecvDial(r)
  BY <1>5, RecvDialKeeps
<1>6. CASE \E g \in timers : RecvBackoff(g)
  BY <1>6, RecvBackoffKeeps
<1>7. CASE \E e \in drops : RecvDropped(e)
  BY <1>7, RecvDroppedKeeps
<1>8. CASE Tasks
  BY <1>8, TasksKeep
<1>9. CASE UNCHANGED vars
  BY <1>0, <1>9, StutterKeeps DEF vars, outside
<1> QED BY <1>1, <1>2, <1>3, <1>4, <1>5, <1>6, <1>7, <1>8, <1>9 DEF Next, Actor

\* The inductive invariant holds of the supervisor for every channel size and
\* any number of events.
THEOREM Invariance == Spec => []IInv
BY InitIInv, NextIInv, PTL DEF Spec

\* Type correctness of the machine and of the shell around it.
THEOREM TypeCorrect == Spec => []TypeOK
<1>1. IInv => TypeOK
  BY DEF IInv
<1> QED BY <1>1, Invariance, PTL

\* A supervisor that is connecting or reconnecting always has a live dial, a
\* timer of its own generation, or is parked offline.
THEOREM NeverStranded == Spec => []NoStrandedWait
<1>1. IInv => NoStrandedWait
  BY DEF IInv, DialTracked, NoStrandedWait
<1> QED BY <1>1, Invariance, PTL

\* At most one retry chain: no timer of the live generation while dialing or
\* connected.
THEOREM SingleRetryChain == Spec => []OneRetryChain
<1>1. IInv => OneRetryChain
  BY DEF IInv
<1> QED BY <1>1, Invariance, PTL

\* A tunnel is held and served exactly while Connected.
THEOREM NoTunnelLeak == Spec => []NoLeakedTunnel
<1>1. IInv => NoLeakedTunnel
  BY DEF IInv
<1> QED BY <1>1, Invariance, PTL

\* What the published state says of the OS proxy is true in every state.
THEOREM ProxySafety == Spec => []ProxyFollowsState
<1>1. IInv => ProxyFollowsState
  BY DEF IInv, ProxyFollowsState, ConnectedIsReady, DisconnectedRestoresProxy, ReconnectingProxyPolicy,
     ProxyTracked, NoLeakedTunnel, NoGen
<1> QED BY <1>1, Invariance, PTL

-----------------------------------------------------------------------------
(* What a step does to what can be seen from outside.                      *)

\* Each handler maps to one step of the contract, or to none.
LEMMA OnDisconnectVisible ==
  ASSUME IInv, OnDisconnect
  PROVE  Session!Stop \/ Session!Fail \/ UNCHANGED <<published, osProxy, kill_switch>>
<1> USE DEF IInv
<1>1. kill_switch' = kill_switch /\ osProxy \in {"on", "off"}
  BY DEF OnDisconnect, TypeOK
<1>2. CASE NothingToStop
  BY <1>2, <1>1 DEF OnDisconnect
<1>3. CASE ~NothingToStop /\ MustClear /\ ClearFailed
  BY <1>1, <1>3 DEF NothingToStop, ClearFailed, AfterFailedClear, DoServiceFailed, Enter, Session!Fail
<1>4. CASE ~NothingToStop /\ MustClear /\ ClearOk("Disconnected")
  BY <1>1, <1>4 DEF NothingToStop, ClearOk, Enter, Session!Stop
<1>5. CASE ~NothingToStop /\ ~MustClear /\ Enter("Disconnected") /\ UNCHANGED osProxy
  <2>1. osProxy = "off"
    BY <1>5 DEF NothingToStop, MustClear, ProxyTracked, TypeOK, State
  <2> QED BY <1>1, <1>5, <2>1 DEF NothingToStop, Enter, Session!Stop
<1> QED BY <1>2, <1>3, <1>4, <1>5 DEF OnDisconnect

\* A dial result establishes the session, fails it, or goes unnoticed.
LEMMA RecvDialVisible ==
  ASSUME NEW r \in results, IInv, RecvDial(r)
  PROVE  \/ Session!Establish \/ Session!Fail
         \/ UNCHANGED <<published, osProxy, kill_switch>>
<1> USE DEF IInv
<1>1. CASE r.gen # generation
  BY <1>1 DEF RecvDial, machine, shell
<1>2. CASE r.gen = generation
  <2>1. /\ kill_switch' = kill_switch /\ osProxy \in {"on", "off"}
        /\ (r.ok /\ OnDialSucceeded) \/ OnDialFailed
    BY <1>2 DEF RecvDial, TypeOK
  <2>2. published \in {"Connecting", "Reconnecting"}
    BY <1>2 DEF TasksTagged, DialTracked, TypeOK, NoGen
  <2>3. CASE OnDialFailed
    BY <2>1, <2>2, <2>3 DEF OnDialFailed, Enter, Session!Fail
  <2>4. CASE OnDialSucceeded
    <3>1. CASE StartServingOk
      <4>1. proxy_set => osProxy = "on"
        BY DEF ProxyTracked, TypeOK
      <4> QED BY <2>1, <2>2, <3>1, <4>1 DEF StartServingOk, Enter, Session!Establish
    <3>2. CASE StartServingBindFailed
      BY <2>1, <2>2, <3>2 DEF StartServingBindFailed, DoServiceFailed, Enter, Session!Fail
    <3>3. CASE SetProxyFailed
      BY <2>1, <2>2, <3>3 DEF SetProxyFailed, AfterFailedSet, DoServiceFailed, Enter, Session!Fail
    <3> QED BY <2>2, <2>4, <3>1, <3>2, <3>3 DEF OnDialSucceeded
  <2> QED BY <2>1, <2>3, <2>4
<1> QED BY <1>1, <1>2

\* A drop report moves a live session to Reconnecting under the proxy policy.
LEMMA RecvDroppedVisible ==
  ASSUME NEW e \in drops, IInv, RecvDropped(e)
  PROVE  Session!Drop \/ Session!Fail \/ UNCHANGED <<published, osProxy, kill_switch>>
<1> USE DEF IInv
<1>1. kill_switch' = kill_switch /\ kill_switch \in BOOLEAN
  BY DEF RecvDropped, TypeOK
<1>2. CASE UNCHANGED <<published, osProxy>>
  BY <1>1, <1>2
<1>3. CASE state = "Connected" /\ OnTunnelDropped
  <2>1. proxy_set /\ osProxy = "on" /\ published = "Connected"
    BY <1>3 DEF ProxyTracked
  <2>2. CASE DropClears /\ ClearFailed
    BY <1>1, <2>1, <2>2 DEF ClearFailed, AfterFailedClear, DoServiceFailed, Enter, Session!Fail
  <2>3. CASE DropClears /\ ClearOk("Reconnecting")
    BY <1>1, <2>1, <2>3 DEF DropClears, ClearOk, Enter, Session!Drop
  <2>4. CASE ~DropClears /\ Enter("Reconnecting") /\ UNCHANGED osProxy
    BY <1>1, <2>1, <2>4 DEF DropClears, Enter, Session!Drop
  <2> QED BY <1>3, <2>2, <2>3, <2>4 DEF OnTunnelDropped
<1> QED BY <1>2, <1>3 DEF RecvDropped, OnTunnelDropped

\* One step of the supervisor is one step of the contract or a stutter.
LEMMA StepSession == IInv /\ [Next]_vars => [Session!Next]_(Session!vars)
<1> SUFFICES ASSUME IInv, [Next]_vars
             PROVE  Session!Next \/ UNCHANGED <<published, osProxy, kill_switch>>
  BY DEF Session!vars
<1>1. CASE (\E c \in Command : Send(c)) \/ DropHandles
  BY <1>1 DEF Send, DropHandles, machine, shell
<1>2. CASE RecvCommand
  <2>1. CASE OnConnect
    BY <2>1 DEF OnConnect, Enter, IInv, machine, shell, Session!Next, Session!Start
  <2>2. CASE OnDisconnect
    BY <2>2, OnDisconnectVisible DEF Session!Next
  <2>3. CASE \E o \in BOOLEAN : OnConnectivity(o)
    BY <2>3 DEF OnConnectivity
  <2> QED BY <1>2, <2>1, <2>2, <2>3 DEF RecvCommand
<1>3. CASE RecvClosed
  BY <1>3, OnDisconnectVisible DEF RecvClosed, Session!Next
<1>4. CASE \E r \in results : RecvDial(r)
  BY <1>4, RecvDialVisible DEF Session!Next
<1>5. CASE \E g \in timers : RecvBackoff(g)
  BY <1>5 DEF RecvBackoff, machine
<1>6. CASE \E e \in drops : RecvDropped(e)
  BY <1>6, RecvDroppedVisible DEF Session!Next
<1>7. CASE Tasks
  BY <1>7 DEF Tasks, DialSucceeds, DialFails, DialDelivers, DialAborted, ServiceDrops,
     machine, shell
<1>8. CASE UNCHANGED vars
  BY <1>8 DEF vars, machine, shell
<1> QED BY <1>1, <1>2, <1>3, <1>4, <1>5, <1>6, <1>7, <1>8 DEF Next, Actor

\* The supervisor with all its tasks implements the abstract proxy session.
THEOREM Refinement == Spec => ImplementsSession
<1>1. Init => Session!Init
  BY DEF Init, Session!Init
<1> QED BY <1>1, StepSession, Invariance, PTL DEF Spec, ImplementsSession, Session!Spec

\* Under the kill switch only a Disconnect, or the failed set() of a Connect,
\* takes the OS proxy away.
THEOREM KillSwitch == Spec => KillSwitchHolds
<1> DEFINE Kept == kill_switch /\ osProxy = "on" /\ osProxy' = "off"
                     => \/ generation' = generation + 1 /\ dial' = NoGen
                        \/ state = "Connecting"
<1>1. IInv /\ [Next]_vars => Kept
  <2> SUFFICES ASSUME IInv, [Next]_vars, kill_switch, osProxy = "on", osProxy' = "off"
               PROVE  \/ generation' = generation + 1 /\ dial' = NoGen
                      \/ state = "Connecting"
    OBVIOUS
  <2>1. CASE OnDisconnect
    BY <2>1 DEF OnDisconnect
  <2>2. CASE \E r \in results : RecvDial(r)
    <3>1. PICK r \in results : RecvDial(r)
      BY <2>2
    <3>2. SetProxyFailed /\ state \in {"Connecting", "Reconnecting"}
      BY <3>1 DEF RecvDial, OnDialFailed, OnDialSucceeded, StartServingOk,
         StartServingBindFailed, machine, shell
    <3> QED BY <3>2 DEF SetProxyFailed, AfterFailedSet, IInv, ProxyTracked
  <2>3. \A e \in drops : ~RecvDropped(e)
    BY DEF RecvDropped, OnTunnelDropped, DropClears
  <2>4. ~(\E c \in Command : Send(c)) /\ ~DropHandles /\ ~Tasks /\ ~UNCHANGED vars
    BY DEF Send, DropHandles, Tasks, DialSucceeds, DialFails, DialDelivers, DialAborted,
       ServiceDrops, vars
  <2>5. \A g \in timers : ~RecvBackoff(g)
    BY DEF RecvBackoff
  <2>6. RecvCommand \/ RecvClosed => OnDisconnect
    BY DEF RecvCommand, RecvClosed, OnConnect, OnConnectivity
  <2> QED BY <2>1, <2>2, <2>3, <2>4, <2>5, <2>6 DEF Next, Actor
<1>2. IInv /\ [Next]_vars => [Kept]_vars
  BY <1>1
<1> QED BY <1>2, Invariance, PTL DEF Spec, KillSwitchHolds
=============================================================================
