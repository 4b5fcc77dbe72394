-------------------------- MODULE DesktopAppProofs --------------------------
(***************************************************************************)
(* What the helper guarantees for any number of clients and sessions, in   *)
(* either serve mode, and that the application drives it only as its       *)
(* specification allows, so that all of it holds of the two composed; then *)
(* the Android sessions with their interfaces, and the proxy's marker.     *)
(***************************************************************************)
EXTENDS DesktopApp, TLAPS

-----------------------------------------------------------------------------
(* The helper.  The slot owning every live worker is inductive only        *)
(* together with what the published state and the waiting starts say; that *)
(* no exit tears a session down needs that whatever lives once the exit is *)
(* on its way was accepted after it was.                                   *)

ExitSafe ==
    /\ Leaving => \A s \in Sessions : worker[s] \in Live => late
    /\ ~alive => ~exit /\ \A k \in Conns : st[k] = "none"
    /\ left # "torn"

IInv == TypeOK /\ SlotOwnsEngine /\ StateHonest /\ ReadyHasWorker /\ ExitSafe

\* The initial state satisfies the inductive invariant.
LEMMA HelperInit == Init => IInv
<1> SUFFICES ASSUME Init PROVE IInv
  OBVIOUS
<1>1. TypeOK
  BY DEF Init, TypeOK, Live
<1>2. SlotOwnsEngine /\ StateHonest /\ ReadyHasWorker /\ ExitSafe
  BY DEF Init, SlotOwnsEngine, StateHonest, ReadyHasWorker, ExitSafe, Live, Mutated
<1> QED BY <1>1, <1>2 DEF IInv

\* A step that starts nothing and takes no stop to its end.
LEMMA ExitFrame ==
    ASSUME ExitSafe, UNCHANGED <<alive, mode, late, left>>, exit' => Leaving,
           \A s \in Sessions : worker'[s] \in Live => worker[s] \in Live,
           \A k \in Conns : st'[k] \in {"signal", "reply"} =>
               Leaving \/ (st[k] = st'[k] /\ kind'[k[1]] = kind[k[1]] /\ (peer'[k] => peer[k])),
           ~alive => ~exit' /\ \A k \in Conns : st'[k] = "none"
    PROVE  ExitSafe'
<1>1. Leaving' => Leaving
  BY DEF Leaving
<1> QED BY <1>1 DEF ExitSafe

\* A client's step touches neither the runner nor a waiting start.
LEMMA ClientStep == ASSUME IInv, NEW c \in Clients, Client(c) PROVE IInv'
<1>1. UNCHANGED runner
  BY DEF Client, GuiSubscribe, GuiStart, GuiShutdown, CliStart,
         CliSubscribe, CliInterrupt, Die, Relaunch
<1>2. TypeOK'
  <2> USE DEF IInv, TypeOK, config
  <2>1. <<c, "sub">> \in Conns /\ <<c, "start">> \in Conns /\ <<c, "stop">> \in Conns
    BY DEF Conns
  <2>2. CASE GuiSubscribe(c) \/ GuiStart(c) \/ GuiShutdown(c)
    BY <2>1, <2>2 DEF GuiSubscribe, GuiStart, GuiShutdown, Send, runner
  <2>3. CASE CliStart(c) \/ CliSubscribe(c) \/ CliInterrupt(c)
    BY <2>1, <2>3 DEF CliStart, CliSubscribe, CliInterrupt, Send, runner
  <2>4. CASE Die(c)
    BY <2>4 DEF Die, HangUp, runner
  <2>5. CASE Relaunch(c)
    BY <2>5 DEF Relaunch, runner
  <2> QED BY <2>2, <2>3, <2>4, <2>5 DEF Client
<1>3. \A k \in Conns : st'[k] = "ready" => st[k] = "ready"
  BY SMTT(20) DEF IInv, TypeOK, Client, GuiSubscribe, GuiStart, GuiShutdown,
         CliStart, CliSubscribe, CliInterrupt, Die, Relaunch, Send, Conns
<1>4. ExitSafe'
  <2> USE DEF IInv, TypeOK, config, runner
  <2>0. <<c, "sub">> \in Conns /\ <<c, "start">> \in Conns /\ <<c, "stop">> \in Conns
    BY DEF Conns
  <2>1. CASE GuiSubscribe(c) \/ GuiStart(c) \/ GuiShutdown(c) \/ CliStart(c) \/ CliSubscribe(c)
    <3>1. PICK k \in Conns : Send(k) /\ UNCHANGED <<config, alive, exit, runner>>
      BY <2>0, <2>1 DEF GuiSubscribe, GuiStart, GuiShutdown, CliStart, CliSubscribe
    <3> QED BY <3>1, ExitFrame DEF Send, Leaving
  <2>2. CASE CliInterrupt(c)
    BY <2>0, <2>2, ExitFrame DEF CliInterrupt, Leaving
  <2>3. CASE Die(c)
    BY <2>3, ExitFrame DEF Die, HangUp, Leaving, ExitSafe
  <2>4. CASE Relaunch(c)
    <3>1. \A k \in Conns : st[k] = "none" \/ k[1] # c
      BY <2>4 DEF Relaunch
    <3>2. \A k \in Conns : st'[k] \in {"signal", "reply"} =>
             st[k] = st'[k] /\ kind'[k[1]] = kind[k[1]] /\ peer'[k] = peer[k]
      BY <2>4, <3>1 DEF Relaunch, Conns
    <3> QED BY <2>4, <3>2, ExitFrame DEF Relaunch, Leaving, ExitSafe
  <2> QED BY <2>1, <2>2, <2>3, <2>4 DEF Client
<1> QED
  BY <1>1, <1>2, <1>3, <1>4 DEF IInv, SlotOwnsEngine, StateHonest, ReadyHasWorker, runner

\* A worker's step keeps the slot's hold on it.
LEMMA WorkerStep == ASSUME IInv, NEW s \in Sessions, Worker(s) PROVE IInv'
<1> USE DEF IInv, TypeOK, Live, Mutated, Answered, config
<1>0. ExitSafe'
  <2>1. /\ UNCHANGED <<alive, mode, late, left, exit, kind, peer>> /\ alive
        /\ \A r \in Sessions : worker'[r] \in Live => worker[r] \in Live
        /\ \A k \in Conns : st'[k] \in {"signal", "reply"} => st[k] = st'[k]
    <3>1. CASE Prepared(s) \/ PrepareEnded(s) BY <3>1 DEF Prepared, PrepareEnded
    <3>2. CASE EngineStops(s) \/ Restored(s) \/ WorkerFinishes(s)
      BY <3>2 DEF EngineStops, Restored, WorkerFinishes
    <3> QED BY <3>1, <3>2 DEF Worker
  <2> QED BY <2>1, ExitFrame DEF Leaving
<1>1. CASE Prepared(s)
  <2>1. TypeOK' BY <1>1 DEF Prepared
  <2>2. s = slot BY <1>1 DEF Prepared, SlotOwnsEngine
  <2> QED BY <1>0, <1>1, <2>1, <2>2, NoneAssumption
            DEF Prepared, SlotOwnsEngine, StateHonest, ReadyHasWorker
<1>2. CASE PrepareEnded(s)
  <2>1. TypeOK' BY <1>2 DEF PrepareEnded
  <2>2. s = slot BY <1>2 DEF PrepareEnded, SlotOwnsEngine
  <2> QED BY <1>0, <1>2, <2>1, <2>2, NoneAssumption
            DEF PrepareEnded, SlotOwnsEngine, StateHonest, ReadyHasWorker
<1>3. CASE EngineStops(s)
  <2>1. TypeOK' BY <1>3 DEF EngineStops
  <2>2. s = slot BY <1>3 DEF EngineStops, SlotOwnsEngine
  <2> QED BY <1>0, <1>3, <2>1, <2>2, NoneAssumption
            DEF EngineStops, SlotOwnsEngine, StateHonest, ReadyHasWorker
<1>4. CASE Restored(s)
  <2>1. TypeOK' BY <1>4 DEF Restored
  <2>2. s = slot BY <1>4 DEF Restored, SlotOwnsEngine
  <2> QED BY <1>0, <1>4, <2>1, <2>2, NoneAssumption
            DEF Restored, SlotOwnsEngine, StateHonest, ReadyHasWorker
<1>5. CASE WorkerFinishes(s)
  <2>1. TypeOK' BY <1>5 DEF WorkerFinishes
  <2>2. s = slot BY <1>5 DEF WorkerFinishes, SlotOwnsEngine
  <2> QED BY <1>0, <1>5, <2>1, <2>2, NoneAssumption
            DEF WorkerFinishes, SlotOwnsEngine, StateHonest, ReadyHasWorker
<1> QED BY <1>0, <1>1, <1>2, <1>3, <1>4, <1>5 DEF Worker

\* Serving a request keeps it: a start is accepted only when the slot holds
\* no live worker, a stop empties the slot only when its worker finished.
LEMMA ServeStep == ASSUME IInv, NEW k \in Conns, Serve(k) PROVE IInv'
<1> USE DEF IInv, TypeOK, Live, Mutated, config
<1>e. ExitSafe'
  <2>1. CASE StartRefused(k) \/ StopRead(k) \/ SubscribeRead(k) \/ SubscriberLost(k)
    BY <2>1, ExitFrame DEF StartRefused, StopRead, SubscribeRead, SubscriberLost, Leaving, runner
  <2>2. CASE StartAccepted(k)
    <3>1. Leaving' => Leaving
      BY <2>2 DEF StartAccepted, Leaving
    <3> QED BY <2>2, <3>1 DEF StartAccepted, ExitSafe
  <2>3. CASE StartReplied(k)
    BY <2>3, ExitFrame DEF StartReplied, Leaving, runner
  <2>4. CASE StopIdle(k)
    BY <2>4, NoneAssumption DEF StopIdle, SlotOwnsEngine, ExitSafe
  <2>5. CASE StopCancels(k)
    BY <2>5, ExitFrame DEF StopCancels, Leaving
  <2>6. CASE StopDrained(k)
    BY <2>6 DEF StopDrained, SlotOwnsEngine, ExitSafe
  <2>7. CASE StopReplied(k)
    <3>1. \A j \in Conns : peer'[j] => peer[j]
      <4>1. \/ peer' = peer \/ peer' = [peer EXCEPT ![k] = FALSE]
            \/ peer' = [j \in Conns |-> IF j[1] = k[1] THEN FALSE ELSE peer[j]]
        BY <2>7 DEF StopReplied, HangUp
      <4>2. CASE peer' = peer BY <4>2
      <4>3. CASE peer' = [peer EXCEPT ![k] = FALSE] BY <4>3
      <4>4. CASE peer' = [j \in Conns |-> IF j[1] = k[1] THEN FALSE ELSE peer[j]] BY <4>4
      <4> QED BY <4>1, <4>2, <4>3, <4>4
    <3>2. st'[k] = "signal" => Leaving
      BY <2>7 DEF StopReplied, Leaving
    <3>3. \A j \in Conns : j # k => st'[j] = st[j]
      BY <2>7 DEF StopReplied
    <3>4. st'[k] \in {"signal", "none"} /\ alive /\ UNCHANGED <<alive, mode, late, left, exit, kind, worker>>
      BY <2>7 DEF StopReplied, runner
    <3> QED BY <3>1, <3>2, <3>3, <3>4, ExitFrame DEF Leaving
  <2>8. CASE SignalExit(k)
    BY <2>8, ExitFrame DEF SignalExit, Leaving, runner
  <2> QED BY <2>1, <2>2, <2>3, <2>4, <2>5, <2>6, <2>7, <2>8 DEF Serve
<1>1. CASE StartRefused(k)
  BY <1>e, <1>1 DEF StartRefused, runner, SlotOwnsEngine, StateHonest, ReadyHasWorker
<1>2. CASE StartAccepted(k)
  <2>1. PICK s \in Sessions :
           /\ worker[s] \in {"none", "finished"}
           /\ worker' = [worker EXCEPT ![s] = "prepare"]
           /\ cancel' = [cancel EXCEPT ![s] = FALSE]
           /\ slot' = s
    BY <1>2 DEF StartAccepted
  <2>0. Leaving \in BOOLEAN BY DEF Leaving
  <2>2. TypeOK' BY <1>2, <2>0, <2>1 DEF StartAccepted
  <2>3. \A r \in Sessions : worker[r] \notin Live
    BY <1>2, NoneAssumption DEF StartAccepted, Refused, SlotOwnsEngine
  <2>4. SlotOwnsEngine' BY <2>1, <2>3 DEF SlotOwnsEngine
  <2>5. StateHonest' BY <1>2, <2>1, NoneAssumption DEF StartAccepted, StateHonest
  <2>6. ReadyHasWorker' BY <2>1, NoneAssumption DEF ReadyHasWorker
  <2> QED BY <1>e, <2>2, <2>4, <2>5, <2>6
<1>3. CASE StartReplied(k)
  <2>1. TypeOK' BY <1>3 DEF StartReplied, runner, Conns
  <2> QED BY <1>e, <1>3, <2>1 DEF StartReplied, runner, SlotOwnsEngine, StateHonest, ReadyHasWorker
<1>4. CASE StopRead(k)
  BY <1>e, <1>4 DEF StopRead, runner, SlotOwnsEngine, StateHonest, ReadyHasWorker
<1>5. CASE SubscribeRead(k)
  BY <1>e, <1>5 DEF SubscribeRead, runner, SlotOwnsEngine, StateHonest, ReadyHasWorker
<1>6. CASE SubscriberLost(k)
  BY <1>e, <1>6 DEF SubscriberLost, runner, SlotOwnsEngine, StateHonest, ReadyHasWorker
<1>7. CASE StopIdle(k)
  BY <1>e, <1>7, NoneAssumption
  DEF StopIdle, AfterStop, SlotOwnsEngine, StateHonest, ReadyHasWorker
<1>8. CASE StopCancels(k)
  BY <1>e, <1>8 DEF StopCancels, SlotOwnsEngine, StateHonest, ReadyHasWorker
<1>9. CASE StopDrained(k)
  <2>1. TypeOK' BY <1>9 DEF StopDrained, AfterStop
  <2>2. \A r \in Sessions : worker'[r] \notin Live
    BY <1>9 DEF StopDrained, SlotOwnsEngine
  <2>3. \A j \in Conns : st'[j] # "ready"
    BY <1>9 DEF StopDrained, AfterStop, ReadyHasWorker
  <2> QED BY <1>e, <1>9, <2>1, <2>2, <2>3
            DEF StopDrained, SlotOwnsEngine, StateHonest, ReadyHasWorker
<1>10. CASE StopReplied(k)
  <2>1. st' \in [Conns -> {"none", "queued", "ready", "ok", "err", "stream",
                           "lock", "drain", "reply", "signal"}]
    BY <1>10 DEF StopReplied
  <2>2. pc' \in [Clients -> {"idle", "starting", "up", "stopping", "stopped", "gone"}]
    BY <1>10 DEF StopReplied
  <2>3. peer' \in [Conns -> BOOLEAN]
    BY <1>10, ZenonT(40) DEF StopReplied, HangUp
  <2>4. TypeOK'
    BY <1>10, <2>1, <2>2, <2>3 DEF StopReplied, runner
  <2> QED BY <1>e, <1>10, <2>4 DEF StopReplied, runner, SlotOwnsEngine, StateHonest, ReadyHasWorker
<1>11. CASE SignalExit(k)
  BY <1>e, <1>11 DEF SignalExit, runner, SlotOwnsEngine, StateHonest, ReadyHasWorker
<1> QED BY <1>1, <1>2, <1>3, <1>4, <1>5, <1>6, <1>7, <1>8, <1>9, <1>10, <1>11 DEF Serve

\* Every step preserves the inductive invariant.
LEMMA HelperStep == IInv /\ [Next]_vars => IInv'
<1> SUFFICES ASSUME IInv, [Next]_vars PROVE IInv'
  OBVIOUS
<1>1. CASE \E c \in Clients : Client(c)
  BY <1>1, ClientStep
<1>2. CASE \E s \in Sessions : Worker(s)
  BY <1>2, WorkerStep
<1>3. CASE \E k \in Conns : Serve(k)
  BY <1>3, ServeStep
<1>4. CASE Exit
  <2>1. TypeOK' BY <1>4 DEF Exit, IInv, TypeOK, Live, config
  <2>2. (SlotOwnsEngine /\ StateHonest /\ ReadyHasWorker)'
    BY <1>4 DEF Exit, SlotOwnsEngine, StateHonest, ReadyHasWorker, Live, Mutated
  <2>3. left' # "torn"
    BY <1>4 DEF Exit, IInv, ExitSafe, Leaving, Live, Mutated
  <2>4. ExitSafe'
    BY <1>4, <2>3 DEF Exit, ExitSafe, Live, Leaving
  <2> QED BY <2>1, <2>2, <2>4 DEF IInv
<1>5. CASE Launch
  <2>1. ExitSafe'
    BY <1>5 DEF Launch, runner, IInv, ExitSafe, Leaving
  <2> QED BY <1>5, <2>1 DEF Launch, runner, IInv, TypeOK, SlotOwnsEngine, StateHonest, ReadyHasWorker
<1>6. CASE UNCHANGED vars
  BY <1>6 DEF vars, IInv, TypeOK, SlotOwnsEngine, StateHonest, ReadyHasWorker, ExitSafe, Leaving
<1> QED BY <1>1, <1>2, <1>3, <1>4, <1>5, <1>6 DEF Next

\* The inductive invariant holds in every reachable state.
LEMMA HelperInductive == Spec => []IInv
  BY HelperInit, HelperStep, PTL DEF Spec

\* No interleaving of starts, stops and lost subscribers orphans an engine:
\* the slot of EngineRunner always holds the one live worker.
THEOREM EngineNeverOrphaned == Spec => []SlotOwnsEngine
<1>1. IInv => SlotOwnsEngine BY DEF IInv
<1> QED BY <1>1, HelperInductive, PTL

\* The state watched by the clients agrees with what the worker has done to
\* the network.
THEOREM StateIsHonest == Spec => []StateHonest
<1>1. IInv => StateHonest BY DEF IInv
<1> QED BY <1>1, HelperInductive, PTL

\* A start that waits for an answer has a worker that owes it one.
THEOREM StartIsAnswered == Spec => []ReadyHasWorker
<1>1. IInv => ReadyHasWorker BY DEF IInv
<1> QED BY <1>1, HelperInductive, PTL

\* EngineRunner::stop returns only once routes and DNS are restored, and the
\* process exits under no session that a stop was to end.
THEOREM StopRestoresNetwork == Spec => StopRestores
<1> DEFINE Left(k) == st[k] \in {"lock", "drain"} /\ st'[k] \in {"reply", "signal", "none"} /\ alive'
           A == \A k \in Conns : Left(k) => \A s \in Sessions : worker'[s] \notin Live
<1>2. IInv' => left' # "torn"
  BY DEF IInv, ExitSafe
<1>1. IInv /\ [Next]_vars => [A]_vars
  <2> SUFFICES ASSUME IInv, Next, NEW k \in Conns, Left(k)
               PROVE \A s \in Sessions : worker'[s] \notin Live
    OBVIOUS
  <2> USE DEF IInv, TypeOK
  <2>1. CASE \E c \in Clients : Client(c)
    BY <2>1, ZenonT(40) DEF Client, GuiSubscribe, GuiStart, GuiShutdown, CliStart,
                CliSubscribe, CliInterrupt, Die, Relaunch, Send, Conns
  <2>2. CASE \E s \in Sessions : Worker(s)
    <3>1. PICK s \in Sessions : Worker(s) BY <2>2
    <3>2. CASE Prepared(s) BY <3>2 DEF Prepared, Answered
    <3>3. CASE PrepareEnded(s) BY <3>3 DEF PrepareEnded, Answered
    <3>4. CASE EngineStops(s) \/ Restored(s) \/ WorkerFinishes(s)
      BY <3>4 DEF EngineStops, Restored, WorkerFinishes
    <3> QED BY <3>1, <3>2, <3>3, <3>4 DEF Worker
  <2>3. CASE \E j \in Conns : Serve(j)
    <3>1. PICK j \in Conns : Serve(j) BY <2>3
    <3>2. CASE StopIdle(j)
      BY <3>2, NoneAssumption DEF StopIdle, SlotOwnsEngine
    <3>3. CASE StopDrained(j)
      BY <3>3 DEF StopDrained, SlotOwnsEngine, Live
    <3>4. CASE StartRefused(j) \/ StartAccepted(j) \/ StartReplied(j)
      BY <3>4 DEF StartRefused, StartAccepted, StartReplied
    <3>5. CASE StopRead(j) \/ SubscribeRead(j) \/ SubscriberLost(j) \/ StopCancels(j)
      BY <3>5 DEF StopRead, SubscribeRead, SubscriberLost, StopCancels
    <3>6. CASE StopReplied(j) \/ SignalExit(j)
      BY <3>6 DEF StopReplied, SignalExit
    <3> QED BY <3>1, <3>2, <3>3, <3>4, <3>5, <3>6 DEF Serve
  <2>4. CASE Exit
    BY <2>4 DEF Exit
  <2>5. CASE Launch
    BY <2>5 DEF Launch
  <2> QED BY <2>1, <2>2, <2>3, <2>4, <2>5 DEF Next
<1>3. IInv /\ [Next]_vars /\ IInv' => [A /\ left' # "torn"]_vars
  BY <1>1, <1>2
<1> QED BY <1>3, HelperInductive, PTL DEF Spec, StopRestores

-----------------------------------------------------------------------------
(* The application and the helper composed.                                *)


\* A command of the application is a step of the helper's specification, or
\* one the helper does not see.
LEMMA DesktopStep == Desktop => [Next]_vars
<1> SUFFICES ASSUME Desktop PROVE [Next]_vars
  OBVIOUS
<1>1. ASSUME NEW c \in Clients,
             EnsureRunning(c) \/ PollEnds(c) \/ ConnectFails(c) \/ PromptDeclined
      PROVE  UNCHANGED vars
  BY <1>1 DEF EnsureRunning, PollEnds, ConnectFails, PromptDeclined
<1>2. ASSUME NEW c \in Clients,
             Subscribe(c) \/ StartVpn(c) \/ Disconnect(c) \/ AppExits(c)
      PROVE  Client(c) \/ UNCHANGED vars
  BY <1>2 DEF Subscribe, StartVpn, Disconnect, AppExits, Client
<1>3. ASSUME NEW c \in Clients,
             CliStart(c) \/ CliSubscribe(c) \/ CliInterrupt(c) \/ Relaunch(c)
      PROVE  Client(c)
  BY <1>3 DEF Client
<1>4. PromptAccepted => Next
  BY DEF PromptAccepted, Next
<1>5. PromptDeclined => UNCHANGED vars
  BY DEF PromptDeclined
<1> QED BY <1>1, <1>2, <1>3, <1>4, <1>5 DEF Desktop, Next

\* Android's commands and sessions leave the helper alone.
LEMMA AndroidStep == Android => UNCHANGED vars
BY DEF Android, AndroidConnect, AndroidDenied, AndroidDisconnect, AndroidEstablished

\* In proxy mode the helper has no part.
LEMMA ProxyStep == Proxy => UNCHANGED vars
BY DEF Proxy

\* lib.rs drives the helper only through the requests the helper's
\* specification allows its clients.
THEOREM DesktopImplementsHelper == DesktopSpec => Spec
<1>1. DesktopInit => Init
  BY DEF DesktopInit
<1>2. [DesktopNext]_desktopVars => [Next]_vars
  BY DesktopStep, AndroidStep, ProxyStep DEF DesktopNext, desktopVars
<1> QED BY <1>1, <1>2, PTL DEF DesktopSpec, Spec

\* Whatever the application's commands interleave to, an unfinished engine is
\* the one the helper's next stop finds.
THEOREM DesktopNeverOrphansEngine == DesktopSpec => []SlotOwnsEngine
<1>1. Spec => []SlotOwnsEngine
  BY EngineNeverOrphaned
<1> QED BY <1>1, DesktopImplementsHelper, PTL

\* The marker is there as long as the window's last command is a connect that
\* wrote it: only the window's own disconnect removes it from a running app.
MarkerHeld ==
    /\ word = "connect" => marker
    /\ click = "disconnect" => word = "disconnect"

\* A step in proxy mode keeps the marker's invariant.
LEMMA MarkerStep == MarkerHeld /\ ProxyNext => MarkerHeld'
<1> SUFFICES ASSUME MarkerHeld, ProxyNext PROVE MarkerHeld'
  OBVIOUS
<1>1. CASE WindowConnect \/ WindowConnectSends \/ WindowDisconnect \/ WindowDisconnectUnmarks
  BY <1>1 DEF MarkerHeld, WindowConnect, WindowConnectSends, WindowDisconnect,
              WindowDisconnectUnmarks
<1>2. CASE \/ \E cmd \in {"Connect", "Disconnect"} : Tray(cmd)
           \/ Receives \/ Carries \/ AppEnds
  BY <1>2 DEF MarkerHeld, Tray, Receives, Carries, AppEnds
<1>3. CASE \E ok \in BOOLEAN : Launches(ok)
  BY <1>3 DEF MarkerHeld, Launches
<1> QED BY <1>1, <1>2, <1>3 DEF ProxyNext

\* The only step that brings a process up is a launch, which clears the proxy
\* whenever it finds the marker.
LEMMA LaunchStep ==
    MarkerHeld /\ ProxyNext /\ ~up /\ up' /\ word = "connect"
      => osProxy' = "off" \/ launched' = "failed"
<1> SUFFICES ASSUME MarkerHeld, ProxyNext, ~up, up', word = "connect"
             PROVE  osProxy' = "off" \/ launched' = "failed"
  OBVIOUS
<1>1. PICK ok \in BOOLEAN : Launches(ok)
  BY DEF ProxyNext, WindowConnect, WindowConnectSends, WindowDisconnect,
         WindowDisconnectUnmarks, Tray, Receives, Carries, AppEnds
<1>2. marker
  BY DEF MarkerHeld
<1> QED BY <1>1, <1>2 DEF Launches

\* A proxy left behind by a session of the window is cleared by the next
\* launch, for every length of the command channel.
THEOREM ProxyHealedAtLaunch == DesktopSpec => StaleProxyCleared
<1>1. DesktopInit => MarkerHeld
  BY DEF DesktopInit, ProxyInit, MarkerHeld
<1>2. MarkerHeld /\ [DesktopNext]_desktopVars => MarkerHeld'
  BY MarkerStep DEF DesktopNext, Desktop, Android, Proxy, desktopVars, proxyVars, MarkerHeld
<1>3. MarkerHeld /\ [DesktopNext]_desktopVars
        => [~up /\ up' /\ origin = "window" /\ word = "connect"
              => osProxy' = "off" \/ launched' = "failed"]_proxyVars
  BY LaunchStep DEF DesktopNext, Desktop, Android, Proxy, desktopVars, proxyVars
<1> QED BY <1>1, <1>2, <1>3, PTL DEF DesktopSpec, StaleProxyCleared

-----------------------------------------------------------------------------
(* The sessions of the Android application.                                *)

(* A session holds its interface from the moment it has one until its      *)
(* engine is given it: it never dials without one (the `else' of           *)
(* fd.take() is dead code), never keeps one it is about to replace, and    *)
(* what waits in the process-wide slot waits for an engine.                *)
InterfaceKept ==
    \A s \in VpnSessions :
       /\ task[s] \in {"top", "offline", "backoff"} => (held[s] <=> ~renew[s])
       /\ task[s] = "renew" => renew[s] /\ ~held[s]
       /\ task[s] = "dial" => held[s] /\ ~renew[s]
       /\ task[s] \in {"none", "engine", "running", "stopping"} => ~held[s]
       /\ inject = s => task[s] = "engine"

(* AppState holds exactly the session that runs and was not told to end:   *)
(* disconnect finds every other one already stopped or without its sender. *)
SessionTracked == \A s \in VpnSessions : android = s <=> task[s] # "none" /\ halt[s] = "no"

SessionTypes ==
    /\ task \in [VpnSessions -> {"none", "top", "offline", "renew", "dial", "backoff",
                                 "engine", "running", "stopping"}]
    /\ held \in [VpnSessions -> BOOLEAN] /\ renew \in [VpnSessions -> BOOLEAN]
    /\ halt \in [VpnSessions -> {"no", "yes", "dropped"}]
    /\ android \in VpnSessions \cup {NoVpn} /\ inject \in VpnSessions \cup {NoVpn}
SessionInv == SessionTypes /\ InterfaceKept /\ SessionTracked

\* A session that was told to end leaves its loop and closes what it holds.
LEMMA SessionLeaves ==
    ASSUME SessionInv, NEW s \in VpnSessions, halt[s] # "no", task[s] # "engine", Leave(s),
           UNCHANGED <<renew, halt, android>>, inject' \in {inject, NoVpn}
    PROVE  SessionInv'
BY SessionAssumption DEF SessionInv, SessionTypes, InterfaceKept, SessionTracked, Leave, Goto

\* A session that waits, or goes on with what it holds.
LEMMA SessionMoves ==
    ASSUME SessionInv, NEW s \in VpnSessions, task[s] \in {"top", "offline", "backoff"},
           NEW at \in {"top", "offline", "renew", "dial"}, Goto(s, at),
           at = "renew" => renew[s], at = "dial" => ~renew[s],
           UNCHANGED <<held, renew, halt, android, inject>>
    PROVE  SessionInv'
BY SessionAssumption DEF SessionInv, SessionTypes, InterfaceKept, SessionTracked, Goto

\* A session's own step.
LEMMA SessionStepInv == ASSUME SessionInv, NEW s \in VpnSessions, SessionStep(s) PROVE SessionInv'
<1> USE SessionAssumption DEF SessionInv, SessionTypes, InterfaceKept, SessionTracked
<1>1. CASE LoopTop(s)
  <2>1. CASE halt[s] = "yes" /\ Leave(s)
    BY <1>1, <2>1, SessionLeaves DEF LoopTop
  <2>2. CASE UNCHANGED held /\ Goto(s, IF ~online THEN "offline" ELSE IF renew[s] THEN "renew" ELSE "dial")
    BY <1>1, <2>2, SessionMoves DEF LoopTop
  <2> QED BY <1>1, <2>1, <2>2 DEF LoopTop
<1>2. CASE Parked(s)
  <2>1. CASE Woken(s) /\ Leave(s)
    BY <1>2, <2>1, SessionLeaves DEF Parked, Woken
  <2>2. CASE UNCHANGED held /\ Goto(s, IF renew[s] THEN "renew" ELSE "dial")
    BY <1>2, <2>2, SessionMoves DEF Parked
  <2> QED BY <1>2, <2>1, <2>2 DEF Parked
<1>3. CASE Dialed(s)
  BY <1>3 DEF Dialed, Goto
<1>4. CASE DialFailed(s)
  BY <1>4 DEF DialFailed, Goto
<1>5. CASE BackoffEnds(s)
  <2>1. CASE Woken(s) /\ Leave(s)
    BY <1>5, <2>1, SessionLeaves DEF BackoffEnds, Woken
  <2>2. CASE UNCHANGED held /\ Goto(s, "top")
    BY <1>5, <2>2, SessionMoves DEF BackoffEnds
  <2> QED BY <1>5, <2>1, <2>2 DEF BackoffEnds
<1>6. CASE EngineTakes(s)
  BY <1>6 DEF EngineTakes, Goto
<1>7. CASE EngineEnds(s)
  BY <1>7 DEF EngineEnds, Goto
<1>8. CASE AfterEngine(s)
  <2>1. CASE halt[s] = "yes"
    BY <1>8, <2>1, SessionLeaves DEF AfterEngine
  <2>2. CASE halt[s] # "yes"
    BY <1>8, <2>2, ZenonT(40) DEF AfterEngine, Goto
  <2> QED BY <2>1, <2>2
<1>9. ASSUME NEW ok \in BOOLEAN, Establish(s, ok) PROVE SessionInv'
  BY <1>9 DEF Establish, Goto
<1> QED BY <1>1, <1>2, <1>3, <1>4, <1>5, <1>6, <1>7, <1>8, <1>9 DEF SessionStep

\* The application's commands on Android: connect replaces the session,
\* disconnect takes it.
LEMMA AndroidInv == ASSUME SessionInv, Android PROVE SessionInv'
<1> USE SessionAssumption DEF SessionInv, SessionTypes, InterfaceKept, SessionTracked
<1>1. CASE AndroidConnect \/ AndroidDenied
  BY <1>1 DEF AndroidConnect, AndroidDenied, sessionVars
<1>2. CASE AndroidDisconnect
  BY <1>2 DEF AndroidDisconnect
<1>3. ASSUME NEW s \in VpnSessions, AndroidEstablished(s) PROVE SessionInv'
  BY <1>3 DEF AndroidEstablished, Spawned
<1>4. CASE Connectivity
  BY <1>4 DEF Connectivity
<1> QED BY <1>1, <1>2, <1>3, <1>4, SessionStepInv DEF Android

\* Every step of the application.
LEMMA SessionNextInv == SessionInv /\ [DesktopNext]_desktopVars => SessionInv'
<1> SUFFICES ASSUME SessionInv, [DesktopNext]_desktopVars PROVE SessionInv'
  OBVIOUS
<1>1. ASSUME UNCHANGED sessionVars PROVE SessionInv'
  BY <1>1 DEF sessionVars, SessionInv, SessionTypes, InterfaceKept, SessionTracked
<1>2. CASE Desktop
  <2>1. UNCHANGED sessionVars
    BY <1>2 DEF Desktop, EnsureRunning, PollEnds, ConnectFails, Subscribe, StartVpn, Disconnect, AppExits,
                PromptAccepted, PromptDeclined
  <2> QED BY <1>1, <2>1
<1>3. CASE Proxy \/ UNCHANGED desktopVars
  BY <1>1, <1>3 DEF Proxy, desktopVars
<1> QED BY <1>2, <1>3, AndroidInv DEF DesktopNext

\* The sessions' invariant in every reachable state.
LEMMA SessionsHold == DesktopSpec => []SessionInv
<1>1. DesktopInit => SessionInv
  BY SessionAssumption DEF DesktopInit, SessionInit, SessionInv, SessionTypes, InterfaceKept, SessionTracked
<1> QED BY <1>1, SessionNextInv, PTL DEF DesktopSpec

\* mobile.rs, for any number of sessions: no interface is leaked, used twice
\* or missing when a dial has succeeded.
THEOREM InterfaceAlwaysKept == DesktopSpec => []InterfaceKept
<1>1. SessionInv => InterfaceKept
  BY DEF SessionInv
<1> QED BY <1>1, SessionsHold, PTL

\* Connects and disconnects in any order leave no session behind that runs on
\* unseen with its sender alive.
THEOREM OneSessionTracked == DesktopSpec => []SessionTracked
<1>1. SessionInv => SessionTracked
  BY DEF SessionInv
<1> QED BY <1>1, SessionsHold, PTL
=============================================================================
