------------------------------- MODULE Helper -------------------------------
(***************************************************************************)
(* The privileged VPN helper (crates/leshiy-helper) and the processes that  *)
(* drive it over its control socket: the desktop application and the        *)
(* `leshiy vpn` command.  Every connection carries one request and is       *)
(* served by a task of its own, so requests of one client may be handled in *)
(* any order.  EngineRunner owns at most one session: a slot behind an      *)
(* async mutex, and a worker task that prepares, runs and tears down the    *)
(* TUN engine.  A stop asks for the worker's end through a stored Notify    *)
(* permit and awaits it with the mutex held; a start only tries the mutex.  *)
(***************************************************************************)
CONSTANTS Clients,   \* processes that drive the helper
          Sessions,  \* identities of worker tasks, reused once out of the slot
          None       \* no session, no lock holder

ASSUME NoneAssumption == None \notin Sessions

VARIABLES hears,   \* the host tells the helper of every connection that breaks
          alive,   \* the helper process runs
          mode,    \* its ServeMode
          exit,    \* permit of the Notify the serve loop selects on
          slot,    \* EngineRunner.session: the Session it holds
          lock,    \* the connection whose stop() holds the mutex of the slot
          worker,  \* what each worker task is doing
          late,    \* the slot's session was accepted with an exit on its way
          left,    \* how the last exit left the network
          cancel,  \* permit of each session's cancel Notify
          state,   \* the watched State
          st,      \* progress of the task that serves each connection
          peer,    \* the client still holds its end of the connection
          kind,    \* the desktop application or the `leshiy vpn` command
          pc       \* what each client is doing

runner == <<slot, lock, worker, late, left, cancel, state>>
vars == <<hears, alive, mode, exit, slot, lock, worker, late, left, cancel, state, st, peer,
          kind, pc>>
config == <<hears, mode, kind>>

Conns == Clients \X {"sub", "start", "stop"}

ASSUME NoneConnAssumption == None \notin Conns

\* A worker that has not finished; one that has changed routes, DNS or devices.
Live == {"prepare", "up", "teardown", "ended"}
Mutated == {"up", "teardown"}

TypeOK ==
    /\ alive \in BOOLEAN /\ exit \in BOOLEAN /\ hears \in BOOLEAN
    /\ late \in BOOLEAN /\ left \in {"clean", "late", "torn"}
    /\ mode \in {"persistent", "ephemeral"}
    /\ kind \in [Clients -> {"gui", "cli"}]
    /\ slot \in Sessions \cup {None}
    /\ lock \in Conns \cup {None}
    /\ worker \in [Sessions -> Live \cup {"none", "finished"}]
    /\ cancel \in [Sessions -> BOOLEAN]
    /\ state \in {"Disconnected", "Connecting", "Connected"}
    /\ st \in [Conns -> {"none", "queued", "ready", "ok", "err", "stream",
                         "lock", "drain", "reply", "signal"}]
    /\ peer \in [Conns -> BOOLEAN]
    /\ pc \in [Clients -> {"idle", "starting", "up", "stopping", "stopped", "gone"}]

Init ==
    /\ alive = TRUE /\ exit = FALSE /\ hears \in BOOLEAN
    /\ late = FALSE /\ left = "clean"
    /\ mode \in {"persistent", "ephemeral"}
    /\ kind \in [Clients -> {"gui", "cli"}]
    /\ slot = None /\ lock = None
    /\ worker = [s \in Sessions |-> "none"]
    /\ cancel = [s \in Sessions |-> FALSE]
    /\ state = "Disconnected"
    /\ st = [k \in Conns |-> "none"]
    /\ peer = [k \in Conns |-> FALSE]
    /\ pc = [c \in Clients |-> "idle"]

-----------------------------------------------------------------------------
(* The clients.  Opening a connection writes its request at once.           *)

Send(k) == /\ alive /\ st[k] = "none"
           /\ st' = [st EXCEPT ![k] = "queued"]
           /\ peer' = [peer EXCEPT ![k] = TRUE]

(* The desktop application's connect: subscribe, if it does not already     *)
(* hold a subscription, then start.  A retry's second subscription ends     *)
(* together with the first, so one stands for both.  A disconnect may have  *)
(* come in between: connect goes on with the client it has.                 *)
GuiSubscribe(c) == /\ kind[c] = "gui" /\ pc[c] \in {"idle", "stopping"}
                   /\ Send(<<c, "sub">>)
                   /\ UNCHANGED <<config, alive, exit, runner, pc>>

GuiStart(c) == /\ kind[c] = "gui" /\ pc[c] \in {"idle", "stopping"} /\ peer[<<c, "sub">>]
               /\ Send(<<c, "start">>)
               /\ pc' = [pc EXCEPT ![c] = IF @ = "idle" THEN "starting" ELSE @]
               /\ UNCHANGED <<config, alive, exit, runner>>

(* Its disconnect, possible at any point of a connect that has its client.  *)
GuiShutdown(c) == /\ kind[c] = "gui" /\ pc[c] \in {"idle", "starting", "up"}
                  /\ Send(<<c, "stop">>)
                  /\ pc' = [pc EXCEPT ![c] = "stopping"]
                  /\ UNCHANGED <<config, alive, exit, runner>>

(* A helper launched on demand comes up, perhaps after the application that *)
(* asked for it has given up or is gone.                                    *)
Launch == /\ ~alive
          /\ alive' = TRUE /\ mode' = "ephemeral"
          /\ UNCHANGED <<hears, kind, exit, runner, st, peer, pc>>

(* `leshiy vpn`: start, and only once it is answered subscribe.             *)
CliStart(c) == /\ kind[c] = "cli" /\ pc[c] = "idle"
               /\ Send(<<c, "start">>)
               /\ pc' = [pc EXCEPT ![c] = "starting"]
               /\ UNCHANGED <<config, alive, exit, runner>>

CliSubscribe(c) == /\ kind[c] = "cli" /\ pc[c] = "up"
                   /\ Send(<<c, "sub">>)
                   /\ UNCHANGED <<config, alive, exit, runner, pc>>

(* A signal: stop is sent on a new connection.  During start-up the select  *)
(* drops the request that was under way.                                    *)
CliInterrupt(c) ==
    /\ kind[c] = "cli" /\ pc[c] \in {"starting", "up"}
    /\ alive /\ st[<<c, "stop">>] = "none"
    /\ st' = [st EXCEPT ![<<c, "stop">>] = "queued"]
    /\ peer' = [peer EXCEPT ![<<c, "stop">>] = TRUE, ![<<c, "start">>] = FALSE]
    /\ pc' = [pc EXCEPT ![c] = "stopping"]
    /\ UNCHANGED <<config, alive, exit, runner>>

HangUp(c) == peer' = [k \in Conns |-> IF k[1] = c THEN FALSE ELSE peer[k]]

(* A client's process ends: a crash or a kill at any moment, the command's  *)
(* stop_bounded giving up after its timeout.  All its connections close.    *)
Die(c) == /\ pc[c] \notin {"stopped", "gone"}
          /\ HangUp(c)
          /\ pc' = [pc EXCEPT ![c] = "gone"]
          /\ UNCHANGED <<config, alive, exit, runner, st>>

Relaunch(c) == /\ pc[c] \in {"stopped", "gone"}
               /\ \A k \in Conns : k[1] = c => st[k] = "none"
               /\ pc' = [pc EXCEPT ![c] = "idle"]
               /\ \E new \in {"gui", "cli"} : kind' = [kind EXCEPT ![c] = new]
               /\ UNCHANGED <<hears, alive, mode, exit, runner, st, peer>>

-----------------------------------------------------------------------------
(* Serving a start: EngineRunner::start_prepared.                           *)

\* Mutant: the slot's unfinished worker is not looked at.
RefusedLockOnly == lock # None

Refused == lock # None \/ (slot # None /\ worker[slot] # "finished")

StartRefused(k) ==
    /\ alive /\ st[k] = "queued" /\ k[2] = "start"
    /\ Refused
    /\ st' = [st EXCEPT ![k] = "err"]
    /\ UNCHANGED <<config, alive, exit, runner, peer, pc>>

(* The process is about to exit: the stop that leads to it has returned.    *)
Leaving ==
    \/ exit
    \/ \E k \in Conns :
         \/ st[k] = "signal"
         \/ st[k] = "reply" /\ kind[k[1]] = "gui" /\ peer[k] /\ mode = "ephemeral"

StartAccepted(k) ==
    /\ alive /\ st[k] = "queued" /\ k[2] = "start"
    /\ ~Refused
    /\ \E s \in Sessions :
         /\ worker[s] \in {"none", "finished"}
         /\ worker' = [worker EXCEPT ![s] = "prepare"]
         /\ cancel' = [cancel EXCEPT ![s] = FALSE]
         /\ slot' = s
    /\ late' = Leaving
    /\ state' = "Connecting"
    /\ st' = [st EXCEPT ![k] = "ready"]
    /\ UNCHANGED <<config, alive, exit, lock, left, peer, pc>>

(* What the worker's oneshot tells the start that waits for it.             *)
Answered(result) == [k \in Conns |-> IF st[k] = "ready" THEN result ELSE st[k]]

(* write_line to a client that is gone is an error, which is only logged.   *)
StartReplied(k) ==
    /\ alive /\ st[k] \in {"ok", "err"}
    /\ st' = [st EXCEPT ![k] = "none"]
    /\ peer' = [peer EXCEPT ![k] = FALSE]
    /\ pc' = IF ~peer[k] \/ pc[k[1]] # "starting" THEN pc
             ELSE [pc EXCEPT ![k[1]] = IF st[k] = "ok" THEN "up"
                                       ELSE IF kind[k[1]] = "gui" THEN "idle" ELSE "gone"]
    /\ UNCHANGED <<config, alive, exit, runner>>

-----------------------------------------------------------------------------
(* The worker task.  Its first select is biased towards cancellation; once  *)
(* the engine runs, only the engine looks at the permit.                    *)

Prepared(s) ==
    /\ alive /\ worker[s] = "prepare" /\ ~cancel[s]
    /\ state' = "Connected"
    /\ worker' = [worker EXCEPT ![s] = "up"]
    /\ st' = Answered("ok")
    /\ UNCHANGED <<config, alive, exit, late, left, slot, lock, cancel, peer, pc>>

(* Preparation cancelled or failed.                                         *)
PrepareEnded(s) ==
    /\ alive /\ worker[s] = "prepare"
    /\ cancel' = [cancel EXCEPT ![s] = FALSE]
    /\ worker' = [worker EXCEPT ![s] = "ended"]
    /\ state' = "Disconnected"
    /\ st' = Answered("err")
    /\ UNCHANGED <<config, alive, exit, late, left, slot, lock, peer, pc>>

(* pump returns: the permit was there, or the device or the tunnel failed.  *)
EngineStops(s) ==
    /\ alive /\ worker[s] = "up"
    /\ cancel' = [cancel EXCEPT ![s] = FALSE]
    /\ worker' = [worker EXCEPT ![s] = "teardown"]
    /\ UNCHANGED <<config, alive, exit, late, left, slot, lock, state, st, peer, pc>>

(* Routes, DNS and devices are restored before run returns.                 *)
Restored(s) ==
    /\ alive /\ worker[s] = "teardown"
    /\ worker' = [worker EXCEPT ![s] = "ended"]
    /\ state' = "Disconnected"
    /\ UNCHANGED <<config, alive, exit, late, left, slot, lock, cancel, st, peer, pc>>

(* The task is finished only after its last statement.                      *)
WorkerFinishes(s) ==
    /\ alive /\ worker[s] = "ended"
    /\ worker' = [worker EXCEPT ![s] = "finished"]
    /\ UNCHANGED <<config, alive, exit, late, left, slot, lock, cancel, state, st, peer, pc>>

-----------------------------------------------------------------------------
(* Serving Stop, Shutdown and Subscribe: EngineRunner::stop.                *)

StopRead(k) ==
    /\ alive /\ st[k] = "queued" /\ k[2] = "stop"
    /\ st' = [st EXCEPT ![k] = "lock"]
    /\ UNCHANGED <<config, alive, exit, runner, peer, pc>>

SubscribeRead(k) ==
    /\ alive /\ st[k] = "queued" /\ k[2] = "sub"
    /\ st' = [st EXCEPT ![k] = "stream"]
    /\ UNCHANGED <<config, alive, exit, runner, peer, pc>>

(* The loop's end, however it notices, always leads to a stop.  On Windows  *)
(* it may go unnoticed that the pipe broke.                                 *)
SubscriberLost(k) ==
    /\ alive /\ st[k] = "stream" /\ ~peer[k]
    /\ st' = [st EXCEPT ![k] = "lock"]
    /\ UNCHANGED <<config, alive, exit, runner, peer, pc>>

(* What follows a stop: an answer to a request; after a lost subscription   *)
(* the exit signal of an ephemeral helper.                                  *)
AfterStop(k) == IF k[2] = "stop" THEN "reply"
                ELSE IF mode = "ephemeral" THEN "signal" ELSE "none"

StopIdle(k) ==
    /\ alive /\ st[k] = "lock" /\ lock = None
    /\ slot = None
    /\ state' = "Disconnected"
    /\ st' = [st EXCEPT ![k] = AfterStop(k)]
    /\ UNCHANGED <<config, alive, exit, late, left, slot, lock, worker, cancel, peer, pc>>

\* Mutant: notify_waiters, which stores no permit for a busy worker.
StopCancelsUnstored(k) ==
    /\ alive /\ st[k] = "lock" /\ lock = None
    /\ slot # None
    /\ lock' = k
    /\ st' = [st EXCEPT ![k] = "drain"]
    /\ UNCHANGED <<config, alive, exit, late, left, slot, worker, cancel, state, peer, pc>>

StopCancels(k) ==
    /\ alive /\ st[k] = "lock" /\ lock = None
    /\ slot # None
    /\ lock' = k
    /\ cancel' = [cancel EXCEPT ![slot] = TRUE]
    /\ st' = [st EXCEPT ![k] = "drain"]
    /\ UNCHANGED <<config, alive, exit, late, left, slot, worker, state, peer, pc>>

\* Mutant: the timeout abandons the worker instead of only warning.
StopAbandons(k) ==
    /\ alive /\ st[k] = "drain"
    /\ slot # None
    /\ slot' = None /\ lock' = None
    /\ state' = "Disconnected"
    /\ st' = [st EXCEPT ![k] = AfterStop(k)]
    /\ UNCHANGED <<config, alive, exit, late, left, worker, cancel, peer, pc>>

StopDrained(k) ==
    /\ alive /\ st[k] = "drain"
    /\ slot # None /\ worker[slot] = "finished"
    /\ slot' = None /\ lock' = None
    /\ worker' = [worker EXCEPT ![slot] = "none"] /\ late' = FALSE
    /\ state' = "Disconnected"
    /\ st' = [st EXCEPT ![k] = AfterStop(k)]
    /\ UNCHANGED <<config, alive, exit, left, cancel, peer, pc>>

(* Stop and Shutdown acknowledge; Shutdown goes on to the exit signal only  *)
(* when the acknowledgement could be written.                               *)
StopReplied(k) ==
    /\ alive /\ st[k] = "reply"
    /\ st' = [st EXCEPT ![k] = IF kind[k[1]] = "gui" /\ peer[k] /\ mode = "ephemeral"
                               THEN "signal" ELSE "none"]
    /\ IF ~peer[k] THEN UNCHANGED <<peer, pc>>
       ELSE IF kind[k[1]] = "gui"
            THEN /\ pc' = [pc EXCEPT ![k[1]] = "idle"]
                 /\ peer' = [peer EXCEPT ![k] = FALSE]
            ELSE /\ pc' = [pc EXCEPT ![k[1]] = "stopped"]
                 /\ HangUp(k[1])
    /\ UNCHANGED <<config, alive, exit, runner>>

SignalExit(k) ==
    /\ alive /\ st[k] = "signal"
    /\ exit' = TRUE
    /\ st' = [st EXCEPT ![k] = "none"]
    /\ UNCHANGED <<config, alive, runner, peer, pc>>

(* serve_control returns and main calls process::exit: every task is gone,  *)
(* every client sees its connection break.  Routes and DNS that a session   *)
(* had changed stay as they are.                                            *)
Exit ==
    /\ alive /\ exit
    /\ alive' = FALSE /\ exit' = FALSE
    /\ slot' = None /\ lock' = None
    /\ left' = IF \A s \in Sessions : worker[s] \notin Mutated THEN "clean"
               ELSE IF late THEN "late" ELSE "torn"
    /\ worker' = [s \in Sessions |-> "none"] /\ late' = FALSE
    /\ cancel' = [s \in Sessions |-> FALSE]
    /\ state' = "Disconnected"
    /\ st' = [k \in Conns |-> "none"]
    /\ peer' = [k \in Conns |-> FALSE]
    /\ pc' = [c \in Clients |-> IF pc[c] \in {"idle", "stopped", "gone"} THEN pc[c]
                                ELSE IF kind[c] = "gui" THEN "idle" ELSE "gone"]
    /\ UNCHANGED config

-----------------------------------------------------------------------------
Client(c) == \/ GuiSubscribe(c) \/ GuiStart(c) \/ GuiShutdown(c)
             \/ CliStart(c) \/ CliSubscribe(c) \/ CliInterrupt(c)
             \/ Die(c) \/ Relaunch(c)

Worker(s) == \/ Prepared(s) \/ PrepareEnded(s) \/ EngineStops(s)
             \/ Restored(s) \/ WorkerFinishes(s)

Serve(k) == \/ StartRefused(k) \/ StartAccepted(k) \/ StartReplied(k)
            \/ StopRead(k) \/ SubscribeRead(k) \/ SubscriberLost(k)
            \/ StopIdle(k) \/ StopCancels(k) \/ StopDrained(k)
            \/ StopReplied(k) \/ SignalExit(k)

Next == \/ \E c \in Clients : Client(c)
        \/ \E s \in Sessions : Worker(s)
        \/ \E k \in Conns : Serve(k)
        \/ Launch \/ Exit

Spec == Init /\ [][Next]_vars

(* The runtime polls every ready task; the mutex serves its waiters in the  *)
(* order they came; preparation is bounded by its timeout, a teardown ends. *)
(* An engine nobody cancels may run for ever, and a broken connection is    *)
(* sure to be noticed only where the host reports it.                       *)
Fairness ==
    /\ \A k \in Conns : /\ WF_vars(StartRefused(k) \/ StartAccepted(k))
                        /\ WF_vars(StartReplied(k))
                        /\ WF_vars(StopRead(k) \/ SubscribeRead(k))
                        /\ WF_vars(hears /\ SubscriberLost(k))
                        /\ SF_vars(StopIdle(k) \/ StopCancels(k))
                        /\ WF_vars(StopDrained(k))
                        /\ WF_vars(StopReplied(k)) /\ WF_vars(SignalExit(k))
    /\ \A s \in Sessions : /\ WF_vars(Prepared(s) \/ PrepareEnded(s))
                           /\ WF_vars(cancel[s] /\ EngineStops(s))
                           /\ WF_vars(Restored(s)) /\ WF_vars(WorkerFinishes(s))
    /\ WF_vars(Exit)

FairSpec == Spec /\ Fairness

-----------------------------------------------------------------------------
(* Every worker that has not finished is the one in the slot, so the next   *)
(* stop finds it: no interleaving of starts and stops orphans an engine or  *)
(* runs two of them over the same routes.                                   *)
SlotOwnsEngine == \A s \in Sessions : worker[s] \in Live => s = slot

(* The state the clients are shown never claims a restored network while an *)
(* engine still has routes or DNS changed, and never claims a session that  *)
(* no worker carries.                                                       *)
StateHonest ==
    /\ state = "Disconnected" => \A s \in Sessions : worker[s] \notin Mutated
    /\ state = "Connected" => slot # None /\ worker[slot] \in Mutated
    /\ state = "Connecting" => slot # None /\ worker[slot] = "prepare"

(* A start that waits for its worker's answer has a worker that will give   *)
(* it, so no client is left on "Connecting".                                *)
ReadyHasWorker ==
    \A k \in Conns : st[k] = "ready" => slot # None /\ worker[slot] = "prepare"

(* When stop() returns, the network is restored: no task leaves it while a  *)
(* worker still runs; and the process never exits under a session that a    *)
(* stop was to end.  One that was accepted after the last stop, while the   *)
(* exit was on its way, is killed with what it had changed (runner.rs:       *)
(* "process exit [...] before route/DNS restoration is unsafe").            *)
StopRestores ==
    [][/\ \A k \in Conns :
            st[k] \in {"lock", "drain"} /\ st'[k] \in {"reply", "signal", "none"} /\ alive'
               => \A s \in Sessions : worker'[s] \notin Live
       /\ left' # "torn"]_vars

(* Every Stop and Shutdown comes to an end, whatever other clients do.      *)
StopReturns ==
    \A k \in Conns : st[k] \in {"lock", "drain"} ~> st[k] \notin {"lock", "drain"}

=============================================================================
