--------------------------- MODULE AndroidSession ---------------------------
(***************************************************************************)
(* The in-process VPN of the Android application (gui/src-tauri            *)
(* mobile.rs).  A session is a task on a runtime that is never dropped: it *)
(* owns the VpnService interface it was given, dials, injects the          *)
(* interface into the process-wide slot, runs the TUN engine and, whenever *)
(* the tunnel drops, establishes a new interface and dials again.  Only    *)
(* the stop watch of the session ends it.  AppState keeps one session; a   *)
(* second connect replaces it, which drops the first one's sender.         *)
(***************************************************************************)
CONSTANTS VpnSessions,  \* identities of session tasks
          NoVpn         \* no session in AppState, no interface in the slot

ASSUME SessionAssumption == NoVpn \notin VpnSessions

VARIABLES task,     \* where each session's loop is
          held,     \* the session holds an interface (fd: Option<PendingTunFd>)
          renew,    \* need_establish
          halt,     \* its stop watch: "no", "yes", or "dropped" by its sender
          android,  \* AppState.android_vpn
          inject,   \* the session whose interface waits in set_tun_fd's slot
          online    \* the ONLINE watch

sessionVars == <<task, held, renew, halt, android, inject, online>>

SessionInit ==
    /\ task = [s \in VpnSessions |-> "none"]
    /\ held = [s \in VpnSessions |-> FALSE]
    /\ renew = [s \in VpnSessions |-> FALSE]
    /\ halt = [s \in VpnSessions |-> "no"]
    /\ android = NoVpn /\ inject = NoVpn
    /\ online = TRUE

(* connect's end: the established interface goes to a fresh task and the   *)
(* handle replaces whatever AppState held.                                 *)
Spawned(s) ==
    /\ task[s] = "none"
    /\ task' = [task EXCEPT ![s] = "top"]
    /\ held' = [held EXCEPT ![s] = TRUE]
    /\ renew' = [renew EXCEPT ![s] = FALSE]
    /\ halt' = [r \in VpnSessions |-> IF r = s THEN "no"
                                   ELSE IF r = android THEN "dropped" ELSE halt[r]]
    /\ android' = s
    /\ UNCHANGED <<inject, online>>

Goto(s, at) == task' = [task EXCEPT ![s] = at]

(* A wait_for on the stop watch returns for a stop and for a lost sender.  *)
Woken(s) == halt[s] # "no"

\* The loop is left: what the task still holds is closed with it.
Leave(s) == Goto(s, "none") /\ held' = [held EXCEPT ![s] = FALSE]

(* The head of the loop looks at the value only, so a lost sender goes on. *)
LoopTop(s) ==
    /\ task[s] = "top"
    /\ \/ halt[s] = "yes" /\ Leave(s)
       \/ /\ halt[s] # "yes" /\ UNCHANGED held
          /\ Goto(s, IF ~online THEN "offline" ELSE IF renew[s] THEN "renew" ELSE "dial")
    /\ UNCHANGED <<renew, halt, android, inject, online>>

\* Mutant: only connectivity ends the wait.
ParkedDeaf(s) ==
    /\ task[s] = "offline"
    /\ online /\ Goto(s, IF renew[s] THEN "renew" ELSE "dial") /\ UNCHANGED held
    /\ UNCHANGED <<renew, halt, android, inject, online>>

Parked(s) ==
    /\ task[s] = "offline"
    /\ \/ online /\ Goto(s, IF renew[s] THEN "renew" ELSE "dial") /\ UNCHANGED held
       \/ Woken(s) /\ Leave(s)
    /\ UNCHANGED <<renew, halt, android, inject, online>>

(* establish_tun, which replaces the service's interface.                  *)
Establish(s, ok) ==
    /\ task[s] = "renew"
    /\ Goto(s, IF ok THEN "dial" ELSE "backoff")
    /\ held' = [held EXCEPT ![s] = ok]
    /\ renew' = [renew EXCEPT ![s] = ~ok]
    /\ UNCHANGED <<halt, android, inject, online>>

(* The dial is not raced with the stop.  An interface still waiting in the *)
(* slot is closed by the one that replaces it.                             *)
Dialed(s) ==
    /\ task[s] = "dial" /\ held[s]
    /\ Goto(s, "engine")
    /\ held' = [held EXCEPT ![s] = FALSE]
    /\ inject' = s
    /\ UNCHANGED <<renew, halt, android, online>>

DialFailed(s) ==
    /\ task[s] = "dial"
    /\ Goto(s, "backoff")
    /\ UNCHANGED <<held, renew, halt, android, inject, online>>

(* backoff_or_stop.                                                        *)
BackoffEnds(s) ==
    /\ task[s] = "backoff"
    /\ \/ Goto(s, "top") /\ UNCHANGED held
       \/ Woken(s) /\ Leave(s)
    /\ UNCHANGED <<renew, halt, android, inject, online>>

(* The engine takes whatever interface the slot has, and fails at once if  *)
(* there is none.                                                          *)
EngineTakes(s) ==
    /\ task[s] = "engine"
    /\ Goto(s, IF inject # NoVpn THEN "running" ELSE "stopping")
    /\ inject' = NoVpn
    /\ UNCHANGED <<held, renew, halt, android, online>>

(* The bridge task: the tunnel closed, or the stop watch woke.             *)
EngineEnds(s) ==
    /\ task[s] = "running"
    /\ Goto(s, "stopping")
    /\ UNCHANGED <<held, renew, halt, android, inject, online>>

(* clear_tun_fd, then a user's stop leaves and a drop goes round.          *)
AfterEngine(s) ==
    /\ task[s] = "stopping"
    /\ inject' = NoVpn
    /\ IF halt[s] = "yes" THEN Leave(s) /\ UNCHANGED renew
       ELSE /\ Goto(s, "top") /\ UNCHANGED held
            /\ renew' = [renew EXCEPT ![s] = TRUE]
    /\ UNCHANGED <<halt, android, online>>

Connectivity ==
    /\ online' = ~online
    /\ UNCHANGED <<task, held, renew, halt, android, inject>>

SessionStep(s) == \/ LoopTop(s) \/ Parked(s) \/ Dialed(s) \/ DialFailed(s)
                  \/ BackoffEnds(s) \/ EngineTakes(s) \/ EngineEnds(s) \/ AfterEngine(s)
                  \/ \E ok \in BOOLEAN : Establish(s, ok)
=============================================================================
