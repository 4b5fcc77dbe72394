----------------------------- MODULE DesktopApp -----------------------------
(***************************************************************************)
(* The application (gui/src-tauri lib.rs).  In VPN mode on a desktop it    *)
(* drives the privileged helper: connect makes sure one answers, launching *)
(* an elevated one behind the system's prompt if none does, subscribes and *)
(* only then starts; disconnect and quit shut the helper down.  On Android *)
(* the same commands drive sessions of its own process, and in proxy mode  *)
(* the supervisor (ProxyApp).                                              *)
(***************************************************************************)
EXTENDS Helper, AndroidSession, ProxyApp, Naturals

CONSTANT MaxConnects   \* bound: connect commands under way on Android

ASSUME ConnectsAssumption == MaxConnects \in Nat

VARIABLES platform,    \* "desktop" or "android" for VPN mode, or "proxy"
          connecting,  \* connect of each client: "no", "poll" or "client"
          handle,      \* AppState.helper: the client a disconnect would take
          prompt,      \* an elevation prompt is open
          asking       \* Android connects between the click and the session

appVars == <<platform, connecting, handle, prompt, asking>>
desktopVars == <<vars, sessionVars, appVars, proxyVars>>

DesktopTypeOK ==
    /\ TypeOK /\ ProxyTypeOK
    /\ task \in [VpnSessions -> {"none", "top", "offline", "renew", "dial", "backoff",
                                 "engine", "running", "stopping"}]
    /\ halt \in [VpnSessions -> {"no", "yes", "dropped"}]
    /\ android \in VpnSessions \cup {NoVpn} /\ inject \in VpnSessions \cup {NoVpn}
    /\ connecting \in [Clients -> {"no", "poll", "client"}] /\ handle \in [Clients -> BOOLEAN]
    /\ asking \in 0..MaxConnects

DesktopInit ==
    /\ Init /\ SessionInit /\ ProxyInit
    /\ platform \in {"desktop", "android", "proxy"}
    /\ platform # "desktop" => mode = "ephemeral" /\ kind = [c \in Clients |-> "gui"] /\ hears
    /\ connecting = [c \in Clients |-> "no"] /\ handle = [c \in Clients |-> FALSE]
    /\ platform # "proxy" => kill_switch
    /\ prompt = FALSE /\ asking = 0

-----------------------------------------------------------------------------
(* The desktop's commands, over the helper's own steps.                     *)

(* connect stores its client as soon as a helper answers.                   *)
Connecting(c, step) ==
    /\ connecting' = [connecting EXCEPT ![c] = step]
    /\ handle' = [handle EXCEPT ![c] = @ \/ step = "client"]

(* helper_responds: a connection and a status, which a live helper answers. *)
HelperResponds == alive

(* spawn_ephemeral_helper: pkexec, osascript or UAC.                        *)
OpenPrompt == prompt' = (prompt \/ ~HelperResponds)

(* ensure_running: the sidecar was found and is safe to elevate.            *)
EnsureRunning(c) ==
    /\ kind[c] = "gui" /\ pc[c] = "idle" /\ connecting[c] = "no"
    /\ Connecting(c, IF HelperResponds THEN "client" ELSE "poll")
    /\ OpenPrompt
    /\ UNCHANGED <<vars, sessionVars, platform, asking>>

(* One hundred looks at the endpoint, whatever becomes of the prompt.       *)
PollEnds(c) ==
    /\ connecting[c] = "poll"
    /\ Connecting(c, IF HelperResponds THEN "client" ELSE "no")
    /\ UNCHANGED <<vars, sessionVars, platform, prompt, asking>>

(* The elevated `run --ephemeral` starts serving its socket or pipe.        *)
PromptAccepted ==
    /\ prompt /\ prompt' = FALSE
    /\ Launch
    /\ UNCHANGED <<sessionVars, platform, connecting, handle, asking>>

PromptDeclined ==
    /\ prompt /\ prompt' = FALSE
    /\ UNCHANGED <<vars, sessionVars, platform, connecting, handle, asking>>

Subscribe(c) ==
    /\ connecting[c] = "client"
    /\ GuiSubscribe(c)
    /\ UNCHANGED <<sessionVars, appVars>>

\* Mutant: start_vpn is sent before the subscription.
StartVpnFirst(c) ==
    /\ connecting[c] = "client" /\ Connecting(c, "no")
    /\ kind[c] = "gui" /\ pc[c] \in {"idle", "stopping"}
    /\ Send(<<c, "start">>)
    /\ pc' = [pc EXCEPT ![c] = IF @ = "idle" THEN "starting" ELSE @]
    /\ UNCHANGED <<config, alive, exit, runner, sessionVars, platform, prompt, asking>>

StartVpn(c) ==
    /\ connecting[c] = "client" /\ Connecting(c, "no")
    /\ GuiStart(c)
    /\ UNCHANGED <<sessionVars, platform, prompt, asking>>

(* The helper went away under connect: subscribe or start_vpn fails.        *)
ConnectFails(c) ==
    /\ connecting[c] = "client" /\ ~alive
    /\ Connecting(c, "no")
    /\ UNCHANGED <<vars, sessionVars, platform, prompt, asking>>

(* disconnect, and quit: the client is taken and told to shut the helper    *)
(* down; that nobody listens is ignored.                                    *)
Disconnect(c) ==
    /\ handle[c] /\ handle' = [handle EXCEPT ![c] = FALSE]
    /\ GuiShutdown(c) \/ (~alive /\ UNCHANGED vars)
    /\ UNCHANGED <<sessionVars, platform, connecting, prompt, asking>>

(* The application ends, after quit's shutdown() or without it.             *)
AppExits(c) ==
    /\ Die(c)
    /\ connecting' = [connecting EXCEPT ![c] = "no"] /\ handle' = [handle EXCEPT ![c] = FALSE]
    /\ UNCHANGED <<sessionVars, platform, prompt, asking>>

Desktop ==
    /\ platform = "desktop" /\ UNCHANGED proxyVars
    /\ \/ \E c \in Clients : \/ EnsureRunning(c) \/ PollEnds(c) \/ ConnectFails(c)
                             \/ Subscribe(c) \/ StartVpn(c) \/ Disconnect(c)
                             \/ AppExits(c)
       \/ PromptAccepted \/ PromptDeclined
       \/ /\ \/ \E c \in Clients : \/ CliStart(c) \/ CliSubscribe(c) \/ CliInterrupt(c)
                                   \/ Relaunch(c)
             \/ \E s \in Sessions : Worker(s)
             \/ \E k \in Conns : Serve(k)
             \/ Exit
          /\ UNCHANGED <<sessionVars, appVars>>

-----------------------------------------------------------------------------
(* Android's commands.                                                      *)

AndroidConnect ==
    /\ asking < MaxConnects /\ asking' = asking + 1
    /\ UNCHANGED <<vars, sessionVars, platform, connecting, handle, prompt>>

(* The consent was denied, or establish failed.                             *)
AndroidDenied ==
    /\ asking > 0 /\ asking' = asking - 1
    /\ UNCHANGED <<vars, sessionVars, platform, connecting, handle, prompt>>

(* Consent, the missing rule lists, establish, and the session's task.      *)
AndroidEstablished(s) ==
    /\ asking > 0 /\ asking' = asking - 1
    /\ Spawned(s)
    /\ UNCHANGED <<vars, platform, connecting, handle, prompt>>

(* disconnect: takes the session, stops it and awaits its task.             *)
AndroidDisconnect ==
    /\ android # NoVpn
    /\ android' = NoVpn
    /\ halt' = [halt EXCEPT ![android] = "yes"]
    /\ UNCHANGED <<vars, task, held, renew, inject, online, appVars>>

Android ==
    /\ platform = "android" /\ UNCHANGED proxyVars
    /\ \/ AndroidConnect \/ AndroidDenied \/ AndroidDisconnect
       \/ \E s \in VpnSessions : AndroidEstablished(s)
       \/ /\ Connectivity \/ \E s \in VpnSessions : SessionStep(s)
          /\ UNCHANGED <<vars, appVars>>

-----------------------------------------------------------------------------
Proxy ==
    /\ platform = "proxy" /\ UNCHANGED <<vars, sessionVars, appVars>>
    /\ ProxyNext

DesktopNext == Desktop \/ Android \/ Proxy

DesktopSpec == DesktopInit /\ [][DesktopNext]_desktopVars

(* Dials and backoffs are bounded, establish answers; an engine whose stop  *)
(* or tunnel says so ends, another may run for ever.                        *)
SessionFairness ==
    \A s \in VpnSessions :
       /\ WF_sessionVars(LoopTop(s)) /\ WF_sessionVars(Parked(s))
       /\ WF_sessionVars(\E ok \in BOOLEAN : Establish(s, ok))
       /\ WF_sessionVars(Dialed(s) \/ DialFailed(s)) /\ WF_sessionVars(BackoffEnds(s))
       /\ WF_sessionVars(EngineTakes(s)) /\ WF_sessionVars(Woken(s) /\ EngineEnds(s))
       /\ WF_sessionVars(AfterEngine(s))

DesktopFairSpec == DesktopSpec /\ Fairness /\ SessionFairness

-----------------------------------------------------------------------------
(* The application is gone while a request of its is still being served:    *)
(* the engine it started, or was about to start, in a helper launched on    *)
(* demand does not keep the machine's routes, and no exit passes for its    *)
(* end but over a session accepted with that exit already on its way.       *)
(* However it went, where the host reports broken connections; on Windows   *)
(* if it asked for the shutdown before (lib.rs shutdown_and_exit: noticing  *)
(* the dropped pipe "is unreliable on Windows").                            *)
AppGoneNoEngine ==
    \A c \in Clients :
       (/\ kind[c] = "gui" /\ pc[c] = "gone" /\ mode = "ephemeral"
        /\ \/ hears /\ \E k \in Conns : k[1] = c /\ st[k] # "none"
           \/ st[<<c, "stop">>] \in {"queued", "lock", "drain"})
          ~> ((\A s \in Sessions : worker[s] \notin Live) /\ left # "torn")

(* disconnect returns: a session told to stop ends, wherever its reconnect  *)
(* loop is and whatever the network and other sessions do.                  *)
StopEndsSession ==
    \A s \in VpnSessions : halt[s] = "yes" ~> (halt[s] # "yes" \/ task[s] = "none")
=============================================================================
