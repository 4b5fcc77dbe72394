------------------------------ MODULE ProxyApp ------------------------------
(***************************************************************************)
(* The desktop application in proxy mode (gui/src-tauri lib.rs): the       *)
(* window's and the tray's commands, the supervisor they are sent to, and  *)
(* the file .proxy-active, from which the next launch learns that the      *)
(* operating system's proxy was left behind.  The supervisor stands here   *)
(* as ProxySession, which Supervisor is shown to implement.  Quitting and  *)
(* crashing are one step: quit does not disconnect the supervisor, and the *)
(* proxy outlives the process.                                             *)
(***************************************************************************)
LOCAL INSTANCE Naturals
LOCAL INSTANCE Sequences

CONSTANT Slots   \* of the supervisor's command channel

ASSUME SlotsAssumption == Slots \in Nat \ {0}

VARIABLES shown,       \* the state the supervisor publishes
          osProxy,     \* the operating system's proxy
          kill_switch,
          inbox,       \* commands sent to the supervisor, with their sender
          up,          \* the process runs
          click,       \* where the window's command is
          marker,      \* .proxy-active exists
          launched,    \* what the last launch did: "clean", "cleared", "failed"
          word,        \* the window's last command, "unmarked" if write failed
          origin       \* who asked for the session that the proxy is from

proxyVars == <<shown, osProxy, kill_switch, inbox, up, click, marker, launched,
               word, origin>>

Supervised == INSTANCE ProxySession WITH ui <- shown, proxy <- osProxy, kill <- kill_switch

ProxyTypeOK ==
    /\ shown \in {"Disconnected", "Connecting", "Connected", "Reconnecting", "Error"}
    /\ osProxy \in {"on", "off"} /\ kill_switch \in BOOLEAN
    /\ inbox \in Seq({"Connect", "Disconnect"} \X {"window", "tray"}) /\ Len(inbox) <= Slots
    /\ up \in BOOLEAN /\ marker \in BOOLEAN
    /\ click \in {"idle", "connect", "disconnect"}
    /\ launched \in {"clean", "cleared", "failed"}
    /\ word \in {"none", "connect", "unmarked", "disconnect"}
    /\ origin \in {"none", "window", "tray", "stale"}

ProxyInit ==
    /\ Supervised!Init
    /\ inbox = <<>> /\ up = TRUE /\ click = "idle" /\ marker = FALSE
    /\ launched = "clean" /\ word = "none" /\ origin = "none"

-----------------------------------------------------------------------------
(* Commands.  try_send drops what does not fit.                            *)

Post(cmd, from) ==
    inbox' = IF Len(inbox) < Slots THEN Append(inbox, <<cmd, from>>) ELSE inbox

\* The window's button connects or disconnects by the state it shows.
Toggles == {"Connecting", "Connected", "Reconnecting"}

\* The marker is written before the command is sent; a failed write is ignored.
WindowConnect ==
    /\ up /\ click = "idle" /\ shown \notin Toggles
    /\ click' = "connect"
    /\ marker' \in {TRUE, marker}
    /\ word' = IF marker' THEN "connect" ELSE "unmarked"
    /\ UNCHANGED <<shown, osProxy, kill_switch, inbox, up, launched, origin>>

WindowConnectSends ==
    /\ up /\ click = "connect" /\ click' = "idle"
    /\ Post("Connect", "window")
    /\ UNCHANGED <<shown, osProxy, kill_switch, up, marker, launched, word, origin>>

WindowDisconnect ==
    /\ up /\ click = "idle" /\ shown \in Toggles
    /\ click' = "disconnect" /\ word' = "disconnect"
    /\ Post("Disconnect", "window")
    /\ UNCHANGED <<shown, osProxy, kill_switch, up, marker, launched, origin>>

\* The marker goes with the request, not with its completion.
WindowDisconnectUnmarks ==
    /\ up /\ click = "disconnect" /\ click' = "idle"
    /\ marker' \in {FALSE, marker}
    /\ UNCHANGED <<shown, osProxy, kill_switch, inbox, up, launched, word, origin>>

\* The tray's items know no marker.
Tray(cmd) ==
    /\ up
    /\ Post(cmd, "tray")
    /\ UNCHANGED <<shown, osProxy, kill_switch, up, click, marker, launched, word, origin>>

-----------------------------------------------------------------------------
(* The supervisor.                                                         *)

Started(from) ==
    origin' = IF from = "tray" /\ osProxy = "on" THEN origin ELSE from

Receives ==
    /\ up /\ inbox # <<>> /\ inbox' = Tail(inbox)
    /\ LET cmd == Head(inbox)[1]
           from == Head(inbox)[2]
       IN  \/ cmd = "Connect" /\ Supervised!Start /\ Started(from)
           \/ cmd = "Connect" /\ shown \in Toggles
              /\ UNCHANGED <<shown, osProxy, kill_switch, origin>>
           \/ cmd = "Disconnect" /\ Supervised!Stop /\ origin' = "none"
           \/ cmd = "Disconnect" /\ Supervised!Fail /\ UNCHANGED origin
           \/ cmd = "Disconnect" /\ shown = "Disconnected"
              /\ UNCHANGED <<shown, osProxy, kill_switch, origin>>
    /\ UNCHANGED <<up, click, marker, launched, word>>

\* Dials, drops, retries and local failures.
Carries ==
    /\ up
    /\ Supervised!Establish \/ Supervised!Drop \/ (shown # "Error" /\ Supervised!Fail)
    /\ UNCHANGED <<inbox, up, click, marker, launched, word, origin>>

-----------------------------------------------------------------------------
(* The process.                                                            *)

\* Mutant: quitting removes the marker as a disconnect does.
AppEndsUnmarked ==
    /\ up /\ up' = FALSE
    /\ marker' = FALSE
    /\ UNCHANGED <<shown, osProxy, kill_switch, inbox, click, launched, word, origin>>

AppEnds ==
    /\ up /\ up' = FALSE
    /\ UNCHANGED <<shown, osProxy, kill_switch, inbox, click, marker, launched, word, origin>>

\* build_app_state: settings are read, a surviving marker has the proxy cleared
\* (the result ignored) and is removed, and a new supervisor is spawned.
Launches(ok) ==
    /\ ~up /\ up' = TRUE
    /\ launched' = IF ~marker THEN "clean" ELSE IF ok THEN "cleared" ELSE "failed"
    /\ osProxy' = IF launched' = "cleared" THEN "off" ELSE osProxy
    /\ marker' \in {FALSE, marker}
    /\ shown' = "Disconnected" /\ kill_switch' \in BOOLEAN /\ inbox' = <<>>
    /\ click' = "idle" /\ word' = "none"
    /\ origin' = IF osProxy' = "on" THEN "stale" ELSE "none"

ProxyNext ==
    \/ WindowConnect \/ WindowConnectSends
    \/ WindowDisconnect \/ WindowDisconnectUnmarks
    \/ \E cmd \in {"Connect", "Disconnect"} : Tray(cmd)
    \/ Receives \/ Carries
    \/ AppEnds \/ \E ok \in BOOLEAN : Launches(ok)

-----------------------------------------------------------------------------
(* However the process ended and whatever the tray did meanwhile: a proxy   *)
(* that a session asked for in the window left behind, without a later      *)
(* disconnect from the window, is cleared by the next launch, unless the    *)
(* operating system refuses (build_app_state, the marker of connect).       *)
StaleProxyCleared ==
    [][ ~up /\ up' /\ origin = "window" /\ word = "connect"
          => osProxy' = "off" \/ launched' = "failed" ]_proxyVars
=============================================================================
