---------------------------- MODULE ProxySession ----------------------------
(***************************************************************************)
(* What the proxy-mode supervisor promises whoever watches it: the state   *)
(* it publishes (supervisor.rs State, sent by Action::Emit) and the OS     *)
(* proxy setting (SystemProxy in sysproxy.rs), with every task, channel,   *)
(* retry and generation hidden.                                            *)
(***************************************************************************)

VARIABLES ui, proxy, kill

vars == <<ui, proxy, kill>>

Init == ui = "Disconnected" /\ proxy = "off" /\ kill \in BOOLEAN

\* A session is asked for; a proxy retained by an earlier failure stays.
Start ==
    /\ ui \in {"Disconnected", "Error"}
    /\ ui' = "Connecting"
    /\ UNCHANGED <<proxy, kill>>

\* Connected is only reported with the proxy in place; under the kill switch
\* a reconnect never took it away.
Establish ==
    /\ ui \in {"Connecting", "Reconnecting"}
    /\ ui' = "Connected"
    /\ proxy' = "on"
    /\ UNCHANGED kill

\* The tunnel dropped: fail closed with the kill switch, go direct without.
Drop ==
    /\ ui = "Connected"
    /\ ui' = "Reconnecting"
    /\ proxy' = IF kill THEN "on" ELSE "off"
    /\ UNCHANGED kill

\* Giving up on a session: what is left of the proxy is unknown, but from
\* Connected or Error a failure never switches it on.
Fail ==
    /\ ui # "Disconnected"
    /\ ui' = "Error"
    /\ proxy' \in {"on", "off"}
    /\ ui # "Connecting" /\ proxy = "off" => (proxy' = "off" \/ ui = "Reconnecting")
    /\ UNCHANGED kill

\* The user's Disconnect completed: nothing is left behind.
Stop ==
    /\ ui # "Disconnected"
    /\ ui' = "Disconnected"
    /\ proxy' = "off"
    /\ UNCHANGED kill

Next == Start \/ Establish \/ Drop \/ Fail \/ Stop

Spec == Init /\ [][Next]_vars
=============================================================================
