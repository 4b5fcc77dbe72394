---------------------------- MODULE DialedTunnel ----------------------------
(***************************************************************************)
(* ReconnectingTunnel over the transport it is used with (leshiy-client    *)
(* adapter/dial.rs): a dial runs REALITY over TCP, QUIC over UDP, or races *)
(* the two, QUIC first and REALITY warmed up behind it.  What a dial can   *)
(* come to is decided here by the network and by the timeouts, where       *)
(* ReconnectingTunnel lets it end either way.                              *)
(***************************************************************************)
EXTENDS ReconnectingTunnel, Naturals

CONSTANTS Dials,      \* the configurations: a profile's URI and a preference
          QuicAddrs   \* addresses the QUIC host resolves to

ASSUME AddrsAssumption == QuicAddrs \in Nat \ {0}

VARIABLES cfg,      \* the uri and pref the wrapper was spawned with
          up,       \* the protocols over which the server answers
          reality,  \* the REALITY attempt, its own task in a race
          quic,     \* the QUIC attempt
          tries     \* the address it is at

dialvars == <<reality, quic, tries>>
dialedVars == <<vars, cfg, up, dialvars>>

(* RealityUri::parse: malformed, or with no QUIC endpoint, or with one that *)
(* carries a certificate pin or does not.                                   *)
Uris == {"malformed", "plain", "unpinned", "pinned"}

DialedTypeOK ==
    /\ TypeOK
    /\ cfg \in [uri : Uris, pref : {"tcp", "quic", "auto"}]
    /\ up \subseteq {"tcp", "udp"}
    /\ reality \in {"off", "wait", "connect", "up", "failed"}
    /\ quic \in {"off", "lookup", "try", "failed"}
    /\ tries \in 0..QuicAddrs

(* RealTransport::dial.                                                     *)
Route == IF cfg.uri = "malformed" THEN "refused"
         ELSE CASE cfg.pref = "tcp"  -> "reality"
                [] cfg.pref = "quic" -> IF cfg.uri = "plain" THEN "refused" ELSE "quic"
                [] cfg.pref = "auto" -> IF cfg.uri = "plain" THEN "reality" ELSE "race"

DialedInit ==
    /\ Init
    /\ cfg \in Dials
    /\ up \in SUBSET {"tcp", "udp"}
    /\ reality = "off" /\ quic = "off" /\ tries = 0

-----------------------------------------------------------------------------
(* connect_reality, under REALITY_CONNECT_TIMEOUT: socket, hello, handshake *)
(* and the mux's HELLO.  A path that is down refuses, or stalls until the   *)
(* timeout.                                                                 *)

Reality(from, to) == /\ reality = from /\ reality' = to
                     /\ UNCHANGED <<vars, cfg, up, quic, tries>>

HeadStartEnds == Reality("wait", "connect")

RealityConnects == "tcp" \in up /\ Reality("connect", "up")

RealityFails == "tcp" \notin up /\ Reality("connect", "failed")

-----------------------------------------------------------------------------
(* connect_quic_from: without a pin it is refused; then each address in     *)
(* turn, of which the last is the reachable one if any is.                  *)

\* The server answers with the pinned certificate, and proves its key.
Verified == cfg.uri = "pinned" /\ "udp" \in up

Quic(state, addr) == /\ quic' = state /\ tries' = addr
                     /\ UNCHANGED <<vars, cfg, up, reality>>

Unpinned == quic = "lookup" /\ cfg.uri = "unpinned" /\ Quic("failed", 0)

LookupHost == /\ quic = "lookup" /\ cfg.uri = "pinned"
              /\ \/ Quic("try", 1)
                 \/ "udp" \notin up /\ Quic("failed", 0)

ConnectQuicMulti == /\ quic = "try"
                    /\ \/ tries < QuicAddrs /\ Quic("try", tries + 1)
                       \/ tries = QuicAddrs /\ "udp" \notin up /\ Quic("failed", tries)

(* QUIC_TIMEOUT drops the attempt, even one about to answer.  The           *)
(* preference for QUIC alone has no timeout of its own.                     *)
QuicTimeout == Route = "race" /\ quic \in {"lookup", "try"} /\ Quic("failed", tries)

-----------------------------------------------------------------------------
(* The dial, as the supervise task sees it.                                 *)

DialBegins == /\ quic' = IF Route \in {"quic", "race"} THEN "lookup" ELSE "off"
              /\ reality' = CASE Route = "reality" -> "connect"
                              [] Route = "race"    -> "wait"
                              [] OTHER             -> "off"
              /\ tries' = 0
              /\ UNCHANGED <<cfg, up>>

DialOver == reality' = "off" /\ quic' = "off" /\ tries' = 0 /\ UNCHANGED <<cfg, up>>

(* connect_quic: the handshake against the pinned certificate and HTTP/3's  *)
(* drivers; then reality.abort(), whatever that task has reached.           *)
ConnectQuic == quic = "try" /\ Verified /\ DialOk /\ DialOver

RealityWins == sup = "dial" /\ quic \in {"off", "failed"} /\ reality = "up" /\ DialOk /\ DialOver

\* Mutant: a failed QUIC attempt ends the race.
DialFailsWithQuic == /\ sup = "dial"
                     /\ quic = "failed" \/ (quic = "off" /\ reality \in {"off", "failed"})
                     /\ DialFails /\ DialOver

DialGivesUp == /\ sup = "dial"
               /\ quic \in {"off", "failed"} /\ reality \in {"off", "failed"}
               /\ DialFails /\ DialOver

(* The dial's future is dropped; a race's REALITY task is detached by that  *)
(* and goes on.                                                             *)
DropDialed == /\ Drop
              /\ quic' = "off" /\ tries' = 0
              /\ reality' = IF Route = "race" THEN reality ELSE "off"
              /\ UNCHANGED <<cfg, up>>

(* The server, or the path to it, comes and goes for one protocol.          *)
Flap(p) == /\ up' = IF p \in up THEN up \ {p} ELSE up \cup {p}
           /\ UNCHANGED <<vars, cfg, dialvars>>

-----------------------------------------------------------------------------
Begin == (WakeClosed \/ WakeKick \/ Retry) /\ DialBegins
Attempt == \/ HeadStartEnds \/ RealityConnects \/ RealityFails
           \/ Unpinned \/ LookupHost \/ ConnectQuicMulti \/ QuicTimeout
Returns == RealityWins \/ DialGivesUp

DialedNext ==
    \/ Begin \/ Attempt \/ ConnectQuic \/ Returns \/ DropDialed
    \/ \E p \in {"tcp", "udp"} : Flap(p)
    \/ /\ \/ \E t \in Tunnels : TunnelDies(t)
          \/ Kick
          \/ \E o \in Openers : Open(o) \/ Deadline(o) \/ Step(o)
       /\ UNCHANGED <<cfg, up, dialvars>>

DialedSpec == DialedInit /\ [][DialedNext]_dialedVars

(* Tasks are polled when ready and timers fire: the head start, the         *)
(* connect timeouts, quinn's handshake timeout, the backoff, the deadlines. *)
(* Nothing is assumed of the network.                                       *)
DialedFairness ==
    /\ WF_dialedVars(Begin) /\ WF_dialedVars(Returns)
    /\ WF_dialedVars(HeadStartEnds) /\ WF_dialedVars(RealityConnects \/ RealityFails)
    /\ WF_dialedVars(Unpinned \/ LookupHost \/ ConnectQuic \/ ConnectQuicMulti)
    /\ \A o \in Openers : WF_vars(Deadline(o)) /\ WF_vars(Step(o))

DialedFairSpec == DialedSpec /\ DialedFairness

-----------------------------------------------------------------------------
(* A server that stays reachable over the protocol the dial rests on is     *)
(* reached: a wrapper without a live tunnel publishes one again, though     *)
(* dials failed before and, for the preference `auto', though QUIC is       *)
(* blocked, flapping, unpinned or answers just after its timeout.           *)
Reachable == Route # "refused" /\ (IF Route = "quic" THEN cfg.uri = "pinned" /\ "udp" \in up
                                                     ELSE "tcp" \in up)
HealsWhenReachable ==
    <>[]Reachable =>
        ((cur \notin Tunnels \ closed) ~> (cur \in Tunnels \ closed \/ sup = "gone"))

=============================================================================
