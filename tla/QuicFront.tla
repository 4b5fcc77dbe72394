----------------------------- MODULE QuicFront ------------------------------
(***************************************************************************)
(* The QUIC front of the server beside its TCP front (leshiy-quic:         *)
(* server.rs, masquerade.rs, dgram.rs) and the HTTP/3 client of one        *)
(* request per connection (client.rs).  An authorized CONNECT becomes a    *)
(* tunnel, anything else gets the masquerade site.  UDP flows travel as    *)
(* datagrams that each end routes through a registry of its flows; a flow  *)
(* is registered after the answer, by either end on its own.               *)
(***************************************************************************)
EXTENDS ServerFront

CONSTANTS Proxied   \* masquerade: proxy to an origin instead of a page

VARIABLES
    req,     \* the request of each connection, as the server's task sees it
    flow,    \* the client's end of it
    srv_reg, \* flows in the server's datagram registry
    cli_reg, \* ... and in the client's
    status   \* the answer sent

quicvars == <<req, flow, srv_reg, cli_reg, status>>
serverVars == <<frontvars, egvars, quicvars>>

QuicInit ==
    /\ req = [c \in Conns |-> "none"] /\ flow = [c \in Conns |-> "none"]
    /\ srv_reg = {} /\ cli_reg = {} /\ status = [c \in Conns |-> 0]

Req(c, st) == req' = [req EXCEPT ![c] = st]
Flow(c, st) == flow' = [flow EXCEPT ![c] = st]
RequestOnly == Untouched /\ UNCHANGED <<limiter, client, conn, egvars>>

-----------------------------------------------------------------------------
(* Connections.                                                            *)

\* Over a cap the packet is ignored: no answer.
QuicAccept(c) ==
    /\ plan.transport = "quic" /\ plan.peers[c] # {} /\ Arrives(c)
    /\ IF limiter.total < MaxTotal /\ Held(bucket(canonical_ip(Source[c]))) < MaxPerIp
       THEN try_acquire(Source[c]) /\ Set(c, [Blank EXCEPT !.st = "handshake"])
       ELSE Set(c, [Blank EXCEPT !.st = "closed"]) /\ UNCHANGED limiter
    /\ Untouched /\ UNCHANGED <<client, egvars, quicvars>>

\* incoming.await.
Handshaken(c) == conn[c].st = "handshake" /\ Goto(c, "setup") /\ Quiet /\ UNCHANGED quicvars

\* The HTTP/3 set-up opens its streams as the peer allows them; then the
\* demultiplexer is spawned.
SetUp(c) == conn[c].st = "setup" /\ Goto(c, "h3") /\ Quiet /\ UNCHANGED quicvars

\* The peer's path is gone; 30 seconds without a packet end the connection.
PathLost(c) ==
    /\ conn[c].st \in {"setup", "h3"} /\ client[c] # "gone"
    /\ client' = [client EXCEPT ![c] = "gone"]
    /\ Untouched /\ UNCHANGED <<conn, limiter, egvars, quicvars>>

\* The set-up fails or h3.accept ends: closed by the peer, idle timeout, protocol error.  The
\* demultiplexer of each end clears its registry; the request's task lives on.
ConnectionEnds(c) ==
    /\ conn[c].st \in {"handshake", "setup", "h3"}
    /\ Close(c)
    /\ srv_reg' = srv_reg \ {c} /\ cli_reg' = cli_reg \ {c}
    /\ Untouched /\ UNCHANGED <<egvars, req, flow, status>>

-----------------------------------------------------------------------------
(* Requests.                                                               *)

Methods == {"GET", "HEAD", "POST", "CONNECT"}

serve_masquerade_page(method, root) == IF method \in {"GET", "HEAD"} /\ root THEN 200 ELSE 404

\* fetch_origin: the origin's status, or nothing within ORIGIN_TIMEOUT.
fetch_origin(answer) == IF answer \in 100..999 THEN answer ELSE 502

serve_masquerade_reverse(method, answer) ==
    IF method \in {"GET", "HEAD"} THEN fetch_origin(answer) ELSE 404

serve_masquerade(method, root, answer) ==
    IF Proxied THEN serve_masquerade_reverse(method, answer) ELSE serve_masquerade_page(method, root)

\* An unauthorized CONNECT is answered as the site answers any CONNECT.
Visit(c) ==
    /\ conn[c].st = "h3" /\ client[c] # "gone" /\ req[c] = "none"
    /\ \E m \in Methods, root \in BOOLEAN, answer \in {0, 200} :
          status' = [status EXCEPT ![c] = serve_masquerade(m, root, answer)]
    /\ Req(c, "done") /\ RequestOnly /\ UNCHANGED <<flow, srv_reg, cli_reg>>

\* CONNECT with a short id the store authorizes: egress.open or open_udp.
ConnectRequest(c, udp) ==
    /\ conn[c].st = "h3" /\ client[c] # "gone" /\ req[c] = "none" /\ enabled # {}
    /\ Req(c, IF udp THEN "open_udp" ELSE "open") /\ Flow(c, IF udp THEN "asked" ELSE "none")
    /\ EgressOpen(c) /\ UNCHANGED <<hop, link, lock, dead>>
    /\ Untouched /\ UNCHANGED <<limiter, client, conn, srv_reg, cli_reg, status>>

\* tunnel, tunnel_udp: 502, or 200 at once and only then the registration.
Answer(c) ==
    /\ req[c] \in {"open", "open_udp"} /\ EgressTaken(c)
    /\ Req(c, IF eg[c].st = "failed" THEN "done" ELSE IF req[c] = "open" THEN "tunnel" ELSE "answered")
    /\ status' = [status EXCEPT ![c] = IF eg[c].st = "ok" THEN 200 ELSE 502]
    /\ Untouched /\ UNCHANGED <<limiter, client, conn, flow, srv_reg, cli_reg>>

register(c) ==
    /\ req[c] = "answered"
    /\ Req(c, "relay") /\ srv_reg' = srv_reg \cup {c}
    /\ RequestOnly /\ UNCHANGED <<flow, cli_reg, status>>

\* open_datagram on the client: the flow is registered when 200 came.
open_datagram(c) ==
    /\ flow[c] = "asked" /\ conn[c].st = "h3" /\ status[c] # 0
    /\ IF status[c] = 200 THEN Flow(c, "up") /\ cli_reg' = cli_reg \cup {c}
                          ELSE Flow(c, "ended") /\ UNCHANGED cli_reg
    /\ RequestOnly /\ UNCHANGED <<req, srv_reg, status>>

\* The client's recv ends, or the flow is dropped: deregistered.
FlowEnds(c) ==
    /\ flow[c] \in {"asked", "up"}
    /\ Flow(c, "ended") /\ cli_reg' = cli_reg \ {c}
    /\ RequestOnly /\ UNCHANGED <<req, srv_reg, status>>

\* What ends a UDP relay: no sender left, the stream closed, the user revoked.
Unroutable(c) == c \notin srv_reg
StreamClosed(c) == conn[c].st = "closed" \/ flow[c] = "ended"
Revoked == enabled = {}

\* Mutant: the request stream is not watched.
RelayOverUnwatched(c) == Revoked

RelayOver(c) == StreamClosed(c) \/ Revoked

\* A cleared registry drops the sender, which ends the upload; a registration
\* made after the clearing has a sender of its own.
RelayEnds(c) ==
    /\ req[c] = "relay" /\ (RelayOver(c) \/ Unroutable(c))
    /\ Req(c, "done") /\ srv_reg' = srv_reg \ {c}
    /\ RequestOnly /\ UNCHANGED <<flow, cli_reg, status>>

\* tunnel: both directions done, either failed, or revoked.
TunnelEnds(c) ==
    /\ req[c] = "tunnel"
    /\ Req(c, "done") /\ RequestOnly /\ UNCHANGED <<flow, srv_reg, cli_reg, status>>

-----------------------------------------------------------------------------
QuicServe(c) ==
    \/ Answer(c) \/ register(c) \/ RelayEnds(c) \/ TunnelEnds(c)

QuicNext ==
    \E c \in Conns :
       \/ QuicAccept(c) \/ Handshaken(c) \/ SetUp(c) \/ PathLost(c) \/ ConnectionEnds(c)
       \/ Visit(c) \/ \E udp \in BOOLEAN : ConnectRequest(c, udp)
       \/ open_datagram(c) \/ FlowEnds(c) \/ QuicServe(c)

\* A QUIC handshake, and a connection without a peer, end at the idle timeout.
IdleTimeout(c) == (conn[c].st = "handshake" \/ client[c] = "gone") /\ ConnectionEnds(c)

\* The timers of the handshake fire, the kernel reaps dead TCP peers, opens and
\* requests run on.
Advance(c) ==
    \/ (Timer(c) \/ Reap(c)) /\ UNCHANGED quicvars
    \/ ((EgressStep(c) /\ UNCHANGED frontvars) \/ OrphanEnds(c)) /\ UNCHANGED quicvars
    \/ QuicServe(c) \/ IdleTimeout(c)

ServerInit == FrontInit /\ EgressInit /\ QuicInit

ServerSpec ==
    /\ ServerInit
    /\ [][(FrontNext /\ UNCHANGED quicvars) \/ QuicNext]_serverVars
    /\ \A c \in Conns : WF_serverVars(Advance(c))
-----------------------------------------------------------------------------
ServerTypeOK ==
    /\ now \in 0..plan.horizon /\ enabled \subseteq Users
    /\ limiter.total \in 0..MaxTotal /\ Len(replay) <= MaxEntries
    /\ srv_reg \subseteq Conns /\ cli_reg \subseteq Conns

Handshake == {"first", "dial", "stall", "steal", "finished",
              "mt_flight", "mt_header", "mt_open", "handshake"}

(* A slot is never pinned by a peer that stalls: every handshake ends, and   *)
(* a connection whose peer vanished is given up.  (The HTTP/3 set-up has no  *)
(* timer: like a session it lasts while the peer keeps the path alive.)     *)
Pinned(c) == conn[c].st \in Handshake \/ client[c] = "gone"
SlotsReturned == \A c \in Conns : Pinned(c) ~> ~Pinned(c)

(* A UDP relay never outlives its flow: once the client ended it or the      *)
(* connection is gone, the server's task ends and its registration is       *)
(* removed, also when it registered after the registry had been cleared.    *)
FlowsReleased ==
    \A c \in Conns : StreamClosed(c) ~> req[c] \notin {"answered", "relay"} /\ c \notin srv_reg
=============================================================================
