---------------------------- MODULE ServerFront -----------------------------
(***************************************************************************)
(* The TCP front of the server (leshiy-reality: server.rs, acceptloop.rs,  *)
(* connlimit.rs, replay.rs, mtproxy, tunnel.rs) with the peers that        *)
(* connect to it: clients of the service, Telegram clients, browsers and   *)
(* scanners, and whoever sends a recorded hello once more.  Every          *)
(* connection is first mirrored to the borrowed site `dest'; only a fresh  *)
(* hello of an authorized user, or a fresh MTProxy hello, is taken over.   *)
(* Timeouts are steps that may happen whenever their wait is on.           *)
(***************************************************************************)
EXTENDS Egress, RealityTls, SequencesExt

CONSTANTS
    Conns,          \* TCP connections of a behaviour, in order of arrival
    Source,         \* the address each comes from
    Plans,          \* scenarios: transport and egress, the kinds of peer each connection may
                    \* be, how far the clock runs, whether accept() fails and
                    \* the operator disables users
    Users, Skew,    \* users; how far the clock of each client is ahead
    MaxTotal, MaxPerIp,
    MaxTimeDiff,    \* acceptance window, each side
    MaxEntries,     \* capacity of the replay guard
    MtProxy,        \* an MTProxy secret is configured
    DestHellos,     \* [suite, group] the borrowed site may answer with
    OldKey,         \* a static key the server no longer holds
    MaxAcceptFailures

ASSUME FrontAssumption ==
    /\ Conns \subseteq Nat /\ Conns \subseteq Openers
    /\ MaxTotal \in Nat /\ MaxPerIp \in Nat
    /\ MaxTimeDiff \in Nat /\ MaxEntries \in Nat \ {0}
    /\ OldKey # ServerKey /\ Skew \in [Conns -> Int]
    /\ \A h \in DestHellos : h.group \in Groups
    /\ \A p \in Plans : p.horizon \in Nat

VARIABLES
    plan,      \* the scenario of this behaviour
    now,       \* wall clock, seconds
    enabled,   \* users the store authorizes
    listener,  \* accept loop: consecutive failures, asleep
    limiter,   \* [total, per_ip]
    replay,    \* the guard's queue of <<key, seen at>>
    conn,      \* connections, by arrival
    client,    \* the peer's side of each connection
    sent,      \* hellos that went over the wire
    evicted,   \* history: keys dropped at capacity
    clock      \* history: latest time the guard was asked with

frontvars == <<plan, now, enabled, listener, limiter, replay, conn, client, sent, evicted, clock>>

NoHello == [kind |-> "none", id |-> 0, user |-> "", time |-> 0, key |-> ServerKey]
NoFlight == [suite |-> "", group |-> ""]
Blank == [st |-> "unused", now |-> 0, hello |-> NoHello, sh |-> NoFlight,
           taken |-> FALSE, late |-> FALSE]

FrontInit ==
    /\ plan \in Plans /\ hop = plan.hop
    /\ now = 0 /\ enabled = Users
    /\ listener = [failures |-> 0, asleep |-> FALSE]
    /\ limiter = [total |-> 0, per_ip |-> <<>>]
    /\ replay = <<>>
    /\ conn = [c \in Conns |-> Blank]
    /\ client = [c \in Conns |-> "none"]
    /\ sent = {} /\ evicted = {} /\ clock = 0

Set(c, fields) == conn' = [conn EXCEPT ![c] = fields]
Goto(c, stage) == Set(c, [conn[c] EXCEPT !.st = stage])
Live(c) == conn[c].st \notin {"unused", "closed"}

-----------------------------------------------------------------------------
(* Admission.                                                              *)

\* IPv4 /32, IPv6 /64.
bucket(a) == IF a.ver = 6 THEN [a EXCEPT !.host = 0] ELSE a

Held(key) == IF key \in DOMAIN limiter.per_ip THEN limiter.per_ip[key] ELSE 0

try_acquire(src) ==
    LET key == bucket(canonical_ip(src))
    IN  /\ limiter.total < MaxTotal /\ Held(key) < MaxPerIp
        /\ limiter' = [total |-> limiter.total + 1,
                       per_ip |-> [k \in DOMAIN limiter.per_ip \cup {key} |->
                                     IF k = key THEN Held(key) + 1 ELSE limiter.per_ip[k]]]

\* ConnGuard::drop: a bucket at zero is removed.
release(src) ==
    LET key == bucket(canonical_ip(src))
        left == {k \in DOMAIN limiter.per_ip : k # key \/ Held(k) > 1}
    IN  limiter' = [total |-> limiter.total - 1,
                    per_ip |-> [k \in left |-> IF k = key THEN Held(k) - 1 ELSE limiter.per_ip[k]]]

\* serve_connection returns: sockets and the guard are dropped, and the peer
\* sees the end of the stream.
Close(c) ==
    /\ Set(c, [Blank EXCEPT !.st = "closed", !.taken = conn[c].taken, !.late = conn[c].late,
                             !.hello = IF conn[c].taken THEN conn[c].hello ELSE NoHello])
    /\ client' = [client EXCEPT ![c] = "none"]
    /\ release(Source[c])

-----------------------------------------------------------------------------
(* What a peer may send first.                                             *)

Arrives(c) == conn[c].st = "unused" /\ \A d \in Conns : d < c => conn[d].st # "unused"

\* connect_reality builds a fresh hello with the client's clock.
Fresh(c, kind, user, time, key) ==
    [kind |-> kind, id |-> c, user |-> user, time |-> time, key |-> key]

Hellos(c, peer) ==
    CASE peer = "client"   -> {Fresh(c, "reality", u, now + Skew[c], ServerKey) : u \in Users}
      [] peer = "stale"    -> {Fresh(c, "reality", u, now, OldKey) : u \in Users}
      [] peer = "telegram" -> {Fresh(c, "telegram", "", now, ServerKey)}
      [] peer = "replayer" -> sent
      [] OTHER             -> {[NoHello EXCEPT !.kind = peer]}

\* The bytes of a hello.
Message(h) ==
    CASE h.kind = "reality" -> build_authed_client_hello(h.id, h.user, h.time, h.key)
      [] h.kind \in {"browser", "telegram"} -> prober_hello(h.id, Sni)
      [] OTHER -> Malformed

\* accept(), admission, spawn: the task reads the clock before anything else.
Accept(c, peer) ==
    /\ plan.transport = "tcp" /\ ~listener.asleep /\ Arrives(c)
    /\ listener' = [failures |-> 0, asleep |-> FALSE]
    /\ try_acquire(Source[c])
    /\ \E h \in Hellos(c, peer) :
          /\ Set(c, [Blank EXCEPT !.st = "first", !.now = now, !.hello = h])
          /\ sent' = IF h.kind \in {"reality", "telegram"} THEN sent \cup {h} ELSE sent
    /\ client' = [client EXCEPT ![c] = IF peer \in {"client", "stale", "telegram"} THEN "wait" ELSE "other"]
    /\ UNCHANGED <<plan, now, enabled, replay, evicted, clock, egvars>>

\* Over a cap: the socket is dropped before any work.
Reject(c) ==
    /\ plan.transport = "tcp" /\ ~listener.asleep /\ Arrives(c)
    /\ ~(limiter.total < MaxTotal /\ Held(bucket(canonical_ip(Source[c]))) < MaxPerIp)
    /\ listener' = [failures |-> 0, asleep |-> FALSE]
    /\ Set(c, [Blank EXCEPT !.st = "closed"])
    /\ UNCHANGED <<plan, now, enabled, limiter, replay, client, sent, evicted, clock, egvars>>

\* record_failure: 5 ms doubling up to a second.
backoff_delay(failures) == LET d == 5 * 2 ^ (IF failures < 20 THEN failures ELSE 20)
                           IN  IF d < 1000 THEN d ELSE 1000

AcceptFails ==
    /\ plan.faults /\ plan.transport = "tcp" /\ ~listener.asleep
    /\ listener.failures < MaxAcceptFailures /\ \E c \in Conns : Arrives(c)
    /\ listener' = [failures |-> listener.failures + 1, asleep |-> backoff_delay(listener.failures) > 0]
    /\ UNCHANGED <<plan, now, enabled, limiter, replay, conn, client, sent, evicted, clock, egvars>>

AcceptAgain ==
    /\ listener.asleep
    /\ listener' = [listener EXCEPT !.asleep = FALSE]
    /\ UNCHANGED <<plan, now, enabled, limiter, replay, conn, client, sent, evicted, clock, egvars>>

Tick == /\ now < plan.horizon /\ now' = now + 1
        /\ UNCHANGED <<plan, enabled, listener, limiter, replay, conn, client, sent, evicted, clock, egvars>>

\* The operator disables a user (UserStore).
DisableUser(u) ==
    /\ plan.faults /\ u \in enabled /\ enabled' = enabled \ {u}
    /\ UNCHANGED <<plan, now, listener, limiter, replay, conn, client, sent, evicted, clock, egvars>>

-----------------------------------------------------------------------------
(* serve_connection, up to the decision.                                   *)

Untouched == UNCHANGED <<plan, now, enabled, listener, replay, sent, evicted, clock>>
Quiet == Untouched /\ UNCHANGED <<limiter, client, egvars>>
Ends(c) == Close(c) /\ Untouched /\ UNCHANGED egvars

FirstRecord(c) ==
    /\ conn[c].st = "first" /\ conn[c].hello.kind # "silent"
    /\ Goto(c, "dial") /\ Quiet

\* Mutant: no timer on the first record, only the peer ends the wait.
FirstTimeoutNever(c) == conn[c].st = "first" /\ conn[c].hello.kind # "silent" /\ Ends(c)

\* INITIAL_READ_TIMEOUT, or the peer hung up.
FirstTimeout(c) == conn[c].st = "first" /\ Ends(c)

\* connect_dest fails or exceeds DEST_CONNECT_TIMEOUT.
DestFails(c) == conn[c].st = "dial" /\ Goto(c, "stall") /\ Quiet

\* stall_then_drop: 1 to 8 seconds, or the peer gives up.
StallEnds(c) == conn[c].st = "stall" /\ Ends(c)

\* dest is there, but forwarding the record to it fails: `?'.
ForwardFails(c) == conn[c].st = "dial" /\ Ends(c)

-----------------------------------------------------------------------------
(* dest is connected and has the first record: the decision.                *)

abs_diff(a, b) == IF a > b THEN a - b ELSE b - a

\* classify_full: every check is made, then folded into one answer.
classify_full(msg, n) ==
    LET f == extract_client_hello_fields(msg)
        key == derive_auth_key(diffie_hellman(ServerKey, f.x25519), f.random)
        pt == open_session_id(key, f.random, f.session_id, aad_from_client_hello(msg))
    IN  IF msg = Malformed \/ pt = Malformed THEN Malformed
        ELSE IF f.sni # Sni \/ abs_diff(n, pt.unix_secs) > MaxTimeDiff THEN Malformed
        ELSE [short_id |-> pt.short_id, auth_key |-> key]

\* faketls::authenticate: the random is an HMAC under the secret, masked with
\* the client's clock.
mt_authenticate(h, n) == h.kind = "telegram" /\ abs_diff(n, h.time) <= MaxTimeDiff

\* Only where a secret is configured.
Telegram(h, n) == MtProxy /\ mt_authenticate(h, n)

\* replay_key: random and session id, both of one hello.
replay_key(h) == h.id

Keys(queue) == {e[1] : e \in ToSet(queue)}

\* check_and_record: drop what is older than twice the window, from the
\* front; look the key up; at capacity drop the oldest; append.
Stale(queue, cutoff) == {i \in 1..Len(queue) : \A j \in 1..i : queue[j][2] < cutoff}

\* Mutant: an entry lives for one window instead of two.
UnexpiredOneWindow(queue, t) ==
    SubSeq(queue, Cardinality(Stale(queue, t - MaxTimeDiff)) + 1, Len(queue))

Unexpired(queue, t) ==
    SubSeq(queue, Cardinality(Stale(queue, t - 2 * MaxTimeDiff)) + 1, Len(queue))

\* At capacity the oldest makes room, expired or not.
check_and_record(key, t) ==
    LET left == Unexpired(replay, t)
        full == Len(left) >= MaxEntries
        kept == IF full THEN Tail(left) ELSE left
    IN  /\ replay' = IF key \in Keys(left) THEN left ELSE Append(kept, <<key, t>>)
        /\ evicted' = IF full /\ key \notin Keys(left) THEN evicted \cup {Head(left)[1]} ELSE evicted
        /\ clock' = IF t > clock THEN t ELSE clock

Replayed(key, t) == key \in Keys(Unexpired(replay, t))

\* Relay to dest with nothing recorded.
DecideStranger(c) ==
    LET h == conn[c].hello
    IN  /\ conn[c].st = "dial"
        /\ h.kind = "garbage" \/ classify_full(Message(h), conn[c].now) = Malformed
        /\ ~Telegram(h, conn[c].now)
        /\ Goto(c, "relay") /\ Quiet

\* A Telegram hello: the guard, then the MTProxy session.
DecideTelegram(c) ==
    LET h == conn[c].hello
        n == conn[c].now
    IN  /\ conn[c].st = "dial" /\ Telegram(h, n)
        /\ classify_full(Message(h), n) = Malformed
        /\ check_and_record(replay_key(h), n)
        /\ Set(c, [conn[c] EXCEPT !.st = IF Replayed(replay_key(h), n) THEN "relay" ELSE "mt_flight",
                                  !.taken = ~Replayed(replay_key(h), n), !.late = clock > n])
        /\ UNCHANGED <<plan, now, enabled, listener, limiter, client, sent, egvars>>

\* A hello that opened: a replay and an unauthorized user get the site.
AuthedElse(c, a, n) ==
    IF Replayed(replay_key(conn[c].hello), n) THEN "relay"
    ELSE IF a.short_id \notin enabled THEN "relay" ELSE "steal"

DecideAuthed(c) ==
    LET h == conn[c].hello
        n == conn[c].now
        a == classify_full(Message(h), n)
    IN  /\ conn[c].st = "dial" /\ h.kind = "reality" /\ a # Malformed
        /\ check_and_record(replay_key(h), n)
        /\ Set(c, [conn[c] EXCEPT !.st = AuthedElse(c, a, n), !.late = clock > n,
                                  !.taken = AuthedElse(c, a, n) = "steal"])
        /\ UNCHANGED <<plan, now, enabled, listener, limiter, client, sent, egvars>>

-----------------------------------------------------------------------------
(* The takeover: establish_server against establish_client.                *)

AuthKey(h) == derive_auth_key(diffie_hellman(<<"eph", h.id>>, h.key), <<"random", h.id>>)
ServerAuthKey(c) == classify_full(Message(conn[c].hello), conn[c].now).auth_key

Stolen(c, sh) == dest_server_hello(sh.suite, sh.group, c)
ServerState(c, sh) == server_handshake(Message(conn[c].hello), Stolen(c, sh), ServerAuthKey(c), c)

\* dest's ServerHello is read, dest dropped, the flight written; a hello the
\* server cannot imitate ends the connection.
StealHello(c) ==
    /\ conn[c].st = "steal"
    /\ \E sh \in DestHellos :
          IF ServerState(c, sh) = Malformed
          THEN Close(c)
          ELSE Set(c, [conn[c] EXCEPT !.st = "finished", !.sh = sh]) /\ UNCHANGED <<limiter, client>>
    /\ Untouched /\ UNCHANGED egvars

StealTimeout(c) == conn[c].st = "steal" /\ Ends(c)

\* The flight of the server, or the site's own through the relay.
Flight(c) ==
    IF conn[c].st = "relay"
    THEN dest_flight(Message(conn[c].hello), dest_server_hello("AES_128_GCM", "x25519", c))
    ELSE ServerState(c, conn[c].sh)

ClientVerdict(c) == client_handshake(Message(conn[c].hello), Flight(c), AuthKey(conn[c].hello))

ClientReads(c) ==
    /\ client[c] = "wait" /\ conn[c].hello.kind = "reality"
    /\ conn[c].st \in {"relay", "finished"}
    /\ client' = [client EXCEPT ![c] = IF ClientVerdict(c) = Malformed THEN "failed" ELSE "open"]
    /\ Untouched /\ UNCHANGED <<conn, limiter, egvars>>

\* HANDSHAKE_READ_TIMEOUT, the dial's own timeout, or the end of the stream.
ClientTimeout(c) ==
    /\ client[c] = "wait"
    /\ client' = [client EXCEPT ![c] = "failed"]
    /\ Untouched /\ UNCHANGED <<conn, limiter, egvars>>

FinishedRead(c) ==
    /\ conn[c].st = "finished" /\ client[c] = "open"
    /\ IF finish(ServerState(c, conn[c].sh), ClientVerdict(c).fin)
       THEN Goto(c, "session") /\ UNCHANGED <<limiter, client>>
       ELSE Close(c)
    /\ Untouched /\ UNCHANGED egvars

FinishedTimeout(c) == conn[c].st = "finished" /\ Ends(c)

-----------------------------------------------------------------------------
(* MTProxy: relay.rs.                                                      *)

\* The site's flight shapes the answer; the site is dropped.
MtFlight(c) == conn[c].st = "mt_flight" /\ Goto(c, "mt_header") /\ Quiet
MtFlightFails(c) == conn[c].st = "mt_flight" /\ Ends(c)

\* dc_addr: the data centres 1 to 5, negative for media.
dc_addr(dc) == LET n == IF dc < 0 THEN -dc ELSE dc IN IF n \in 1..5 THEN n ELSE 0

\* The obfuscated2 header names a data centre, which is opened.
MtHeader(c) ==
    /\ conn[c].st = "mt_header" /\ client[c] = "wait"
    /\ \E dc \in {-2, 0} :
          IF dc_addr(dc) = 0 THEN Close(c) /\ UNCHANGED egvars
          ELSE /\ Goto(c, "mt_open") /\ EgressOpen(c)
               /\ client' = [client EXCEPT ![c] = "open"]
               /\ UNCHANGED <<limiter, hop, link, lock, dead>>
    /\ Untouched

\* No header in time, or one that is not of the secret.
MtHeaderFails(c) == conn[c].st = "mt_header" /\ Ends(c)

MtOpened(c) ==
    /\ conn[c].st = "mt_open" /\ EgressTaken(c)
    /\ IF eg[c].st = "ok" THEN Goto(c, "mt_pump") /\ UNCHANGED <<limiter, client>> ELSE Close(c)
    /\ Untouched

-----------------------------------------------------------------------------
(* Open-ended stages.                                                      *)

\* The accepted mux stream of the session opens its target.
SessionOpens(c) ==
    /\ conn[c].st = "session" /\ eg[c].st = "idle" /\ hop # "none"
    /\ EgressOpen(c) /\ UNCHANGED <<hop, link, lock, dead>>
    /\ Untouched /\ UNCHANGED <<limiter, client, conn>>

OpenEnded == {"relay", "session", "mt_pump"}

\* copy_bidirectional, the mux or the pumps end: one side closed.
StageEnds(c) == conn[c].st \in OpenEnded /\ Ends(c)

\* A stream's relay is a task of its own: its open goes on when the session is
\* over, and only then the task finds its stream gone.
OrphanEnds(c) ==
    /\ conn[c].st = "closed" /\ plan.transport = "tcp"
    /\ EgressTaken(c) /\ UNCHANGED frontvars

\* The peer's network is gone and says nothing.
PeerVanishes(c) ==
    /\ conn[c].st \in OpenEnded /\ client[c] # "gone"
    /\ client' = [client EXCEPT ![c] = "gone"]
    /\ Untouched /\ UNCHANGED <<conn, limiter, egvars>>

\* TCP keepalive: the kernel gives the connection up.
Reap(c) == client[c] = "gone" /\ StageEnds(c)

-----------------------------------------------------------------------------
\* The timers: one on every wait of the handshake.
Timer(c) ==
    \/ FirstTimeout(c) \/ DestFails(c) \/ StallEnds(c) \/ StealTimeout(c)
    \/ FinishedTimeout(c) \/ MtFlightFails(c) \/ MtHeaderFails(c) \/ MtOpened(c)

Serve(c) ==
    \/ Timer(c) \/ FirstRecord(c) \/ ForwardFails(c)
    \/ DecideStranger(c) \/ DecideTelegram(c) \/ DecideAuthed(c)
    \/ StealHello(c) \/ FinishedRead(c) \/ MtFlight(c) \/ MtHeader(c)

FrontNext ==
    \/ \E c \in Conns : Reject(c) \/ \E peer \in plan.peers[c] : Accept(c, peer)
    \/ AcceptFails \/ AcceptAgain \/ Tick \/ \E u \in Users : DisableUser(u)
    \/ \E c \in Conns : \/ Serve(c) \/ ClientReads(c) \/ ClientTimeout(c)
                        \/ SessionOpens(c) \/ StageEnds(c) \/ PeerVanishes(c)
                        \/ OrphanEnds(c) \/ (EgressStep(c) /\ UNCHANGED frontvars)
    \/ \E l \in Links : LinkDies(l) /\ UNCHANGED frontvars

-----------------------------------------------------------------------------
(* No recorded hello is taken over a second time for as long as it would    *)
(* still be accepted -- unless the guard had to drop it for want of room,   *)
(* or was meanwhile asked by a connection whose clock reading is newer than *)
(* that of the replay (serve_connection reads the clock before its waits).  *)
NoSecondTakeover ==
    \A c, d \in Conns :
        c < d /\ conn[c].hello = conn[d].hello /\ conn[c].taken /\ conn[d].taken
          => conn[d].late \/ conn[c].late \/ replay_key(conn[c].hello) \in evicted

(* A client believes it is connected only to the holder of the server's key *)
(* and the two have the same keys.                                          *)
ClientNotFooled ==
    \A c \in Conns :
        client[c] = "open" /\ conn[c].hello.kind = "reality"
          => /\ conn[c].sh # NoFlight
             /\ ClientVerdict(c).keys = ServerState(c, conn[c].sh).keys
=============================================================================
