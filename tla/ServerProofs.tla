---------------------------- MODULE ServerProofs ----------------------------
(***************************************************************************)
(* The two fronts of the server and its egress, for any connections, users, *)
(* peers, links, acceptance window and capacity of the replay guard: the    *)
(* retry of an open is fresh, no recorded hello is taken over twice, a      *)
(* client is never fooled, the limiter counts exactly the connections being *)
(* served, and the connector's mutex and the datagram registrations always  *)
(* have the task that gives them back.  Then the relays of a session, for   *)
(* any finite set of TCP streams, any datagram streams, flush size, chunk   *)
(* size and cap: usage is accounted exactly, and a revoked relay stops by   *)
(* itself.                                                                  *)
(***************************************************************************)
EXTENDS QuicFront, RelaySession, FiniteSetTheorems, TLAPS

ServerNext == (FrontNext /\ UNCHANGED quicvars) \/ QuicNext

-----------------------------------------------------------------------------
(* The egress.                                                             *)

Open(r) ==
    /\ DOMAIN r = {"st", "addrs", "on", "was"}
    /\ r.st \in {"req1", "req2"} => r.on # NoLink
    /\ r.st \in {"invalidate", "get2"} => r.was # NoLink
    /\ r.st = "req2" => r.on # r.was

\* RetryIsFresh is not inductive by itself: the connection an open gave up is
\* not in the cache when the open comes back for one.
EgressInv ==
    /\ dead \subseteq Links
    /\ eg = [o \in Openers |-> eg[o]]
    /\ \A o \in Openers : Open(eg[o]) /\ (eg[o].st = "get2" => link # eg[o].was)

\* No opener starts with a connection to give up.
LEMMA EgressStarts == FrontInit /\ EgressInit => EgressInv
BY DEF FrontInit, EgressInit, EgressInv, Open, Idle

\* An open that is replaced by one without a claim on the cache.
LEMMA EgressSet ==
    ASSUME EgressInv, NEW o \in Openers, NEW R, Open(R), Eg(o, R), dead' \subseteq Links,
           R.st = "get2" => link' # R.was,
           \A p \in Openers : p # o /\ eg[p].st = "get2" => link' # eg[p].was
    PROVE  EgressInv'
BY DEF EgressInv, Eg, Open

\* A step that leaves egress alone.
LEMMA EgressSame == EgressInv /\ UNCHANGED egvars => EgressInv'
BY DEF EgressInv, egvars, Open

\* An open begins, at the resolver or at the cache.
LEMMA EgressOpens ==
    ASSUME EgressInv, NEW o \in Openers, EgressOpen(o), UNCHANGED <<hop, link, lock, dead>>
    PROVE  EgressInv'
<1> DEFINE R == [Idle EXCEPT !.st = IF hop = "direct" THEN "resolve" ELSE "get1"]
<1>1. Open(R) /\ R.st # "get2" /\ Eg(o, R)
  BY DEF Open, Idle, EgressOpen
<1> HIDE DEF R
<1> QED BY <1>1, EgressSet DEF EgressInv

\* The answer to an open is taken.
LEMMA EgressAnswered ==
    ASSUME EgressInv, NEW o \in Openers, EgressTaken(o)
    PROVE  EgressInv'
<1>1. Open(Idle) /\ Idle.st # "get2"
  BY DEF Open, Idle
<1> QED BY <1>1, EgressSet DEF EgressInv, EgressTaken

\* Each step of an opener, invalidations included.
LEMMA EgressSteps ==
    ASSUME EgressInv, NEW o \in Openers, EgressStep(o)
    PROVE  EgressInv'
<1>0. Open(eg[o]) /\ dead \subseteq Links
  BY DEF EgressInv
<1>1. CASE Resolve(o)
  <2>1. PICK list \in Resolutions :
            LET addrs == resolve_all_checked(list)
            IN  Eg(o, [eg[o] EXCEPT !.addrs = addrs, !.st = IF addrs = <<>> THEN "failed" ELSE "try"])
    BY <1>1 DEF Resolve
  <2> DEFINE addrs == resolve_all_checked(list)
             R == [eg[o] EXCEPT !.addrs = addrs, !.st = IF addrs = <<>> THEN "failed" ELSE "try"]
  <2> HIDE DEF addrs
  <2>2. Open(R) /\ R.st # "get2"
    BY <1>0 DEF Open
  <2> HIDE DEF R
  <2> QED BY <1>0, <1>1, <2>1, <2>2, EgressSet DEF Resolve, EgressInv, R, addrs
<1>2. CASE TryFails(o)
  <2> DEFINE rest == Tail(eg[o].addrs)
             R == [eg[o] EXCEPT !.addrs = rest, !.st = IF rest = <<>> THEN "failed" ELSE "try"]
  <2>1. Eg(o, R)
    BY <1>2 DEF TryFails
  <2> HIDE DEF rest
  <2>2. Open(R) /\ R.st # "get2"
    BY <1>0 DEF Open
  <2> HIDE DEF R
  <2> QED BY <1>0, <1>2, <2>1, <2>2, EgressSet DEF TryFails, EgressInv
<1>3. CASE TryConnects(o) \/ RequestOk(o) \/ RequestRefused(o) \/ LinkFails(o)
  <2>1. PICK stage \in {"ok", "failed"} : Eg(o, [Idle EXCEPT !.st = stage])
    BY <1>3 DEF TryConnects, RequestOk, RequestRefused, LinkFails
  <2> DEFINE R == [Idle EXCEPT !.st = stage]
  <2>2. Open(R) /\ R.st # "get2"
    BY DEF Open, Idle
  <2>3. UNCHANGED <<link, dead>>
    BY <1>3 DEF TryConnects, RequestOk, RequestRefused, LinkFails
  <2> HIDE DEF R
  <2> QED BY <1>0, <2>1, <2>2, <2>3, EgressSet DEF EgressInv, R
<1>4. CASE GetCached(o)
  <2> DEFINE R == Request(o, link)
  <2>1. Open(R) /\ R.st # "get2"
    BY <1>0, <1>4 DEF GetCached, Getting, Open, Request, EgressInv
  <2> HIDE DEF R
  <2> QED BY <1>0, <1>4, <2>1, EgressSet DEF GetCached, EgressInv, R
<1>5. CASE GetDial(o)
  <2> DEFINE R == [eg[o] EXCEPT !.st = IF @ = "get1" THEN "dial1" ELSE "dial2"]
  <2>1. Open(R) /\ R.st # "get2"
    BY <1>0 DEF Open
  <2> HIDE DEF R
  <2> QED BY <1>0, <1>5, <2>1, EgressSet DEF GetDial, EgressInv, R
<1>6. CASE LinkConnected(o)
  <2>1. PICK l \in Unused : link' = l /\ dead' = dead \ {l} /\ Eg(o, Request(o, l))
    BY <1>6 DEF LinkConnected
  <2>2. l # NoLink /\ \A p \in Openers : l # eg[p].was
    BY EgressAssumption DEF Unused
  <2> DEFINE R == Request(o, l)
  <2>3. Open(R) /\ R.st # "get2"
    BY <1>0, <2>2 DEF Open, Request
  <2> HIDE DEF R
  <2> QED BY <1>0, <2>1, <2>2, <2>3, EgressSet DEF R
<1>7. CASE RequestBroken(o)
  <2> DEFINE R == [eg[o] EXCEPT !.st = "invalidate", !.was = eg[o].on, !.on = NoLink]
             F == [Idle EXCEPT !.st = "failed"]
  <2>1. Open(R) /\ R.st # "get2" /\ Open(F) /\ F.st # "get2"
    BY <1>0, <1>7 DEF RequestBroken, Open, Idle
  <2>2. Eg(o, R) \/ Eg(o, F)
    BY <1>7 DEF RequestBroken
  <2> HIDE DEF R, F
  <2>3. CASE Eg(o, R)
    BY <1>0, <1>7, <2>1, <2>3, EgressSet DEF RequestBroken, EgressInv
  <2>4. CASE Eg(o, F)
    BY <1>0, <1>7, <2>1, <2>4, EgressSet DEF RequestBroken, EgressInv
  <2> QED BY <2>2, <2>3, <2>4
<1>8. CASE Invalidate(o)
  <2> DEFINE R == [eg[o] EXCEPT !.st = "get2"]
  <2>1. Open(R) /\ R.was # NoLink
    BY <1>0, <1>8 DEF Open, Invalidate
  <2>2. \A p \in Openers : eg[p].st = "get2" => NoLink # eg[p].was
    BY EgressAssumption DEF EgressInv, Open
  <2> HIDE DEF R
  <2> QED BY <1>0, <1>8, <2>1, <2>2, EgressAssumption, EgressSet DEF Invalidate, R
<1> QED BY <1>1, <1>2, <1>3, <1>4, <1>5, <1>6, <1>7, <1>8 DEF EgressStep

\* What the steps of both fronts do to the egress.
LEMMA EgressTouched ==
    ASSUME [ServerNext]_serverVars
    PROVE  \/ UNCHANGED egvars
           \/ \E l \in Links : LinkDies(l)
           \/ \E o \in Conns : \/ EgressStep(o) \/ EgressTaken(o)
                               \/ EgressOpen(o) /\ UNCHANGED <<hop, link, lock, dead>>
<1>1. CASE UNCHANGED serverVars
  BY <1>1 DEF serverVars
<1>2. ASSUME NEW c \in Conns, Reject(c) \/ \E peer \in plan.peers[c] : Accept(c, peer)
      PROVE  UNCHANGED egvars
  BY <1>2 DEF Reject, Accept
<1>3. CASE AcceptFails \/ AcceptAgain \/ Tick \/ \E u \in Users : DisableUser(u)
  BY <1>3 DEF AcceptFails, AcceptAgain, Tick, DisableUser
<1>4. ASSUME NEW c \in Conns, Timer(c)
      PROVE  UNCHANGED egvars \/ EgressTaken(c)
  BY <1>4 DEF Timer, FirstTimeout, DestFails, StallEnds, StealTimeout, FinishedTimeout,
              MtFlightFails, MtHeaderFails, MtOpened, Ends, Quiet
<1>5. ASSUME NEW c \in Conns, Serve(c)
      PROVE  \/ UNCHANGED egvars \/ EgressTaken(c)
             \/ EgressOpen(c) /\ UNCHANGED <<hop, link, lock, dead>>
  BY <1>4, <1>5 DEF Serve, FirstRecord, ForwardFails, DecideStranger, DecideTelegram, DecideAuthed,
              StealHello, FinishedRead, MtFlight, MtHeader, Ends, Quiet
<1>6. ASSUME NEW c \in Conns,
             \/ ClientReads(c) \/ ClientTimeout(c) \/ SessionOpens(c) \/ StageEnds(c) \/ PeerVanishes(c)
             \/ OrphanEnds(c)
      PROVE  \/ UNCHANGED egvars \/ EgressTaken(c)
             \/ EgressOpen(c) /\ UNCHANGED <<hop, link, lock, dead>>
  BY <1>6 DEF ClientReads, ClientTimeout, SessionOpens, StageEnds, PeerVanishes, OrphanEnds, Ends
<1>7. ASSUME NEW c \in Conns,
             \/ QuicAccept(c) \/ Handshaken(c) \/ SetUp(c) \/ PathLost(c) \/ ConnectionEnds(c) \/ Visit(c)
             \/ open_datagram(c) \/ FlowEnds(c) \/ register(c) \/ RelayEnds(c) \/ TunnelEnds(c)
      PROVE  UNCHANGED egvars
  BY <1>7 DEF QuicAccept, Handshaken, SetUp, PathLost, ConnectionEnds, Visit, open_datagram, FlowEnds,
              register, RelayEnds, TunnelEnds, RequestOnly, Quiet
<1>8. ASSUME NEW c \in Conns, Answer(c) \/ \E udp \in BOOLEAN : ConnectRequest(c, udp)
      PROVE  EgressTaken(c) \/ (EgressOpen(c) /\ UNCHANGED <<hop, link, lock, dead>>)
  BY <1>8 DEF Answer, ConnectRequest
<1> QED BY <1>1, <1>2, <1>3, <1>5, <1>6, <1>7, <1>8
          DEF ServerNext, FrontNext, QuicNext, QuicServe

\* Every step of the server keeps the promise of the egress cache.
LEMMA EgressNext == EgressInv /\ [ServerNext]_serverVars => EgressInv'
<1> SUFFICES ASSUME EgressInv, [ServerNext]_serverVars PROVE EgressInv'
  OBVIOUS
<1>1. ASSUME NEW l \in Links, LinkDies(l) PROVE EgressInv'
  BY <1>1 DEF LinkDies, EgressInv, Open
<1> QED BY <1>1, EgressTouched, EgressSame, EgressSteps, EgressAnswered, EgressOpens, FrontAssumption

\* Whatever dies, is dialled, cached or thrown away meanwhile, and whichever
\* sessions end: an open of ConnectorEgress never spends its retry on the
\* connection it had given up.
THEOREM RetriesAreFresh == ServerSpec => []RetryIsFresh
<1>1. ServerInit => EgressInv
  BY EgressStarts DEF ServerInit
<1>2. EgressInv /\ [ServerNext]_serverVars => EgressInv'
  BY EgressNext
<1>3. EgressInv => RetryIsFresh
  BY DEF EgressInv, Open, RetryIsFresh
<1> QED BY <1>1, <1>2, <1>3, PTL DEF ServerSpec, ServerNext

-----------------------------------------------------------------------------
(* The front.                                                              *)

Hello(h) == h.id \in Nat /\ h.time \in Int
Connection(r) ==
    /\ DOMAIN r = {"st", "now", "hello", "sh", "taken", "late"}
    /\ r.now \in Int /\ Hello(r.hello)

FrontTypes ==
    /\ now \in Int /\ clock \in Int /\ replay \in Seq(Nat \X Int)
    /\ \A h \in sent : Hello(h)
    /\ conn = [c \in Conns |-> conn[c]] /\ client = [c \in Conns |-> client[c]]
    /\ \A c \in Conns : Connection(conn[c])

\* What became of the entry of a hello that was taken over: it was dropped for
\* want of room, or was dropped when the hello was too old to be accepted
\* again, or is still there.
Remembered(h) ==
    \/ replay_key(h) \in evicted
    \/ clock > h.time + MaxTimeDiff
    \/ \E i \in 1..Len(replay) :
          replay[i][1] = replay_key(h) /\ replay[i][2] >= h.time - MaxTimeDiff

\* NoSecondTakeover in any order of the two decisions, and what it rests on.
Memory ==
    /\ \A c \in Conns : conn[c].taken => Remembered(conn[c].hello)
    /\ \A c, d \in Conns :
          c # d /\ conn[c].hello = conn[d].hello /\ conn[c].taken /\ conn[d].taken
            => conn[d].late \/ conn[c].late \/ replay_key(conn[c].hello) \in evicted

\* What a client that believes to be connected can rely on.
KeysAgree(c) ==
    /\ conn[c].sh # NoFlight
    /\ ClientVerdict(c).keys = ServerState(c, conn[c].sh).keys

Honest(c) ==
    /\ conn[c].st = "finished" => /\ conn[c].sh # NoFlight
                                  /\ ServerState(c, conn[c].sh) # Malformed
    /\ conn[c].st \in {"mt_flight", "mt_header"} => conn[c].hello.kind = "telegram"
    /\ client[c] = "open" /\ conn[c].hello.kind = "reality"
         => conn[c].st \in {"finished", "session"} /\ KeysAgree(c)

FrontInv == FrontTypes /\ Memory /\ \A c \in Conns : Honest(c)

\* No connection, nothing remembered.
LEMMA FrontStarts == FrontInit => FrontInv
<1> SUFFICES ASSUME FrontInit PROVE FrontInv
  OBVIOUS
<1>1. FrontTypes
  <2>1. Connection(Blank)
    <3>1. DOMAIN Blank = {"st", "now", "hello", "sh", "taken", "late"}
      BY DEF Blank
    <3>2. Blank.now = 0 /\ Blank.hello = NoHello
      BY DEF Blank
    <3>3. NoHello.id = 0 /\ NoHello.time = 0
      BY DEF NoHello
    <3> QED BY <3>1, <3>2, <3>3 DEF Connection, Hello
  <2>2. <<>> \in Seq(Nat \X Int)
    OBVIOUS
  <2> QED BY <2>1, <2>2 DEF FrontInit, FrontTypes
<1>2. \A c \in Conns : conn[c] = Blank /\ client[c] = "none"
  BY DEF FrontInit
<1>3. Blank.taken = FALSE /\ Blank.st = "unused"
  BY DEF Blank
<1>4. Memory /\ \A c \in Conns : Honest(c)
  BY <1>2, <1>3 DEF Memory, Honest
<1> QED BY <1>1, <1>4 DEF FrontInv

-----------------------------------------------------------------------------
(* The replay guard.                                                       *)

\* How many numbers there are up to n.
LEMMA Counting == ASSUME NEW n \in Nat PROVE IsFiniteSet(1..n) /\ Cardinality(1..n) = n
BY FS_Interval

\* Unexpired drops entries from the front only, and only old ones.
LEMMA Expiry ==
    ASSUME NEW q \in Seq(Nat \X Int), NEW t \in Int
    PROVE  \E k \in 0..Len(q) :
               /\ Unexpired(q, t) \in Seq(Nat \X Int) /\ Len(Unexpired(q, t)) = Len(q) - k
               /\ \A i \in 1..(Len(q) - k) : Unexpired(q, t)[i] = q[i + k]
               /\ \A i \in 1..k : q[i][2] < t - 2 * MaxTimeDiff
<1> DEFINE cut == t - 2 * MaxTimeDiff
           S == Stale(q, cut)
           k == Cardinality(S)
<1>0. Len(q) \in Nat /\ cut \in Int /\ \A i \in 1..Len(q) : q[i] \in Nat \X Int
  BY FrontAssumption
<1>1. IsFiniteSet(1..Len(q)) /\ Cardinality(1..Len(q)) = Len(q)
  BY <1>0, Counting
<1>2. /\ S \in SUBSET (1..Len(q))
      /\ \A i \in 1..Len(q) : i \in S <=> \A j \in 1..i : q[j][2] < cut
  BY DEF Stale
<1>i. Unexpired(q, t) = SubSeq(q, k + 1, Len(q))
  BY DEF Unexpired
<1> HIDE DEF S
<1>3. k \in Nat /\ k <= Len(q)
  <2>1. IsFiniteSet(S) /\ Cardinality(S) <= Cardinality(1..Len(q))
    BY <1>1, <1>2, FS_Subset, Zenon
  <2> QED BY <1>1, <2>1, FS_CardinalityType
<1>4. ASSUME NEW i \in 1..Len(q), i \notin S PROVE k < i
  <2>1. S \in SUBSET (1..(i - 1))
    <3> SUFFICES ASSUME NEW j \in S, j >= i PROVE FALSE
      BY <1>2
    <3>1. j \in 1..Len(q)
      BY <1>2
    <3>2. \A n \in 1..j : q[n][2] < cut
      BY <1>2, <3>1
    <3>3. \A n \in 1..i : q[n][2] < cut
      BY <3>1, <3>2
    <3> QED BY <1>2, <1>4, <3>3
  <2>2. IsFiniteSet(1..(i - 1)) /\ Cardinality(1..(i - 1)) = i - 1
    BY Counting
  <2>3. Cardinality(S) <= Cardinality(1..(i - 1))
    BY <2>1, <2>2, FS_Subset, Zenon
  <2> QED BY <1>3, <2>2, <2>3
<1>5. \A i \in 1..k : q[i][2] < cut
  <2> SUFFICES ASSUME NEW i \in 1..k PROVE q[i][2] < cut
    OBVIOUS
  <2>1. i \in 1..Len(q) /\ i \in S
    BY <1>0, <1>3, <1>4
  <2> QED BY <1>2, <2>1
<1> HIDE DEF k
<1>6. /\ SubSeq(q, k + 1, Len(q)) \in Seq(Nat \X Int)
      /\ Len(SubSeq(q, k + 1, Len(q))) = Len(q) - k
      /\ \A i \in 1..(Len(q) - k) : SubSeq(q, k + 1, Len(q))[i] = q[i + k]
  BY <1>0, <1>3
<1>7. k \in 0..Len(q)
  BY <1>0, <1>3
<1> QED BY <1>5, <1>6, <1>7, <1>i

\* The keys in the replay guard are those of its entries.
LEMMA KeysOf ==
    ASSUME NEW q \in Seq(Nat \X Int)
    PROVE  \A key : key \in Keys(q) <=> \E i \in 1..Len(q) : q[i][1] = key
<1>1. DOMAIN q = 1..Len(q)
  OBVIOUS
<1> QED BY <1>1 DEF Keys, ToSet

\* The three ways the guard leaves its queue.
LEMMA GuardQueue ==
    ASSUME FrontTypes, NEW key \in Nat, NEW n \in Int, check_and_record(key, n)
    PROVE  LET left == Unexpired(replay, n)
           IN  /\ replay' \in Seq(Nat \X Int)
               /\ clock' \in Int /\ clock' >= n /\ clock' >= clock /\ evicted \subseteq evicted'
               /\ \/ Replayed(key, n) /\ replay' = left
                  \/ ~Replayed(key, n) /\ replay' = Append(left, <<key, n>>)
                  \/ /\ ~Replayed(key, n) /\ Len(left) > 0 /\ left[1][1] \in evicted'
                     /\ replay' = Append(Tail(left), <<key, n>>)
<1> DEFINE left == Unexpired(replay, n)
<1>1. left \in Seq(Nat \X Int)
  BY Expiry DEF FrontTypes
<1>2. clock' \in Int /\ clock' >= n /\ clock' >= clock /\ evicted \subseteq evicted'
  BY DEF check_and_record, FrontTypes
<1>3. /\ replay' = IF key \in Keys(left) THEN left
                   ELSE Append(IF Len(left) >= MaxEntries THEN Tail(left) ELSE left, <<key, n>>)
      /\ Len(left) >= MaxEntries /\ key \notin Keys(left) => Head(left)[1] \in evicted'
      /\ Replayed(key, n) <=> key \in Keys(left)
  BY DEF check_and_record, Replayed
<1> HIDE DEF left
<1>4. Len(left) >= MaxEntries => Len(left) > 0 /\ Head(left) = left[1] /\ Tail(left) \in Seq(Nat \X Int)
  BY <1>1, FrontAssumption
<1>5. <<key, n>> \in Nat \X Int
  OBVIOUS
<1>6. replay' \in Seq(Nat \X Int)
  BY <1>1, <1>3, <1>4, <1>5
<1>7. \/ Replayed(key, n) /\ replay' = left
      \/ ~Replayed(key, n) /\ replay' = Append(left, <<key, n>>)
      \/ /\ ~Replayed(key, n) /\ Len(left) > 0 /\ left[1][1] \in evicted'
         /\ replay' = Append(Tail(left), <<key, n>>)
  BY <1>3, <1>4
<1> QED BY <1>2, <1>6, <1>7 DEF left

\* An entry dropped for its age was of a hello that is too old by then.
LEMMA Older ==
    ASSUME NEW e \in Int, NEW t \in Int, NEW m \in Nat, NEW n \in Int, e >= t - m, e < n - 2 * m
    PROVE  n > t + m
OBVIOUS

\* The guard forgets a hello only for want of room or when it is too old.
LEMMA GuardRemembers ==
    ASSUME FrontTypes, NEW key \in Nat, NEW n \in Int, check_and_record(key, n),
           NEW h, Hello(h), Remembered(h)
    PROVE  Remembered(h)'
<1> DEFINE left == Unexpired(replay, n)
<1>0. replay \in Seq(Nat \X Int) /\ clock \in Int /\ h.time \in Int /\ MaxTimeDiff \in Nat
  BY FrontAssumption DEF FrontTypes, Hello
<1>1. PICK k \in 0..Len(replay) :
          /\ left \in Seq(Nat \X Int) /\ Len(left) = Len(replay) - k
          /\ \A i \in 1..(Len(replay) - k) : left[i] = replay[i + k]
          /\ \A i \in 1..k : replay[i][2] < n - 2 * MaxTimeDiff
  BY <1>0, Expiry
<1>2. /\ clock' \in Int /\ clock' >= n /\ clock' >= clock /\ evicted \subseteq evicted'
      /\ \/ replay' = left
         \/ replay' = Append(left, <<key, n>>)
         \/ Len(left) > 0 /\ left[1][1] \in evicted' /\ replay' = Append(Tail(left), <<key, n>>)
  BY GuardQueue
<1> HIDE DEF left
<1>3. CASE replay_key(h) \in evicted
  BY <1>2, <1>3 DEF Remembered, replay_key
<1>4. CASE clock > h.time + MaxTimeDiff
  BY <1>0, <1>2, <1>4 DEF Remembered
<1>5. ASSUME NEW i \in 1..Len(replay), replay[i][1] = replay_key(h), replay[i][2] >= h.time - MaxTimeDiff
      PROVE  Remembered(h)'
  <2>0. /\ replay[i] \in Nat \X Int /\ Len(replay) \in Nat /\ <<key, n>> \in Nat \X Int
        /\ replay[i][2] \in Int
    BY <1>0
  <2>1. CASE i <= k
    <3>1. replay[i][2] < n - 2 * MaxTimeDiff
      BY <1>1, <2>0, <2>1
    <3>2. n > h.time + MaxTimeDiff
      BY <1>0, <1>5, <2>0, <3>1, Older
    <3> QED BY <1>0, <1>2, <3>2, SMTT(20) DEF Remembered
  <2>2. CASE i > k
    <3>1. i - k \in 1..Len(left) /\ left[i - k] = replay[i]
      BY <1>1, <2>0, <2>2, SMTT(20)
    <3>2. CASE replay' = left
      BY <1>5, <3>1, <3>2 DEF Remembered, replay_key
    <3>3. CASE replay' = Append(left, <<key, n>>)
      <4>1. i - k \in 1..Len(replay') /\ replay'[i - k] = replay[i]
        BY <1>1, <2>0, <3>1, <3>3
      <4> QED BY <1>5, <4>1 DEF Remembered, replay_key
    <3>4. CASE Len(left) > 0 /\ left[1][1] \in evicted' /\ replay' = Append(Tail(left), <<key, n>>)
      <4>1. CASE i - k = 1
        BY <1>5, <3>1, <3>4, <4>1 DEF Remembered, replay_key
      <4>2. CASE i - k # 1
        <5>1. i - k - 1 \in 1..Len(Tail(left)) /\ Tail(left)[i - k - 1] = left[i - k]
              /\ Tail(left) \in Seq(Nat \X Int)
          BY <1>1, <3>1, <3>4, <4>2
        <5>2. i - k - 1 \in 1..Len(replay') /\ replay'[i - k - 1] = replay[i]
          BY <2>0, <3>1, <3>4, <5>1
        <5> QED BY <1>5, <5>2 DEF Remembered, replay_key
      <4> QED BY <4>1, <4>2
    <3> QED BY <1>2, <3>2, <3>3, <3>4
  <2> QED BY <2>1, <2>2
<1> QED BY <1>3, <1>4, <1>5 DEF Remembered

\* A hello that the window still accepts and that the guard remembers is
\* recognised, or the guard had been asked with a later time.
LEMMA GuardRecognises ==
    ASSUME FrontTypes, NEW h, Hello(h), Remembered(h), NEW n \in Int,
           abs_diff(n, h.time) <= MaxTimeDiff
    PROVE  Replayed(replay_key(h), n) \/ clock > n \/ replay_key(h) \in evicted
<1> DEFINE left == Unexpired(replay, n)
<1>0. /\ replay \in Seq(Nat \X Int) /\ clock \in Int /\ h.time \in Int /\ MaxTimeDiff \in Nat
      /\ n <= h.time + MaxTimeDiff
  BY FrontAssumption DEF FrontTypes, Hello, abs_diff
<1>1. PICK k \in 0..Len(replay) :
          /\ left \in Seq(Nat \X Int) /\ Len(left) = Len(replay) - k
          /\ \A i \in 1..(Len(replay) - k) : left[i] = replay[i + k]
          /\ \A i \in 1..k : replay[i][2] < n - 2 * MaxTimeDiff
  BY <1>0, Expiry
<1>d. Replayed(replay_key(h), n) <=> replay_key(h) \in Keys(left)
  BY DEF Replayed
<1> HIDE DEF left
<1>2. ASSUME NEW i \in 1..Len(replay), replay[i][1] = replay_key(h), replay[i][2] >= h.time - MaxTimeDiff
      PROVE  Replayed(replay_key(h), n)
  <2>0. replay[i] \in Nat \X Int /\ Len(replay) \in Nat /\ replay[i][2] \in Int
    BY <1>0
  <2>1. ~(replay[i][2] < n - 2 * MaxTimeDiff)
    BY <1>0, <1>2, <2>0, SMTT(20)
  <2>2. i > k
    <3>1. i \notin 1..k
      BY <1>1, <2>1
    <3> QED BY <2>0, <3>1
  <2>3. i - k \in 1..Len(left) /\ left[i - k] = replay[i]
    BY <1>1, <2>0, <2>2
  <2> QED BY <1>1, <1>2, <1>d, <2>3, KeysOf
<1>3. clock > h.time + MaxTimeDiff => clock > n
  BY <1>0
<1> QED BY <1>2, <1>3 DEF Remembered

-----------------------------------------------------------------------------
(* The steps of a connection.                                              *)

Fates == client' = [x \in Conns |-> client'[x]]

\* A connection nobody touches keeps its handshake.
LEMMA HonestSame ==
    ASSUME NEW x \in Conns, Honest(x), conn'[x] = conn[x], client'[x] = client[x]
    PROVE  Honest(x)'
BY DEF Honest, KeysAgree, ClientVerdict, Flight, ServerState, Stolen, ServerAuthKey

\* A step of connection c that takes nothing over.
LEMMA OneConnection ==
    ASSUME FrontInv, NEW c \in Conns, NEW R, Connection(R), Set(c, R), Honest(c)', Fates,
           \A x \in Conns \ {c} : client'[x] = client[x],
           R.taken => conn[c].taken /\ R.hello = conn[c].hello /\ R.late = conn[c].late,
           UNCHANGED <<now, replay, evicted, clock>>, \A h \in sent' : Hello(h)
    PROVE  FrontInv'
<1>1. conn' = [conn EXCEPT ![c] = R] /\ conn = [x \in Conns |-> conn[x]]
  BY DEF Set, FrontInv, FrontTypes
<1>2. conn'[c] = R /\ (\A x \in Conns \ {c} : conn'[x] = conn[x]) /\ conn' = [x \in Conns |-> conn'[x]]
  BY <1>1
<1>3. FrontTypes'
  BY <1>2 DEF FrontInv, FrontTypes, Fates
<1>4. \A x \in Conns : conn'[x].taken => /\ conn[x].taken /\ conn'[x].hello = conn[x].hello
                                        /\ conn'[x].late = conn[x].late
  BY <1>2
<1>5. Memory'
  BY <1>4 DEF FrontInv, Memory, Remembered, replay_key
<1>6. \A x \in Conns : Honest(x)'
  BY <1>2, HonestSame DEF FrontInv
<1> QED BY <1>3, <1>5, <1>6 DEF FrontInv

\* Only the client's side of connection c moves, or nothing does.
LEMMA OneClient ==
    ASSUME FrontInv, NEW c \in Conns, UNCHANGED <<conn, now, replay, evicted, clock, sent>>, Honest(c)',
           Fates, \A x \in Conns \ {c} : client'[x] = client[x]
    PROVE  FrontInv'
<1>1. FrontTypes' /\ Memory'
  BY DEF FrontInv, FrontTypes, Fates, Memory, Remembered
<1>2. \A x \in Conns : Honest(x)'
  BY HonestSame DEF FrontInv
<1> QED BY <1>1, <1>2 DEF FrontInv

\* Time, and steps outside the front.
LEMMA NoConnection ==
    ASSUME FrontInv, now' \in Int, UNCHANGED <<conn, client, replay, evicted, clock, sent>>
    PROVE  FrontInv'
<1>1. FrontTypes' /\ Memory'
  BY DEF FrontInv, FrontTypes, Memory, Remembered
<1>2. \A x \in Conns : Honest(x)'
  BY HonestSame DEF FrontInv
<1> QED BY <1>1, <1>2 DEF FrontInv

\* A connection that ends is forgotten; the guard is not.
LEMMA Closing ==
    ASSUME FrontInv, NEW c \in Conns, Close(c), UNCHANGED <<now, replay, evicted, clock, sent>>
    PROVE  FrontInv'
<1> DEFINE h == IF conn[c].taken THEN conn[c].hello ELSE NoHello
           R == [Blank EXCEPT !.st = "closed", !.taken = conn[c].taken, !.late = conn[c].late, !.hello = h]
<1>0. Connection(conn[c]) /\ client = [x \in Conns |-> client[x]] /\ \A g \in sent : Hello(g)
  BY DEF FrontInv, FrontTypes
<1>1. Set(c, R) /\ client' = [client EXCEPT ![c] = "none"]
  BY DEF Close
<1>2. /\ Hello(h) /\ R.st = "closed" /\ R.taken = conn[c].taken /\ R.late = conn[c].late /\ R.hello = h
      /\ R.now = 0 /\ DOMAIN R = {"st", "now", "hello", "sh", "taken", "late"}
  BY <1>0 DEF Blank, NoHello, Hello, Connection
<1>3. R.taken => R.hello = conn[c].hello
  BY <1>2
<1> HIDE DEF R, h
<1>4. Connection(R)
  BY <1>2 DEF Connection
<1>5. Fates /\ client'[c] = "none" /\ \A x \in Conns \ {c} : client'[x] = client[x]
  BY <1>0, <1>1 DEF Fates
<1>6. conn'[c] = R
  BY <1>1 DEF Set, FrontInv, FrontTypes
<1>7. Honest(c)'
  BY <1>2, <1>5, <1>6 DEF Honest
<1> QED BY <1>0, <1>1, <1>2, <1>3, <1>4, <1>5, <1>7, OneConnection

\* The next stage: not one that promises more than c has.
LEMMA Staging ==
    ASSUME FrontInv, NEW c \in Conns, NEW stage, Goto(c, stage), UNCHANGED <<now, replay, evicted, clock, sent>>,
           stage # "finished", stage \in {"mt_flight", "mt_header"} => conn[c].hello.kind = "telegram",
           conn[c].st \in {"finished", "session"} => stage = "session",
           Fates, \A x \in Conns \ {c} : client'[x] = client[x],
           client'[c] = client[c] \/ conn[c].hello.kind = "telegram"
    PROVE  FrontInv'
<1> DEFINE R == [conn[c] EXCEPT !.st = stage]
<1>0. Connection(conn[c]) /\ \A g \in sent : Hello(g)
  BY DEF FrontInv, FrontTypes
<1>1. /\ Set(c, R) /\ R.st = stage /\ R.hello = conn[c].hello /\ R.sh = conn[c].sh /\ R.now = conn[c].now
      /\ R.taken = conn[c].taken /\ R.late = conn[c].late
      /\ DOMAIN R = {"st", "now", "hello", "sh", "taken", "late"}
  BY <1>0 DEF Goto, Connection
<1> HIDE DEF R
<1>2. Connection(R)
  BY <1>0, <1>1 DEF Connection
<1>3. conn'[c] = R
  BY <1>1 DEF Set, FrontInv, FrontTypes
<1>4. Honest(c)'
  <2>1. CASE client[c] = "open" /\ conn[c].hello.kind = "reality"
    <3>1. KeysAgree(c) /\ conn[c].st # "relay" /\ stage = "session" /\ client'[c] = client[c]
      BY <2>1 DEF FrontInv, Honest
    <3>2. KeysAgree(c)'
      BY <1>1, <1>3, <3>1 DEF KeysAgree, ClientVerdict, Flight, ServerState, Stolen, ServerAuthKey
    <3> QED BY <1>1, <1>3, <3>1, <3>2 DEF Honest
  <2>2. CASE ~(client[c] = "open" /\ conn[c].hello.kind = "reality")
    BY <1>1, <1>3, <2>2 DEF Honest
  <2> QED BY <2>1, <2>2
<1> QED BY <1>0, <1>1, <1>2, <1>4, OneConnection

-----------------------------------------------------------------------------
(* The decisions.                                                          *)

\* A hello that opens is in the acceptance window.
LEMMA Accepted ==
    ASSUME NEW h, h.kind = "reality", Hello(h), NEW n \in Int, classify_full(Message(h), n) # Malformed
    PROVE  abs_diff(n, h.time) <= MaxTimeDiff
<1> DEFINE msg == Message(h)
<1>1. msg = build_authed_client_hello(h.id, h.user, h.time, h.key)
  BY DEF Message
<1>2. msg.session_id.payload = [unix_secs |-> h.time, short_id |-> h.user]
  BY <1>1 DEF build_authed_client_hello, build_client_hello, seal_session_id
<1>3. PICK key, aad :
          LET pt == open_session_id(key, msg.random, msg.session_id, aad)
          IN  pt # Malformed /\ ~(abs_diff(n, pt.unix_secs) > MaxTimeDiff)
  BY DEF classify_full, extract_client_hello_fields
<1> HIDE DEF msg
<1>4. ~(abs_diff(n, h.time) > MaxTimeDiff)
  BY <1>2, <1>3 DEF open_session_id
<1>5. abs_diff(n, h.time) \in Int /\ MaxTimeDiff \in Int
  BY FrontAssumption DEF Hello, abs_diff
<1> QED BY <1>4, <1>5

\* The clock check bounds the age of a hello.
LEMMA Near ==
    ASSUME NEW a \in Int, NEW b \in Int, NEW m \in Nat, abs_diff(a, b) <= m
    PROVE  a >= b - m
BY DEF abs_diff

\* The decision on a first record: relayed, taken over, or a Telegram flight.
LEMMA Deciding ==
    ASSUME FrontInv, NEW c \in Conns, NEW R, Connection(R), Set(c, R), conn[c].st = "dial",
           R.st \in {"relay", "steal", "mt_flight"}, R.st = "mt_flight" => conn[c].hello.kind = "telegram",
           R.hello = conn[c].hello, clock > conn[c].now => R.late,
           R.taken => ~Replayed(replay_key(conn[c].hello), conn[c].now),
           abs_diff(conn[c].now, conn[c].hello.time) <= MaxTimeDiff,
           check_and_record(replay_key(conn[c].hello), conn[c].now), UNCHANGED <<now, client, sent>>
    PROVE  FrontInv'
<1> DEFINE h == conn[c].hello
           n == conn[c].now
           key == replay_key(h)
<1>0. FrontTypes /\ Memory /\ Connection(conn[c]) /\ Hello(h) /\ n \in Int /\ key \in Nat
  BY DEF FrontInv, FrontTypes, Connection, Hello, replay_key
<1>1. conn' = [conn EXCEPT ![c] = R] /\ conn = [x \in Conns |-> conn[x]]
  BY DEF Set, FrontInv, FrontTypes
<1>2. conn'[c] = R /\ (\A x \in Conns \ {c} : conn'[x] = conn[x]) /\ conn' = [x \in Conns |-> conn'[x]]
  BY <1>1
<1>3. replay' \in Seq(Nat \X Int) /\ clock' \in Int /\ clock' >= n /\ evicted \subseteq evicted'
  BY <1>0, GuardQueue
<1>4. FrontTypes'
  BY <1>0, <1>2, <1>3 DEF FrontTypes
<1>5. ASSUME NEW x \in Conns, conn'[x].taken PROVE Remembered(conn[x].hello)'
  <2>1. CASE x = c
    <3>1. ~Replayed(key, n) /\ R.taken
      BY <1>2, <1>5, <2>1
    <3>2. PICK q \in Seq(Nat \X Int) : replay' = Append(q, <<key, n>>)
      <4>1. Unexpired(replay, n) \in Seq(Nat \X Int)
        BY <1>0, Expiry DEF FrontTypes
      <4>2. Len(Unexpired(replay, n)) > 0 => Tail(Unexpired(replay, n)) \in Seq(Nat \X Int)
        BY <4>1
      <4>3. \/ replay' = Append(Unexpired(replay, n), <<key, n>>)
            \/ Len(Unexpired(replay, n)) > 0 /\ replay' = Append(Tail(Unexpired(replay, n)), <<key, n>>)
        BY <1>0, <3>1, GuardQueue
      <4> QED BY <4>1, <4>2, <4>3
    <3>3. Len(replay') \in 1..Len(replay') /\ replay'[Len(replay')] = <<key, n>>
      BY <1>0, <3>2
    <3>4. n >= h.time - MaxTimeDiff
      BY <1>0, FrontAssumption, Near DEF Hello
    <3>5. conn'[x].hello = h
      BY <1>2, <2>1
    <3> HIDE DEF h, n
    <3>6. replay'[Len(replay')][1] = replay_key(h) /\ replay'[Len(replay')][2] >= h.time - MaxTimeDiff
      BY <3>3, <3>4
    <3> QED BY <3>3, <3>5, <3>6 DEF Remembered, replay_key
  <2>2. CASE x # c
    <3>1. conn'[x] = conn[x] /\ Hello(conn[x].hello) /\ Remembered(conn[x].hello)
      BY <1>0, <1>2, <1>5, <2>2 DEF Memory, FrontTypes, Connection
    <3>2. PICK g : g = conn[x].hello
      OBVIOUS
    <3>3. Remembered(g)'
      BY <1>0, <3>1, <3>2, GuardRemembers
    <3> QED BY <3>1, <3>2, <3>3 DEF Remembered, replay_key
  <2> QED BY <2>1, <2>2
<1>6. ASSUME NEW x \in Conns, x # c, conn[x].hello = h, conn[x].taken, R.taken
      PROVE  R.late \/ replay_key(h) \in evicted'
  <2>1. Remembered(h)
    BY <1>0, <1>6 DEF Memory
  <2>2. Replayed(replay_key(h), n) \/ clock > n \/ replay_key(h) \in evicted
    BY <1>0, <2>1, GuardRecognises
  <2> QED BY <1>3, <1>6, <2>2
<1>7. Memory'
  <2>1. ASSUME NEW x \in Conns, NEW y \in Conns, x # y, conn'[x].hello = conn'[y].hello,
               conn'[x].taken, conn'[y].taken
        PROVE  conn'[y].late \/ conn'[x].late \/ replay_key(conn'[x].hello) \in evicted'
    <3>1. CASE x = c
      BY <1>2, <1>6, <2>1, <3>1
    <3>2. CASE y = c
      BY <1>2, <1>6, <2>1, <3>2
    <3>3. CASE x # c /\ y # c
      BY <1>0, <1>2, <1>3, <2>1, <3>3 DEF Memory
    <3> QED BY <3>1, <3>2, <3>3
  <2> QED BY <1>5, <2>1 DEF Memory, replay_key
<1>8. \A x \in Conns : Honest(x)'
  <2>1. Honest(c)'
    BY <1>2 DEF Honest, FrontInv
  <2> QED BY <1>2, <2>1, HonestSame DEF FrontInv
<1> QED BY <1>4, <1>7, <1>8 DEF FrontInv

-----------------------------------------------------------------------------
(* The handshake.                                                          *)

\* A sealed record opens under the key that sealed it.
LEMMA RecordOpens ==
    ASSUME NEW suite, NEW key, NEW type, NEW plain
    PROVE  open_record(suite, key, 0, seal_record(suite, key, 0, type, plain)) = <<type, plain>>
BY DEF open_record, seal_record

\* What a client that has hello ch makes of flight F.
ClientSees(ch, F, suite, shared, hs, key, msgs) ==
    /\ suite = suite_from(F.sh.suite)
    /\ F.sh.group = "hybrid"
         => shared = <<decapsulate(ch.mlkem, F.sh.share[1]), diffie_hellman(ch.x25519, F.sh.share[2])>>
    /\ F.sh.group # "hybrid" => shared = <<"x", diffie_hellman(ch.x25519, F.sh.share)>>
    /\ hs = handshake_secret(suite, early_secret(suite), shared)
    /\ key = traffic_key(suite, traffic_secret(suite, hs, "s hs", <<ch, F.sh>>))
    /\ open_record(suite, key, 0, F.enc) = <<"hs", msgs>>

Signed(msgs, ck) == msgs.cert.mac = <<ck, msgs.cert.pub>>

\* The keys of a client that accepts it, and who must have signed it.
LEMMA ClientKeys ==
    ASSUME NEW ch, NEW F, NEW ck, client_handshake(ch, F, ck) # Malformed,
           NEW suite, NEW shared, NEW hs, NEW key, NEW msgs,
           ClientSees(ch, F, suite, shared, hs, key, msgs)
    PROVE  /\ client_handshake(ch, F, ck).keys = session_keys(suite, hs, Append(<<ch, F.sh>>, msgs))
           /\ Signed(msgs, ck)
<1> USE DEF ClientSees
<1> DEFINE sh == F.sh
           csuite == suite_from(sh.suite)
           hybrid == sh.group = "hybrid"
           ss == IF hybrid THEN decapsulate(ch.mlkem, sh.share[1]) ELSE "x"
           peer == IF hybrid THEN sh.share[2] ELSE sh.share
           cshared == <<ss, diffie_hellman(ch.x25519, peer)>>
           chs == handshake_secret(csuite, early_secret(csuite), cshared)
           s_hs == traffic_secret(csuite, chs, "s hs", <<ch, sh>>)
           opened == open_record(csuite, traffic_key(csuite, s_hs), 0, F.enc)
<1>1. /\ client_handshake(ch, F, ck).keys = session_keys(csuite, chs, Append(<<ch, sh>>, opened[2]))
      /\ opened[2].cert.mac = <<ck, opened[2].cert.pub>>
  BY DEF client_handshake, identity_holds
<1>2. cshared = shared /\ csuite = suite
  <2>1. CASE hybrid
    BY <2>1
  <2>2. CASE ~hybrid
    BY <2>2
  <2> QED BY <2>1, <2>2
<1> HIDE DEF cshared, csuite
<1>3. chs = hs
  BY <1>2
<1> HIDE DEF chs
<1>4. traffic_key(csuite, s_hs) = key
  BY <1>2, <1>3
<1> HIDE DEF s_hs, sh
<1>5. opened = <<"hs", msgs>>
  BY <1>2, <1>4
<1> HIDE DEF opened
<1>6. opened[2] = msgs
  BY <1>5
<1> QED BY <1>1, <1>2, <1>3, <1>6 DEF sh, Signed

\* A client rejects a handshake whose certificate is not signed for its key.
LEMMA ClientChecks ==
    ASSUME NEW ch, NEW F, NEW ck, NEW suite, NEW shared, NEW hs, NEW key, NEW msgs,
           ClientSees(ch, F, suite, shared, hs, key, msgs), ~Signed(msgs, ck)
    PROVE  client_handshake(ch, F, ck) = Malformed
BY ClientKeys

\* What the server answers with, and the keys it has then.
Answers(ch, D, ak, c, S) ==
    LET suite == suite_from(D.suite)
        kem == encapsulate(ch.mlkem, <<"srv", c>>)
        dh == diffie_hellman(<<"srv", c>>, ch.x25519)
        shared == IF D.group = "hybrid" THEN <<kem.ss, dh>> ELSE <<"x", dh>>
        share == IF D.group = "hybrid" THEN <<kem.ct, <<"srv", c>>>> ELSE <<"srv", c>>
        hs == handshake_secret(suite, early_secret(suite), shared)
        s_hs == traffic_secret(suite, hs, "s hs", <<ch, S.sh>>)
        msgs == build_server_messages(ak, <<ch, S.sh>>, suite, s_hs)
    IN  /\ S.sh = [D EXCEPT !.share = share]
        /\ S.enc = seal_record(suite, traffic_key(suite, s_hs), 0, "hs", msgs)
        /\ S.keys = session_keys(suite, hs, Append(<<ch, S.sh>>, msgs))

\* What a server that takes over answers, and the keys it derives.
LEMMA ServerKeys ==
    ASSUME NEW ch, NEW D, NEW ak, NEW c, NEW S, S = server_handshake(ch, D, ak, c), S # Malformed
    PROVE  Answers(ch, D, ak, c, S)
<1> DEFINE suite == suite_from(D.suite)
           kem == encapsulate(ch.mlkem, <<"srv", c>>)
           hybrid == D.group = "hybrid"
           share == IF hybrid THEN <<kem.ct, <<"srv", c>>>> ELSE <<"srv", c>>
           dh == diffie_hellman(<<"srv", c>>, ch.x25519)
           shared == IF hybrid THEN <<kem.ss, dh>> ELSE <<"x", dh>>
           sh == adapt_server_hello(D, share)
           hs == handshake_secret(suite, early_secret(suite), shared)
           s_hs == traffic_secret(suite, hs, "s hs", <<ch, sh>>)
           msgs == build_server_messages(ak, <<ch, sh>>, suite, s_hs)
<1>1. sh # Malformed
  BY DEF server_handshake
<1>2. /\ S.sh = sh /\ S.enc = seal_record(suite, traffic_key(suite, s_hs), 0, "hs", msgs)
      /\ S.keys = session_keys(suite, hs, Append(<<ch, sh>>, msgs))
  BY DEF server_handshake
<1>3. sh = [D EXCEPT !.share = share]
  BY <1>1 DEF adapt_server_hello
<1> HIDE DEF sh
<1> QED BY <1>2, <1>3 DEF Answers

\* A client that gets through to the server has the server's keys: both draw
\* the same shared secret, in the plain and in the hybrid group.
LEMMA SameKeys ==
    ASSUME NEW ch, NEW suite0, NEW group, NEW id, NEW ak, NEW c, NEW ck, NEW S,
           S = server_handshake(ch, dest_server_hello(suite0, group, id), ak, c), S # Malformed,
           client_handshake(ch, S, ck) # Malformed
    PROVE  client_handshake(ch, S, ck).keys = S.keys
<1> DEFINE D == dest_server_hello(suite0, group, id)
           suite == suite_from(D.suite)
           kem == encapsulate(ch.mlkem, <<"srv", c>>)
           dh == diffie_hellman(<<"srv", c>>, ch.x25519)
           shared == IF D.group = "hybrid" THEN <<kem.ss, dh>> ELSE <<"x", dh>>
           share == IF D.group = "hybrid" THEN <<kem.ct, <<"srv", c>>>> ELSE <<"srv", c>>
           hs == handshake_secret(suite, early_secret(suite), shared)
           key == traffic_key(suite, traffic_secret(suite, hs, "s hs", <<ch, S.sh>>))
           msgs == build_server_messages(ak, <<ch, S.sh>>, suite,
                                         traffic_secret(suite, hs, "s hs", <<ch, S.sh>>))
<1>0. S = server_handshake(ch, D, ak, c)
  OBVIOUS
<1>2. D = [suite |-> suite0, group |-> group, share |-> <<"dest", id>>]
  BY DEF dest_server_hello
<1> HIDE DEF D
<1>1. /\ S.sh = [D EXCEPT !.share = share]
      /\ S.enc = seal_record(suite, key, 0, "hs", msgs)
      /\ S.keys = session_keys(suite, hs, Append(<<ch, S.sh>>, msgs))
  <2>1. Answers(ch, D, ak, c, S)
    BY <1>0, ServerKeys
  <2> QED BY <2>1 DEF Answers
<1>3. S.sh.suite = D.suite /\ S.sh.group = D.group /\ S.sh.share = share
  BY <1>1, <1>2
<1>4. S.sh.group = "hybrid"
        => shared = <<decapsulate(ch.mlkem, S.sh.share[1]), diffie_hellman(ch.x25519, S.sh.share[2])>>
  <2> SUFFICES ASSUME D.group = "hybrid"
               PROVE  shared = <<decapsulate(ch.mlkem, S.sh.share[1]), diffie_hellman(ch.x25519, S.sh.share[2])>>
    BY <1>3
  <2>1. S.sh.share[1] = kem.ct /\ S.sh.share[2] = <<"srv", c>> /\ shared = <<kem.ss, dh>>
    BY <1>3
  <2>2. decapsulate(ch.mlkem, kem.ct) = kem.ss
    BY DEF encapsulate, decapsulate
  <2>3. diffie_hellman(ch.x25519, <<"srv", c>>) = dh
    BY DEF diffie_hellman
  <2> QED BY <2>1, <2>2, <2>3
<1>5. S.sh.group # "hybrid" => shared = <<"x", diffie_hellman(ch.x25519, S.sh.share)>>
  BY <1>3 DEF diffie_hellman
<1>7. suite = suite_from(S.sh.suite)
  BY <1>3
<1>8. hs = handshake_secret(suite, early_secret(suite), shared)
  OBVIOUS
<1> HIDE DEF shared, msgs, suite, share, hs
<1>9. key = traffic_key(suite, traffic_secret(suite, hs, "s hs", <<ch, S.sh>>))
  OBVIOUS
<1> HIDE DEF key
<1>6. open_record(suite, key, 0, S.enc) = <<"hs", msgs>>
  BY <1>1, RecordOpens
<1>10. client_handshake(ch, S, ck).keys = session_keys(suite, hs, Append(<<ch, S.sh>>, msgs))
  <2>1. ClientSees(ch, S, suite, shared, hs, key, msgs)
    BY <1>4, <1>5, <1>6, <1>7, <1>8, <1>9 DEF ClientSees
  <2> QED BY <2>1, ClientKeys
<1> QED BY <1>1, <1>10

\* The borrowed site's flight is valid, but cannot be signed for the server's key.
LEMMA SiteRefused ==
    ASSUME NEW ch, NEW id, NEW secret, NEW random
    PROVE  client_handshake(ch, dest_flight(ch, dest_server_hello("AES_128_GCM", "x25519", id)),
                            derive_auth_key(secret, random)) = Malformed
<1> DEFINE sh == dest_server_hello("AES_128_GCM", "x25519", id)
           ck == derive_auth_key(secret, random)
           suite == sh.suite
           shared == <<"x", diffie_hellman(sh.share, ch.x25519)>>
           hs == handshake_secret(suite, early_secret(suite), shared)
           key == traffic_key(suite, traffic_secret(suite, hs, "s hs", <<ch, sh>>))
           cert == [pub |-> "dest", mac |-> <<<<"ca", {}, <<>>>>, "dest">>]
           cv == [key |-> "dest", over |-> <<ch, sh, cert>>]
           msgs == [cert |-> cert, cv |-> cv,
                    fin |-> finished_verify_data(suite, traffic_secret(suite, hs, "s hs", <<ch, sh>>),
                                                 <<ch, sh, cert, cv>>)]
           F == dest_flight(ch, sh)
<1>1. sh.suite = "AES_128_GCM" /\ sh.group = "x25519" /\ suite_from("AES_128_GCM") = "AES_128_GCM"
  BY DEF dest_server_hello, suite_from, CipherSuites
<1> HIDE DEF sh
<1>2. F.sh = sh /\ F.enc = seal_record(suite, key, 0, "hs", msgs)
  BY DEF dest_flight
<1>3. ~Signed(msgs, ck)
  <2>1. <<"ca", {}, <<>>>> # ck
    BY DEF derive_auth_key
  <2> QED BY <2>1 DEF Signed
<1> HIDE DEF ck, msgs, F
<1>4. shared = <<"x", diffie_hellman(ch.x25519, F.sh.share)>>
  BY <1>2 DEF diffie_hellman
<1>7. suite = suite_from(F.sh.suite) /\ F.sh.group # "hybrid"
  BY <1>1, <1>2
<1> HIDE DEF shared, suite
<1>8. hs = handshake_secret(suite, early_secret(suite), shared)
  OBVIOUS
<1> HIDE DEF hs
<1>9. key = traffic_key(suite, traffic_secret(suite, hs, "s hs", <<ch, F.sh>>))
  BY <1>2
<1> HIDE DEF key
<1>5. open_record(suite, key, 0, F.enc) = <<"hs", msgs>>
  BY <1>2, RecordOpens
<1>6. client_handshake(ch, F, ck) = Malformed
  <2>1. ClientSees(ch, F, suite, shared, hs, key, msgs)
    BY <1>4, <1>5, <1>7, <1>8, <1>9 DEF ClientSees
  <2> QED BY <1>3, <2>1, ClientChecks
<1> QED BY <1>6 DEF F, ck, sh

-----------------------------------------------------------------------------
(* The actions.                                                            *)

\* The hellos a peer can send are well formed.
LEMMA HelloMade ==
    ASSUME FrontTypes, NEW c \in Conns, NEW peer, NEW h \in Hellos(c, peer)
    PROVE  Hello(h)
<1>0. c \in Nat /\ now \in Int /\ Skew[c] \in Int /\ \A g \in sent : Hello(g)
  BY FrontAssumption DEF FrontTypes
<1>1. \A kind, user, time, key : Fresh(c, kind, user, time, key).id = c
                                /\ Fresh(c, kind, user, time, key).time = time
  BY DEF Fresh
<1>2. NoHello.id = 0 /\ NoHello.time = 0 /\ [NoHello EXCEPT !.kind = peer].id = 0
      /\ [NoHello EXCEPT !.kind = peer].time = 0
  BY DEF NoHello
<1>3. CASE peer = "client"
  BY <1>0, <1>1, <1>3 DEF Hellos, Hello
<1>4. CASE peer = "stale"
  BY <1>0, <1>1, <1>4 DEF Hellos, Hello
<1>5. CASE peer = "telegram"
  <2>1. h = Fresh(c, "telegram", "", now, ServerKey)
    BY <1>5 DEF Hellos
  <2>2. h.id = c /\ h.time = now
    BY <2>1 DEF Fresh
  <2> QED BY <1>0, <2>2 DEF Hello
<1>6. CASE peer = "replayer"
  BY <1>0, <1>6 DEF Hellos
<1>7. CASE peer \notin {"client", "stale", "telegram", "replayer"}
  <2>1. h = [NoHello EXCEPT !.kind = peer]
    BY <1>7 DEF Hellos
  <2> QED BY <1>2, <2>1 DEF Hello
<1> QED BY <1>3, <1>4, <1>5, <1>6, <1>7

\* A connection that is admitted, refused, or comes over QUIC starts blank.
LEMMA Starting ==
    ASSUME FrontInv, NEW c \in Conns, NEW R, Set(c, R), DOMAIN R = DOMAIN Blank,
           R.now \in Int, Hello(R.hello), ~R.taken, R.st \in {"first", "closed", "handshake"},
           client'[c] = "open" => R.hello.kind # "reality",
           Fates, \A x \in Conns \ {c} : client'[x] = client[x],
           UNCHANGED <<now, replay, evicted, clock>>, \A h \in sent' : Hello(h)
    PROVE  FrontInv'
<1>1. DOMAIN Blank = {"st", "now", "hello", "sh", "taken", "late"}
  BY DEF Blank
<1>2. Connection(R)
  BY <1>1 DEF Connection
<1>3. conn'[c] = R
  BY DEF Set, FrontInv, FrontTypes
<1>4. Honest(c)'
  BY <1>3 DEF Honest
<1> QED BY <1>2, <1>4, OneConnection

\* The TCP front accepts.
LEMMA AcceptInv == ASSUME FrontInv, NEW c \in Conns, NEW peer, Accept(c, peer) PROVE FrontInv'
<1>0. FrontTypes /\ now \in Int /\ client = [x \in Conns |-> client[x]]
  BY DEF FrontInv, FrontTypes
<1>1. PICK h \in Hellos(c, peer) :
          /\ Set(c, [Blank EXCEPT !.st = "first", !.now = now, !.hello = h])
          /\ sent' = IF h.kind \in {"reality", "telegram"} THEN sent \cup {h} ELSE sent
  BY DEF Accept
<1>2. Hello(h)
  BY <1>0, HelloMade
<1> DEFINE R == [Blank EXCEPT !.st = "first", !.now = now, !.hello = h]
<1>3. /\ DOMAIN R = DOMAIN Blank /\ R.now = now /\ R.hello = h /\ R.st = "first" /\ R.taken = FALSE
  BY DEF Blank
<1> HIDE DEF R
<1>4. \A g \in sent' : Hello(g)
  BY <1>0, <1>1, <1>2 DEF FrontTypes
<1>5. Fates /\ client'[c] # "open" /\ \A x \in Conns \ {c} : client'[x] = client[x]
  BY <1>0 DEF Accept, Fates
<1>6. UNCHANGED <<now, replay, evicted, clock>>
  BY DEF Accept
<1> QED BY <1>0, <1>1, <1>2, <1>3, <1>4, <1>5, <1>6, Starting DEF R

\* A connection over a cap is refused.
LEMMA RejectInv == ASSUME FrontInv, NEW c \in Conns, Reject(c) PROVE FrontInv'
<1> DEFINE R == [Blank EXCEPT !.st = "closed"]
<1>1. /\ DOMAIN R = DOMAIN Blank /\ R.now = 0 /\ R.hello = NoHello /\ R.st = "closed" /\ R.taken = FALSE
      /\ Hello(NoHello) /\ NoHello.kind = "none"
  BY DEF Blank, NoHello, Hello
<1>2. Set(c, R)
  BY DEF Reject
<1> HIDE DEF R
<1>3. Fates /\ UNCHANGED <<now, replay, evicted, clock, sent, client>> /\ \A h \in sent' : Hello(h)
  BY DEF Reject, FrontInv, FrontTypes, Fates
<1> QED BY <1>1, <1>2, <1>3, Starting

\* The QUIC front accepts.
LEMMA QuicAcceptInv == ASSUME FrontInv, NEW c \in Conns, QuicAccept(c) PROVE FrontInv'
<1> DEFINE R(stage) == [Blank EXCEPT !.st = stage]
<1>1. \A stage : /\ DOMAIN R(stage) = DOMAIN Blank /\ R(stage).now = 0 /\ R(stage).hello = NoHello /\ R(stage).st = stage
               /\ R(stage).taken = FALSE /\ Hello(NoHello) /\ NoHello.kind = "none"
  BY DEF Blank, NoHello, Hello
<1>2. PICK stage \in {"handshake", "closed"} : Set(c, R(stage))
  BY DEF QuicAccept
<1>3. PICK r : r = R(stage)
  OBVIOUS
<1>5. /\ DOMAIN r = DOMAIN Blank /\ r.now = 0 /\ r.hello = NoHello /\ r.st = stage
      /\ r.taken = FALSE /\ Hello(NoHello) /\ NoHello.kind = "none" /\ Set(c, r)
  BY <1>1, <1>2, <1>3
<1>4. Fates /\ UNCHANGED <<now, replay, evicted, clock, sent, client>> /\ \A h \in sent' : Hello(h)
  BY DEF QuicAccept, Untouched, FrontInv, FrontTypes, Fates
<1> HIDE DEF R
<1> QED BY <1>4, <1>5, Starting

\* A connection ends, at whatever stage.
LEMMA ClosingInv ==
    ASSUME FrontInv, NEW c \in Conns,
           Ends(c) \/ StageEnds(c) \/ ConnectionEnds(c)
    PROVE  FrontInv'
BY Closing DEF Ends, StageEnds, ConnectionEnds, Untouched

\* Stages that neither decide nor answer.
LEMMA StagingInv ==
    ASSUME FrontInv, NEW c \in Conns,
           \/ FirstRecord(c) \/ DestFails(c) \/ DecideStranger(c) \/ MtFlight(c) \/ Handshaken(c) \/ SetUp(c)
    PROVE  FrontInv'
<1>0. Fates /\ UNCHANGED <<now, replay, evicted, clock, sent, client>>
  BY DEF FirstRecord, DestFails, DecideStranger, MtFlight, Handshaken, SetUp, Quiet, Untouched,
         Fates, FrontInv, FrontTypes
<1>1. CASE FirstRecord(c)
  BY <1>0, <1>1, Staging DEF FirstRecord
<1>2. CASE DestFails(c)
  BY <1>0, <1>2, Staging DEF DestFails
<1>3. CASE DecideStranger(c)
  BY <1>0, <1>3, Staging DEF DecideStranger
<1>4. CASE MtFlight(c)
  <2>1. conn[c].hello.kind = "telegram"
    BY <1>4 DEF MtFlight, FrontInv, Honest
  <2> QED BY <1>0, <1>4, <2>1, Staging DEF MtFlight
<1>5. CASE Handshaken(c) \/ SetUp(c)
  BY <1>0, <1>5, Staging DEF Handshaken, SetUp
<1> QED BY <1>1, <1>2, <1>3, <1>4, <1>5

\* A Telegram hello is recorded and handed on.
LEMMA DecideTelegramInv == ASSUME FrontInv, NEW c \in Conns, DecideTelegram(c) PROVE FrontInv'
<1> DEFINE h == conn[c].hello
           n == conn[c].now
           again == Replayed(replay_key(h), n)
           late == clock > n
           R == [conn[c] EXCEPT !.st = IF again THEN "relay" ELSE "mt_flight", !.taken = ~again, !.late = late]
<1>0. Connection(conn[c])
  BY DEF FrontInv, FrontTypes
<1>1. /\ conn[c].st = "dial" /\ h.kind = "telegram" /\ abs_diff(n, h.time) <= MaxTimeDiff
      /\ check_and_record(replay_key(h), n) /\ Set(c, R) /\ UNCHANGED <<now, client, sent>>
  BY DEF DecideTelegram, Telegram, mt_authenticate
<1> HIDE DEF again, late
<1>2. /\ DOMAIN R = {"st", "now", "hello", "sh", "taken", "late"} /\ R.now = n /\ R.hello = h
      /\ R.st \in {"relay", "mt_flight"} /\ R.taken = ~again /\ R.late = late
  BY <1>0 DEF Connection
<1>3. (R.taken => ~Replayed(replay_key(h), n)) /\ (clock > n => R.late)
  BY <1>2 DEF again, late
<1> HIDE DEF R
<1>4. Connection(R)
  BY <1>0, <1>2 DEF Connection
<1> QED BY <1>1, <1>2, <1>3, <1>4, Deciding

\* An authenticated hello is recorded and taken over, once.
LEMMA DecideAuthedInv == ASSUME FrontInv, NEW c \in Conns, DecideAuthed(c) PROVE FrontInv'
<1> DEFINE h == conn[c].hello
           n == conn[c].now
           next == AuthedElse(c, classify_full(Message(h), n), n)
           taken == next = "steal"
           late == clock > n
           R == [conn[c] EXCEPT !.st = next, !.late = late, !.taken = taken]
<1>0. Connection(conn[c]) /\ Hello(h) /\ n \in Int
  BY DEF FrontInv, FrontTypes, Connection
<1>1. /\ conn[c].st = "dial" /\ h.kind = "reality" /\ classify_full(Message(h), n) # Malformed
      /\ check_and_record(replay_key(h), n) /\ Set(c, R) /\ UNCHANGED <<now, client, sent>>
  BY DEF DecideAuthed
<1>2. abs_diff(n, h.time) <= MaxTimeDiff
  BY <1>0, <1>1, Accepted
<1>3. next \in {"relay", "steal"} /\ (next = "steal" => ~Replayed(replay_key(h), n))
  BY DEF AuthedElse
<1> HIDE DEF next, late, taken
<1>4. /\ DOMAIN R = {"st", "now", "hello", "sh", "taken", "late"} /\ R.now = n /\ R.hello = h
      /\ R.st = next /\ R.taken = taken /\ R.late = late
  BY <1>0 DEF Connection
<1>5. (R.taken => ~Replayed(replay_key(h), n)) /\ (clock > n => R.late)
  BY <1>3, <1>4 DEF taken, late
<1> HIDE DEF R
<1>6. Connection(R)
  BY <1>0, <1>4 DEF Connection
<1> QED BY <1>1, <1>2, <1>3, <1>4, <1>5, <1>6, Deciding

\* The server answers a hello it took over.
LEMMA StealHelloInv == ASSUME FrontInv, NEW c \in Conns, StealHello(c) PROVE FrontInv'
<1>0. Connection(conn[c]) /\ UNCHANGED <<now, replay, evicted, clock, sent>> /\ conn[c].st = "steal"
  BY DEF FrontInv, FrontTypes, StealHello, Untouched
<1>1. PICK sh \in DestHellos :
          IF ServerState(c, sh) = Malformed THEN Close(c)
          ELSE Set(c, [conn[c] EXCEPT !.st = "finished", !.sh = sh]) /\ UNCHANGED <<limiter, client>>
  BY DEF StealHello
<1>2. CASE ServerState(c, sh) = Malformed
  BY <1>0, <1>1, <1>2, Closing
<1>3. CASE ServerState(c, sh) # Malformed
  <2> DEFINE R == [conn[c] EXCEPT !.st = "finished", !.sh = sh]
  <2>1. Set(c, R) /\ UNCHANGED client /\ Fates /\ \A g \in sent' : Hello(g)
    BY <1>0, <1>1, <1>3 DEF FrontInv, FrontTypes, Fates
  <2>2. /\ DOMAIN R = {"st", "now", "hello", "sh", "taken", "late"} /\ R.now = conn[c].now
        /\ R.hello = conn[c].hello /\ R.st = "finished" /\ R.sh = sh
        /\ R.taken = conn[c].taken /\ R.late = conn[c].late
    BY <1>0 DEF Connection
  <2> HIDE DEF R
  <2>3. Connection(R)
    BY <1>0, <2>2 DEF Connection
  <2>4. conn'[c] = R
    BY <2>1 DEF Set, FrontInv, FrontTypes
  <2>5. sh # NoFlight
    <3>1. sh.group \in Groups /\ NoFlight.group = ""
      BY FrontAssumption DEF NoFlight
    <3>2. "" \notin Groups
      BY DEF Groups
    <3> QED BY <3>1, <3>2
  <2>6. ServerState(c, conn[c].sh)' # Malformed
    BY <1>3, <2>2, <2>4 DEF ServerState, Stolen, ServerAuthKey
  <2>7. ~(client[c] = "open" /\ conn[c].hello.kind = "reality")
    BY <1>0 DEF FrontInv, Honest
  <2>8. Honest(c)'
    BY <2>1, <2>2, <2>4, <2>5, <2>6, <2>7 DEF Honest
  <2> QED BY <1>0, <2>1, <2>2, <2>3, <2>8, OneConnection
<1> QED BY <1>2, <1>3

\* The client verifies what answered it.
LEMMA ClientReadsInv == ASSUME FrontInv, NEW c \in Conns, ClientReads(c) PROVE FrontInv'
<1>0. /\ UNCHANGED <<conn, now, replay, evicted, clock, sent>> /\ client = [x \in Conns |-> client[x]]
      /\ conn[c].hello.kind = "reality" /\ conn[c].st \in {"relay", "finished"}
      /\ client' = [client EXCEPT ![c] = IF ClientVerdict(c) = Malformed THEN "failed" ELSE "open"]
  BY DEF ClientReads, Untouched, FrontInv, FrontTypes
<1>1. Fates /\ \A x \in Conns \ {c} : client'[x] = client[x]
  BY <1>0 DEF Fates
<1>2. CASE ClientVerdict(c) = Malformed
  <2>1. client'[c] = "failed"
    BY <1>0, <1>2
  <2>2. Honest(c)'
    BY <1>0, <2>1 DEF Honest, FrontInv, ServerState, Stolen, ServerAuthKey
  <2> QED BY <1>0, <1>1, <2>2, OneClient
<1>3. CASE ClientVerdict(c) # Malformed
  <2>1. conn[c].st = "finished"
    <3>1. ASSUME conn[c].st = "relay" PROVE FALSE
      BY <1>3, <3>1, SiteRefused DEF ClientVerdict, Flight, AuthKey
    <3> QED BY <1>0, <3>1
  <2>2. conn[c].sh # NoFlight /\ ServerState(c, conn[c].sh) # Malformed
    BY <2>1 DEF FrontInv, Honest
  <2>3. ClientVerdict(c) = client_handshake(Message(conn[c].hello), ServerState(c, conn[c].sh),
                                            AuthKey(conn[c].hello))
    BY <2>1 DEF ClientVerdict, Flight
  <2>4. ClientVerdict(c).keys = ServerState(c, conn[c].sh).keys
    <3>1. PICK S : S = ServerState(c, conn[c].sh)
      OBVIOUS
    <3>2. S = server_handshake(Message(conn[c].hello),
                               dest_server_hello(conn[c].sh.suite, conn[c].sh.group, c), ServerAuthKey(c), c)
      BY <3>1 DEF ServerState, Stolen
    <3> QED BY <1>3, <2>2, <2>3, <3>1, <3>2, SameKeys
  <2>5. KeysAgree(c)
    BY <2>2, <2>4 DEF KeysAgree
  <2>6. KeysAgree(c)'
    BY <1>0, <2>1, <2>5 DEF KeysAgree, ClientVerdict, Flight, ServerState, Stolen, ServerAuthKey
  <2>7. ServerState(c, conn[c].sh)' # Malformed
    BY <1>0, <2>2 DEF ServerState, Stolen, ServerAuthKey
  <2>8. Honest(c)'
    BY <1>0, <2>1, <2>2, <2>6, <2>7 DEF Honest
  <2> QED BY <1>0, <1>1, <2>8, OneClient
<1> QED BY <1>2, <1>3

\* The client gives up or is gone.
LEMMA ClientLeaves ==
    ASSUME FrontInv, NEW c \in Conns, ClientTimeout(c) \/ PeerVanishes(c) \/ PathLost(c)
    PROVE  FrontInv'
<1>0. /\ UNCHANGED <<conn, now, replay, evicted, clock, sent>> /\ client = [x \in Conns |-> client[x]]
      /\ (client' = [client EXCEPT ![c] = "failed"]) \/ (client' = [client EXCEPT ![c] = "gone"])
  BY DEF ClientTimeout, PeerVanishes, PathLost, Untouched, FrontInv, FrontTypes
<1>1. Fates /\ client'[c] # "open" /\ \A x \in Conns \ {c} : client'[x] = client[x]
  BY <1>0 DEF Fates
<1>2. Honest(c)'
  BY <1>0, <1>1 DEF Honest, FrontInv, ServerState, Stolen, ServerAuthKey
<1> QED BY <1>0, <1>1, <1>2, OneClient

\* The server reads the client's Finished.
LEMMA FinishedReadInv == ASSUME FrontInv, NEW c \in Conns, FinishedRead(c) PROVE FrontInv'
<1>0. UNCHANGED <<now, replay, evicted, clock, sent>> /\ conn[c].st = "finished"
  BY DEF FinishedRead, Untouched
<1>1. (Goto(c, "session") /\ UNCHANGED client) \/ Close(c)
  BY DEF FinishedRead
<1>2. CASE Goto(c, "session") /\ UNCHANGED client
  <2>1. Fates
    BY <1>2 DEF Fates, FrontInv, FrontTypes
  <2> QED BY <1>0, <1>2, <2>1, Staging
<1> QED BY <1>0, <1>1, <1>2, Closing

\* The MTProxy header is read.
LEMMA MtHeaderInv == ASSUME FrontInv, NEW c \in Conns, MtHeader(c) PROVE FrontInv'
<1>0. /\ UNCHANGED <<now, replay, evicted, clock, sent>> /\ conn[c].st = "mt_header"
      /\ conn[c].hello.kind = "telegram"
  BY DEF MtHeader, Untouched, FrontInv, Honest
<1>1. (Goto(c, "mt_open") /\ client' = [client EXCEPT ![c] = "open"]) \/ Close(c)
  BY DEF MtHeader
<1>2. CASE Goto(c, "mt_open") /\ client' = [client EXCEPT ![c] = "open"]
  <2>1. Fates /\ \A x \in Conns \ {c} : client'[x] = client[x]
    BY <1>2 DEF Fates, FrontInv, FrontTypes
  <2> QED BY <1>0, <1>2, <2>1, Staging
<1> QED BY <1>0, <1>1, <1>2, Closing

\* The MTProxy upstream is open.
LEMMA MtOpenedInv == ASSUME FrontInv, NEW c \in Conns, MtOpened(c) PROVE FrontInv'
<1>0. UNCHANGED <<now, replay, evicted, clock, sent>> /\ conn[c].st = "mt_open"
  BY DEF MtOpened, Untouched
<1>1. (Goto(c, "mt_pump") /\ UNCHANGED client) \/ Close(c)
  BY DEF MtOpened
<1>2. CASE Goto(c, "mt_pump") /\ UNCHANGED client
  <2>1. Fates
    BY <1>2 DEF Fates, FrontInv, FrontTypes
  <2> QED BY <1>0, <1>2, <2>1, Staging
<1> QED BY <1>0, <1>1, <1>2, Closing

\* Everything else leaves the connections alone.
LEMMA OtherwhereInv ==
    ASSUME FrontInv,
           \/ AcceptFails \/ AcceptAgain \/ Tick \/ UNCHANGED serverVars \/ UNCHANGED frontvars
           \/ \E u \in Users : DisableUser(u)
           \/ \E c \in Conns : \/ SessionOpens(c) \/ Visit(c) \/ (\E udp \in BOOLEAN : ConnectRequest(c, udp))
                               \/ Answer(c) \/ register(c) \/ open_datagram(c) \/ FlowEnds(c)
                               \/ RelayEnds(c) \/ TunnelEnds(c)
    PROVE  FrontInv'
<1>1. UNCHANGED <<conn, client, replay, evicted, clock, sent>>
  BY DEF AcceptFails, AcceptAgain, Tick, serverVars, frontvars, DisableUser, SessionOpens, Visit, ConnectRequest,
         Answer, register, open_datagram, FlowEnds, RelayEnds, TunnelEnds, RequestOnly, Untouched
<1>2. now' = now \/ now' = now + 1
  BY DEF AcceptFails, AcceptAgain, Tick, serverVars, frontvars, DisableUser, SessionOpens, Visit, ConnectRequest,
         Answer, register, open_datagram, FlowEnds, RelayEnds, TunnelEnds, RequestOnly, Untouched
<1>3. now' \in Int
  BY <1>2 DEF FrontInv, FrontTypes
<1> QED BY <1>1, <1>3, NoConnection

\* Every step of the server keeps the front's invariant.
LEMMA FrontStep == FrontInv /\ [ServerNext]_serverVars => FrontInv'
<1> SUFFICES ASSUME FrontInv, [ServerNext]_serverVars PROVE FrontInv'
  OBVIOUS
<1>1. ASSUME NEW c \in Conns, Timer(c) PROVE FrontInv'
  BY <1>1, ClosingInv, StagingInv, MtOpenedInv
     DEF Timer, FirstTimeout, StallEnds, StealTimeout, FinishedTimeout, MtFlightFails, MtHeaderFails
<1>2. ASSUME NEW c \in Conns, Serve(c) PROVE FrontInv'
  BY <1>1, <1>2, ClosingInv, StagingInv, DecideTelegramInv, DecideAuthedInv, StealHelloInv,
     FinishedReadInv, MtHeaderInv DEF Serve, ForwardFails
<1>3. CASE FrontNext /\ UNCHANGED quicvars
  BY <1>2, <1>3, RejectInv, AcceptInv, ClientReadsInv, ClientLeaves, ClosingInv, OtherwhereInv
     DEF FrontNext, OrphanEnds
<1>4. CASE QuicNext
  BY <1>4, QuicAcceptInv, StagingInv, ClientLeaves, ClosingInv, OtherwhereInv DEF QuicNext, QuicServe
<1>5. CASE UNCHANGED serverVars
  BY <1>5, OtherwhereInv
<1> QED BY <1>3, <1>4, <1>5 DEF ServerNext

\* The invariant of both fronts.
LEMMA FrontHolds == ServerSpec => []FrontInv
<1>1. ServerInit => FrontInv
  BY FrontStarts DEF ServerInit
<1> QED BY <1>1, FrontStep, PTL DEF ServerSpec, ServerNext

\* serve_connection takes a hello over twice only when the replay guard had to
\* drop it for want of room, or was meanwhile asked by a connection with a
\* later reading of the clock: for any clock, window and capacity, and
\* however the connections interleave between their reading and the guard.
THEOREM TakenOverOnce == ServerSpec => []NoSecondTakeover
<1>1. FrontInv => NoSecondTakeover
  <2> SUFFICES ASSUME FrontInv, NEW c \in Conns, NEW d \in Conns, c < d, conn[c].hello = conn[d].hello,
                      conn[c].taken, conn[d].taken
               PROVE  conn[d].late \/ conn[c].late \/ replay_key(conn[c].hello) \in evicted
    BY DEF NoSecondTakeover
  <2>1. c # d
    BY FrontAssumption
  <2> QED BY <2>1 DEF FrontInv, Memory
<1> QED BY <1>1, FrontHolds, PTL

\* establish_client succeeds only against establish_server with the server's
\* static key, and then both ends have the same keys; the site's own flight,
\* seen through the relay, is always refused.
THEOREM ClientsNotFooled == ServerSpec => []ClientNotFooled
<1>1. FrontInv => ClientNotFooled
  BY DEF FrontInv, Honest, KeysAgree, ClientNotFooled
<1> QED BY <1>1, FrontHolds, PTL

-----------------------------------------------------------------------------
(* The slots of the limiter.                                               *)

\* The bucket a connection counts against, and the connections being served.
Key(c) == bucket(canonical_ip(Source[c]))
Holders == {c \in Conns : Live(c)}
Of(S, key) == {c \in S : Key(c) = key}
HoldersOf(key) == Of(Holders, key)

(* Every connection being served holds one slot and one of its bucket, and *)
(* nothing else does: no slot leaks, none is given back twice, no bucket   *)
(* is kept at zero, and neither cap is exceeded.                           *)
SlotsExact ==
    /\ limiter.total = Cardinality(Holders) /\ limiter.total <= MaxTotal
    /\ DOMAIN limiter.per_ip = {Key(c) : c \in Holders}
    /\ \A key \in DOMAIN limiter.per_ip : /\ limiter.per_ip[key] = Cardinality(HoldersOf(key))
                                          /\ limiter.per_ip[key] <= MaxPerIp

SlotInv == IsFiniteSet(Holders) /\ SlotsExact

\* One connection more: the count of its bucket grows, no other does.
LEMMA OneMore ==
    ASSUME NEW H, IsFiniteSet(H), NEW c, c \notin H, NEW key
    PROVE  /\ IsFiniteSet(H \cup {c}) /\ Cardinality(H) \in Nat
           /\ Cardinality(H \cup {c}) = Cardinality(H) + 1
           /\ IsFiniteSet(Of(H, key)) /\ Cardinality(Of(H, key)) \in Nat
           /\ Key(c) = key => Cardinality(Of(H \cup {c}, key)) = Cardinality(Of(H, key)) + 1
           /\ Key(c) # key => Of(H \cup {c}, key) = Of(H, key)
<1>1. IsFiniteSet(H \cup {c}) /\ Cardinality(H \cup {c}) = Cardinality(H) + 1 /\ Cardinality(H) \in Nat
  BY FS_AddElement, FS_CardinalityType
<1>2. Of(H, key) \in SUBSET H /\ c \notin Of(H, key)
  BY DEF Of
<1>3. IsFiniteSet(Of(H, key)) /\ Cardinality(Of(H, key)) \in Nat
  BY <1>2, FS_Subset, FS_CardinalityType
<1>4. ASSUME Key(c) = key PROVE Cardinality(Of(H \cup {c}, key)) = Cardinality(Of(H, key)) + 1
  <2>1. Of(H \cup {c}, key) = Of(H, key) \cup {c}
    BY <1>4 DEF Of
  <2> QED BY <1>2, <1>3, <2>1, FS_AddElement
<1>5. Key(c) # key => Of(H \cup {c}, key) = Of(H, key)
  BY DEF Of
<1> QED BY <1>1, <1>3, <1>4, <1>5

\* What the limiter answers for a bucket is how many connections hold of it.
LEMMA HeldCounts ==
    ASSUME SlotInv, NEW key
    PROVE  /\ IsFiniteSet(HoldersOf(key)) /\ Held(key) = Cardinality(HoldersOf(key)) /\ Held(key) \in Nat
           /\ key \in DOMAIN limiter.per_ip <=> Held(key) > 0
<1>1. HoldersOf(key) \in SUBSET Holders
  BY DEF HoldersOf, Of
<1>2. IsFiniteSet(HoldersOf(key)) /\ Cardinality(HoldersOf(key)) \in Nat
  BY <1>1, FS_Subset, FS_CardinalityType DEF SlotInv
<1>3. key \in DOMAIN limiter.per_ip <=> HoldersOf(key) # {}
  BY DEF SlotInv, SlotsExact, HoldersOf, Of
<1>4. Cardinality(HoldersOf(key)) = 0 <=> HoldersOf(key) = {}
  BY <1>2, FS_EmptySet
<1>5. Held(key) = Cardinality(HoldersOf(key))
  BY <1>3, <1>4 DEF Held, SlotInv, SlotsExact
<1> QED BY <1>2, <1>3, <1>4, <1>5

\* A connection is admitted: try_acquire found room under both caps.
LEMMA SlotTaken ==
    ASSUME SlotInv, NEW c \in Conns, c \notin Holders, try_acquire(Source[c]), Holders' = Holders \cup {c}
    PROVE  SlotInv'
<1> DEFINE own == Key(c)
           per == limiter.per_ip
           all == {Key(x) : x \in Holders}
<1>1. /\ limiter.total < MaxTotal /\ Held(own) < MaxPerIp
      /\ limiter'.total = limiter.total + 1
      /\ limiter'.per_ip = [k \in DOMAIN per \cup {own} |-> IF k = own THEN Held(own) + 1 ELSE per[k]]
  BY DEF try_acquire, Key
<1>2. IsFiniteSet(Holders) /\ limiter.total = Cardinality(Holders) /\ DOMAIN per = all
  BY DEF SlotInv, SlotsExact
<1>3. IsFiniteSet(Holders') /\ Cardinality(Holders') = Cardinality(Holders) + 1 /\ Cardinality(Holders) \in Nat
  BY <1>2, OneMore
<1>4. limiter'.total = Cardinality(Holders') /\ limiter'.total <= MaxTotal
  BY <1>1, <1>2, <1>3, FrontAssumption
<1>5. DOMAIN limiter'.per_ip = {Key(x) : x \in Holders'}
  BY <1>1, <1>2
<1>6. ASSUME NEW k \in DOMAIN limiter'.per_ip
      PROVE  limiter'.per_ip[k] = Cardinality(HoldersOf(k)') /\ limiter'.per_ip[k] <= MaxPerIp
  <2>0. HoldersOf(k) = Of(Holders, k) /\ HoldersOf(k)' = Of(Holders \cup {c}, k)
    BY DEF HoldersOf, Of, Key
  <2>1. CASE k = own
    <3>1. limiter'.per_ip[k] = Held(own) + 1
      BY <1>1, <2>1
    <3>2. Cardinality(HoldersOf(k)') = Cardinality(HoldersOf(k)) + 1
      BY <1>2, <2>0, <2>1, OneMore
    <3>3. Held(own) = Cardinality(HoldersOf(k)) /\ Held(own) \in Nat
      BY <2>1, HeldCounts
    <3> HIDE DEF own
    <3> QED BY <1>1, <3>1, <3>2, <3>3, FrontAssumption
  <2>2. CASE k # own
    <3>1. k \in DOMAIN per /\ limiter'.per_ip[k] = per[k]
      BY <1>1, <2>2
    <3>2. HoldersOf(k)' = HoldersOf(k)
      BY <1>2, <2>0, <2>2, OneMore
    <3> QED BY <3>1, <3>2 DEF SlotInv, SlotsExact
  <2> QED BY <2>1, <2>2
<1> QED BY <1>3, <1>4, <1>5, <1>6 DEF SlotInv, SlotsExact

\* A connection's guard is dropped.
LEMMA SlotReturned ==
    ASSUME SlotInv, NEW c \in Holders, release(Source[c]), Holders' = Holders \ {c}
    PROVE  SlotInv'
<1> DEFINE own == Key(c)
           per == limiter.per_ip
           left == {k \in DOMAIN per : k # own \/ Held(k) > 1}
<1>1. /\ limiter'.total = limiter.total - 1
      /\ limiter'.per_ip = [k \in left |-> IF k = own THEN Held(k) - 1 ELSE per[k]]
  BY DEF release, Key
<1>2. IsFiniteSet(Holders) /\ limiter.total = Cardinality(Holders) /\ limiter.total <= MaxTotal
  BY DEF SlotInv, SlotsExact
<1>3. Holders = Holders' \cup {c} /\ c \notin Holders' /\ IsFiniteSet(Holders')
  BY <1>2, FS_RemoveElement
<1>4. Cardinality(Holders) = Cardinality(Holders') + 1 /\ Cardinality(Holders') \in Nat
  BY <1>3, OneMore
<1>5. limiter'.total = Cardinality(Holders') /\ limiter'.total <= MaxTotal
  BY <1>1, <1>2, <1>4, FrontAssumption
<1>6. \A k : HoldersOf(k)' = Of(Holders', k) /\ HoldersOf(k) = Of(Holders' \cup {c}, k)
  BY <1>3 DEF HoldersOf, Of, Key
<1>7. \A k : /\ IsFiniteSet(HoldersOf(k)') /\ Cardinality(HoldersOf(k)') \in Nat
             /\ k = own => Held(k) = Cardinality(HoldersOf(k)') + 1
             /\ k # own => HoldersOf(k)' = HoldersOf(k)
  <2> SUFFICES ASSUME NEW k
               PROVE  /\ IsFiniteSet(HoldersOf(k)') /\ Cardinality(HoldersOf(k)') \in Nat
                      /\ k = own => Held(k) = Cardinality(HoldersOf(k)') + 1
                      /\ k # own => HoldersOf(k)' = HoldersOf(k)
    OBVIOUS
  <2>1. Held(k) = Cardinality(HoldersOf(k))
    BY HeldCounts
  <2>2. PICK H : H = Holders'
    OBVIOUS
  <2>3. HoldersOf(k)' = Of(H, k) /\ HoldersOf(k) = Of(H \cup {c}, k)
    BY <1>6, <2>2
  <2>4. IsFiniteSet(H) /\ c \notin H
    BY <1>3, <2>2
  <2>5. IsFiniteSet(Of(H, k))
    BY <2>4, OneMore
  <2>6. Cardinality(Of(H, k)) \in Nat
    BY <2>4, OneMore
  <2>7. Key(c) = k => Cardinality(Of(H \cup {c}, k)) = Cardinality(Of(H, k)) + 1
    BY <2>4, OneMore
  <2>8. Key(c) # k => Of(H \cup {c}, k) = Of(H, k)
    BY <2>4, OneMore
  <2> QED BY <2>1, <2>3, <2>5, <2>6, <2>7, <2>8
<1> HIDE DEF own
<1>8. \A k : k \in left <=> HoldersOf(k)' # {}
  <2> SUFFICES ASSUME NEW k PROVE k \in left <=> HoldersOf(k)' # {}
    OBVIOUS
  <2>1. (Cardinality(HoldersOf(k)') = 0 <=> HoldersOf(k)' = {}) /\ Cardinality(HoldersOf(k)') \in Nat
    BY <1>7, FS_EmptySet
  <2>2. /\ Held(k) \in Nat /\ Held(k) = Cardinality(HoldersOf(k))
        /\ k \in DOMAIN per <=> Held(k) > 0
    BY HeldCounts
  <2>3. CASE k = own
    BY <1>7, <2>1, <2>2, <2>3
  <2>4. CASE k # own
    BY <1>7, <2>1, <2>2, <2>4
  <2> QED BY <2>3, <2>4
<1>9. DOMAIN limiter'.per_ip = left
  BY <1>1
<1>10. \A k : HoldersOf(k)' # {} <=> k \in {Key(x) : x \in Holders'}
  BY <1>6 DEF Of
<1>11. DOMAIN limiter'.per_ip = {Key(x) : x \in Holders'}
  BY <1>8, <1>9, <1>10
<1>12. ASSUME NEW k \in DOMAIN limiter'.per_ip
       PROVE  limiter'.per_ip[k] = Cardinality(HoldersOf(k)') /\ limiter'.per_ip[k] <= MaxPerIp
  <2>1. k \in left /\ k \in DOMAIN per /\ per[k] = Cardinality(HoldersOf(k)) /\ per[k] <= MaxPerIp
    BY <1>9, <1>12 DEF SlotInv, SlotsExact
  <2>2. Held(k) = per[k]
    BY <2>1 DEF Held
  <2>3. CASE k = own
    BY <1>1, <1>7, <2>1, <2>2, <2>3, FrontAssumption
  <2>4. CASE k # own
    BY <1>1, <1>7, <2>1, <2>4
  <2> QED BY <2>3, <2>4
<1> QED BY <1>3, <1>5, <1>11, <1>12 DEF SlotInv, SlotsExact

\* No connection is admitted or ends.
LEMMA SlotsKept == ASSUME SlotInv, UNCHANGED limiter, Holders' = Holders PROVE SlotInv'
<1>1. \A k : HoldersOf(k)' = HoldersOf(k)
  BY DEF HoldersOf, Of, Key
<1> QED BY <1>1 DEF SlotInv, SlotsExact, Key

\* A step of connection c that neither admits nor ends it.
LEMMA Stays ==
    ASSUME FrontTypes, NEW c \in Conns, NEW R, Set(c, R),
           conn[c].st \in {"unused", "closed"} <=> R.st \in {"unused", "closed"}
    PROVE  Holders' = Holders
<1>1. conn'[c] = R /\ \A x \in Conns \ {c} : conn'[x] = conn[x]
  BY DEF Set, FrontTypes
<1>2. \A x \in Conns : Live(x)' <=> Live(x)
  BY <1>1 DEF Live
<1> QED BY <1>2 DEF Holders

\* The next stage of a connection being served.
LEMMA StaysAt ==
    ASSUME FrontTypes, NEW c \in Conns, Live(c), NEW stage, Goto(c, stage), stage \notin {"unused", "closed"}
    PROVE  Holders' = Holders
<1> DEFINE R == [conn[c] EXCEPT !.st = stage]
<1>1. R.st = stage
  BY DEF FrontTypes, Connection
<1>2. Set(c, R)
  BY DEF Goto
<1> HIDE DEF R
<1> QED BY <1>1, <1>2, Stays DEF Live

\* A connection that ends gives its slot back.
LEMMA Gone == ASSUME FrontTypes, SlotInv, NEW c \in Conns, Live(c), Close(c) PROVE SlotInv'
<1> DEFINE R == [Blank EXCEPT !.st = "closed", !.taken = conn[c].taken, !.late = conn[c].late,
                              !.hello = IF conn[c].taken THEN conn[c].hello ELSE NoHello]
<1>1. R.st = "closed" /\ Set(c, R) /\ release(Source[c])
  BY DEF Blank, Close
<1> HIDE DEF R
<1>2. conn'[c] = R /\ \A x \in Conns \ {c} : conn'[x] = conn[x]
  BY <1>1 DEF Set, FrontTypes
<1>3. ~Live(c)' /\ \A x \in Conns \ {c} : Live(x)' <=> Live(x)
  BY <1>1, <1>2 DEF Live
<1>4. c \in Holders /\ Holders' = Holders \ {c}
  BY <1>3 DEF Holders
<1> QED BY <1>1, <1>4, SlotReturned

\* A connection that is admitted takes one.
LEMMA Admitted ==
    ASSUME FrontTypes, SlotInv, NEW c \in Conns, Arrives(c), try_acquire(Source[c]), NEW R, Set(c, R),
           R.st \notin {"unused", "closed"}
    PROVE  SlotInv'
<1>1. conn'[c] = R /\ \A x \in Conns \ {c} : conn'[x] = conn[x]
  BY DEF Set, FrontTypes
<1>2. ~Live(c) /\ Live(c)' /\ \A x \in Conns \ {c} : Live(x)' <=> Live(x)
  BY <1>1 DEF Live, Arrives
<1>3. c \notin Holders /\ Holders' = Holders \cup {c}
  BY <1>2 DEF Holders
<1> QED BY <1>3, SlotTaken

\* The two accept loops.
LEMMA SlotsAtAccept ==
    ASSUME FrontTypes, SlotInv, NEW c \in Conns,
           Reject(c) \/ QuicAccept(c) \/ \E peer \in plan.peers[c] : Accept(c, peer)
    PROVE  SlotInv'
<1>1. \A stage : [Blank EXCEPT !.st = stage].st = stage
  BY DEF Blank
<1>2. ASSUME Arrives(c), Set(c, [Blank EXCEPT !.st = "closed"]), UNCHANGED limiter PROVE SlotInv'
  <2>1. PICK R : R = [Blank EXCEPT !.st = "closed"]
    OBVIOUS
  <2>2. Set(c, R) /\ R.st = "closed" /\ conn[c].st = "unused"
    BY <1>1, <1>2, <2>1 DEF Arrives
  <2>3. Holders' = Holders
    BY <2>2, Stays
  <2> QED BY <1>2, <2>3, SlotsKept
<1>3. CASE Reject(c)
  BY <1>2, <1>3 DEF Reject
<1>4. CASE QuicAccept(c)
  <2>1. PICK R : R = [Blank EXCEPT !.st = "handshake"]
    OBVIOUS
  <2>2. R.st = "handshake"
    BY <1>1, <2>1
  <2>3. CASE try_acquire(Source[c]) /\ Set(c, R)
    BY <1>4, <2>2, <2>3, Admitted DEF QuicAccept
  <2> QED BY <1>2, <1>4, <2>1, <2>3 DEF QuicAccept
<1>5. ASSUME NEW peer, Accept(c, peer) PROVE SlotInv'
  <2>1. PICK h : Set(c, [Blank EXCEPT !.st = "first", !.now = now, !.hello = h])
    BY <1>5 DEF Accept
  <2>2. PICK R : R = [Blank EXCEPT !.st = "first", !.now = now, !.hello = h]
    OBVIOUS
  <2>3. R.st = "first"
    BY <2>2 DEF Blank
  <2> QED BY <1>5, <2>1, <2>2, <2>3, Admitted DEF Accept
<1> QED BY <1>3, <1>4, <1>5

\* The stages of a connection.
LEMMA SlotsWhileServed ==
    ASSUME FrontTypes, SlotInv, NEW c \in Conns,
           Serve(c) \/ StageEnds(c) \/ Handshaken(c) \/ SetUp(c) \/ ConnectionEnds(c)
    PROVE  SlotInv'
<1>0. Connection(conn[c])
  BY DEF FrontTypes
<1>1. CASE StageEnds(c) \/ ConnectionEnds(c)
  BY <1>1, Gone DEF StageEnds, ConnectionEnds, OpenEnded, Ends, Live
<1>2. CASE \/ FirstTimeout(c) \/ StallEnds(c) \/ StealTimeout(c) \/ FinishedTimeout(c)
           \/ MtFlightFails(c) \/ MtHeaderFails(c) \/ ForwardFails(c)
  BY <1>2, Gone DEF FirstTimeout, StallEnds, StealTimeout, FinishedTimeout, MtFlightFails,
                    MtHeaderFails, ForwardFails, Ends, Live
<1>3. CASE DestFails(c) \/ FirstRecord(c) \/ DecideStranger(c) \/ MtFlight(c) \/ Handshaken(c) \/ SetUp(c)
  BY <1>3, StaysAt, SlotsKept DEF DestFails, FirstRecord, DecideStranger, MtFlight, Handshaken, SetUp, Quiet, Live
<1>4. CASE MtOpened(c)
  BY <1>4, Gone, StaysAt, SlotsKept DEF MtOpened, Live
<1>5. CASE FinishedRead(c)
  BY <1>5, Gone, StaysAt, SlotsKept DEF FinishedRead, Live
<1>6. CASE MtHeader(c)
  BY <1>6, Gone, StaysAt, SlotsKept DEF MtHeader, Live
<1>7. CASE StealHello(c)
  <2>1. PICK sh \in DestHellos :
            \/ Close(c)
            \/ Set(c, [conn[c] EXCEPT !.st = "finished", !.sh = sh]) /\ UNCHANGED limiter
    BY <1>7 DEF StealHello
  <2>2. PICK R : R = [conn[c] EXCEPT !.st = "finished", !.sh = sh]
    OBVIOUS
  <2>3. R.st = "finished" /\ conn[c].st = "steal"
    BY <1>0, <1>7, <2>2 DEF Connection, StealHello
  <2>4. CASE Close(c)
    BY <2>3, <2>4, Gone DEF Live
  <2>5. CASE Set(c, R) /\ UNCHANGED limiter
    BY <2>3, <2>5, Stays, SlotsKept
  <2> QED BY <2>1, <2>2, <2>4, <2>5
<1>8. CASE DecideTelegram(c)
  <2> DEFINE again == Replayed(replay_key(conn[c].hello), conn[c].now)
             late == clock > conn[c].now
  <2>1. PICK R : R = [conn[c] EXCEPT !.st = IF again THEN "relay" ELSE "mt_flight",
                                     !.taken = ~again, !.late = late]
    OBVIOUS
  <2>2. Set(c, R) /\ conn[c].st = "dial" /\ UNCHANGED limiter
    BY <1>8, <2>1 DEF DecideTelegram
  <2> HIDE DEF again, late
  <2>3. R.st \in {"relay", "mt_flight"}
    BY <1>0, <2>1 DEF Connection
  <2> QED BY <2>2, <2>3, Stays, SlotsKept
<1>9. CASE DecideAuthed(c)
  <2> DEFINE next == AuthedElse(c, classify_full(Message(conn[c].hello), conn[c].now), conn[c].now)
             late == clock > conn[c].now
             taken == next = "steal"
  <2>1. PICK R : R = [conn[c] EXCEPT !.st = next, !.late = late, !.taken = taken]
    OBVIOUS
  <2>2. Set(c, R) /\ conn[c].st = "dial" /\ UNCHANGED limiter
    BY <1>9, <2>1 DEF DecideAuthed
  <2>3. next \in {"relay", "steal"}
    BY DEF AuthedElse
  <2> HIDE DEF next, late, taken
  <2>4. R.st = next
    BY <1>0, <2>1 DEF Connection
  <2> QED BY <2>2, <2>3, <2>4, Stays, SlotsKept
<1> QED BY <1>1, <1>2, <1>3, <1>4, <1>5, <1>6, <1>7, <1>8, <1>9 DEF Serve, Timer

\* Every step of the server keeps the limiter's count.
LEMMA SlotStep == FrontTypes /\ SlotInv /\ [ServerNext]_serverVars => SlotInv'
<1> SUFFICES ASSUME FrontTypes, SlotInv, [ServerNext]_serverVars PROVE SlotInv'
  OBVIOUS
<1>1. ASSUME UNCHANGED <<conn, limiter>> PROVE SlotInv'
  BY <1>1, SlotsKept DEF Holders, Live
<1>2. ASSUME \/ AcceptFails \/ AcceptAgain \/ Tick \/ UNCHANGED serverVars \/ UNCHANGED frontvars
             \/ \E u \in Users : DisableUser(u)
      PROVE  SlotInv'
  BY <1>1, <1>2 DEF AcceptFails, AcceptAgain, Tick, DisableUser, serverVars, frontvars
<1>3. ASSUME NEW c \in Conns,
             ClientReads(c) \/ ClientTimeout(c) \/ SessionOpens(c) \/ PeerVanishes(c) \/ PathLost(c)
      PROVE  SlotInv'
  BY <1>1, <1>3 DEF ClientReads, ClientTimeout, SessionOpens, PeerVanishes, PathLost
<1>4. ASSUME NEW c \in Conns,
             \/ Visit(c) \/ (\E udp \in BOOLEAN : ConnectRequest(c, udp)) \/ open_datagram(c)
             \/ FlowEnds(c) \/ Answer(c) \/ register(c) \/ RelayEnds(c) \/ TunnelEnds(c)
      PROVE  SlotInv'
  BY <1>1, <1>4 DEF Visit, ConnectRequest, open_datagram, FlowEnds, Answer, register, RelayEnds,
                    TunnelEnds, RequestOnly
<1>5. CASE FrontNext
  BY <1>2, <1>3, <1>5, SlotsAtAccept, SlotsWhileServed DEF FrontNext, OrphanEnds
<1>6. CASE QuicNext
  BY <1>3, <1>4, <1>6, SlotsAtAccept, SlotsWhileServed DEF QuicNext, QuicServe
<1> QED BY <1>2, <1>5, <1>6 DEF ServerNext

\* No connection, no slot.
LEMMA SlotStarts == ServerInit => SlotInv
<1> SUFFICES ASSUME ServerInit PROVE SlotInv
  OBVIOUS
<1>1. Holders = {}
  BY DEF ServerInit, FrontInit, Holders, Live, Blank
<1>2. limiter = [total |-> 0, per_ip |-> <<>>]
  BY DEF ServerInit, FrontInit
<1>3. IsFiniteSet({}) /\ Cardinality({}) = 0
  BY FS_EmptySet
<1> QED BY <1>1, <1>2, <1>3, FrontAssumption DEF SlotInv, SlotsExact

\* The limiter's count in every reachable state.
LEMMA SlotHolds == ServerSpec => []SlotInv
<1>1. FrontInv => FrontTypes
  BY DEF FrontInv
<1> QED BY <1>1, SlotStarts, SlotStep, FrontHolds, PTL DEF ServerSpec, ServerNext

\* ConnLimiter, for any caps and any number of connections over either front:
\* however connections interleave and wherever in the handshake, the relay or
\* the session they end, each one being served holds exactly one slot and one
\* of its /32 or /64, and the caps are never exceeded.
THEOREM SlotsAreExact == ServerSpec => []SlotsExact
<1>1. SlotInv => SlotsExact
  BY DEF SlotInv
<1> QED BY <1>1, SlotHolds, PTL

-----------------------------------------------------------------------------
(* Who holds the connector's mutex, and whom a registration belongs to.    *)

\* Some task waits for the open of c: the mux session or the MTProxy relay
\* over TCP, the request over QUIC, which outlives its connection.
Awaited(c) ==
    \/ conn[c].st \in {"session", "mt_open"} \/ req[c] \in {"open", "open_udp"}
    \/ conn[c].st = "closed" /\ req[c] = "none"

(* The mutex of the connector is held exactly by the one open that dials,  *)
(* with nothing in the cache; every open under way is awaited by a task:   *)
(* of a session, of a Telegram relay, of a request, or by the relay that   *)
(* outlives its TCP session and keeps the others waiting until it has its  *)
(* answer.                                                                 *)
MutexHeld ==
    /\ lock = {o \in Openers : eg[o].st \in {"dial1", "dial2"}}
    /\ \A o, p \in lock : o = p
    /\ lock # {} => link = NoLink
OpensAwaited == \A o \in Openers : eg[o].st # "idle" => o \in Conns /\ Awaited(o)
MutexOwned == MutexHeld /\ OpensAwaited

(* A registration in a datagram registry always has the task that will     *)
(* remove it: the server's relay, the client's flow.  None is left behind  *)
(* by a request that ended, also when it registered after its connection   *)
(* had closed and the registry had been cleared.                           *)
Registered ==
    /\ srv_reg \subseteq Conns /\ cli_reg \subseteq Conns
    /\ \A c \in srv_reg : req[c] = "relay"
    /\ \A c \in cli_reg : flow[c] = "up"

\* A request belongs to an HTTP/3 connection, open or closed since.
RequestsOrdered ==
    /\ req = [c \in Conns |-> req[c]] /\ flow = [c \in Conns |-> flow[c]]
    /\ \A c \in Conns : /\ req[c] = "none" => flow[c] = "none"
                        /\ req[c] # "none" => conn[c].st \in {"h3", "closed"}

OwnInv == Registered /\ RequestsOrdered /\ MutexOwned

\* Each step of an open: the mutex goes to the open that dials and back.
LEMMA MutexSteps ==
    ASSUME EgressInv, MutexHeld, NEW o \in Openers, EgressStep(o)
    PROVE  MutexHeld' /\ eg[o].st # "idle" /\ \A p \in Openers \ {o} : eg'[p] = eg[p]
<1>0. /\ eg = [p \in Openers |-> eg[p]] /\ DOMAIN eg[o] = {"st", "addrs", "on", "was"}
      /\ lock = {p \in Openers : eg[p].st \in {"dial1", "dial2"}}
      /\ \A p, q \in lock : p = q
      /\ lock # {} => link = NoLink
  BY DEF EgressInv, Open, MutexHeld
<1>1. \A R : Eg(o, R) => eg'[o] = R /\ \A p \in Openers \ {o} : eg'[p] = eg[p]
  BY <1>0 DEF Eg
<1>2. \A stage : [Idle EXCEPT !.st = stage].st = stage
  BY DEF Idle
<1>3. ASSUME NEW R, Eg(o, R), R.st \notin {"dial1", "dial2"}, eg[o].st \notin {"dial1", "dial2"}, eg[o].st # "idle",
             UNCHANGED lock, lock # {} => UNCHANGED link
      PROVE  MutexHeld' /\ eg[o].st # "idle" /\ \A p \in Openers \ {o} : eg'[p] = eg[p]
  <2>1. eg'[o] = R /\ \A p \in Openers \ {o} : eg'[p] = eg[p]
    BY <1>1, <1>3
  <2>2. \A p \in Openers : eg'[p].st \in {"dial1", "dial2"} <=> eg[p].st \in {"dial1", "dial2"}
    BY <1>3, <2>1
  <2> QED BY <1>0, <1>3, <2>1, <2>2 DEF MutexHeld
<1>4. CASE Resolve(o)
  <2>1. PICK addrs : Eg(o, [eg[o] EXCEPT !.addrs = addrs, !.st = IF addrs = <<>> THEN "failed" ELSE "try"])
    BY <1>4 DEF Resolve
  <2>2. PICK R : R = [eg[o] EXCEPT !.addrs = addrs, !.st = IF addrs = <<>> THEN "failed" ELSE "try"]
    OBVIOUS
  <2>3. R.st \in {"failed", "try"}
    BY <1>0, <2>2
  <2> QED BY <1>3, <1>4, <2>1, <2>2, <2>3 DEF Resolve
<1>5. CASE TryFails(o)
  <2>1. PICK rest : rest = Tail(eg[o].addrs)
    OBVIOUS
  <2>2. PICK R : R = [eg[o] EXCEPT !.addrs = rest, !.st = IF rest = <<>> THEN "failed" ELSE "try"]
    OBVIOUS
  <2>3. R.st \in {"failed", "try"} /\ Eg(o, R)
    BY <1>0, <1>5, <2>1, <2>2 DEF TryFails
  <2> QED BY <1>3, <1>5, <2>3 DEF TryFails
<1>6. CASE TryConnects(o) \/ RequestOk(o) \/ RequestRefused(o)
  <2>1. PICK stage \in {"ok", "failed"} : Eg(o, [Idle EXCEPT !.st = stage])
    BY <1>6 DEF TryConnects, RequestOk, RequestRefused
  <2>2. PICK R : R = [Idle EXCEPT !.st = stage]
    OBVIOUS
  <2>3. R.st = stage
    BY <1>2, <2>2
  <2> QED BY <1>3, <1>6, <2>1, <2>2, <2>3 DEF TryConnects, RequestOk, RequestRefused
<1>7. CASE GetCached(o)
  <2>1. PICK R : R = Request(o, link)
    OBVIOUS
  <2>2. R.st \in {"req1", "req2"}
    BY <1>0, <2>1 DEF Request
  <2> QED BY <1>3, <1>7, <2>1, <2>2 DEF GetCached, Getting
<1>8. CASE GetDial(o)
  <2>1. PICK R : R = [eg[o] EXCEPT !.st = IF @ = "get1" THEN "dial1" ELSE "dial2"]
    OBVIOUS
  <2>2. R.st \in {"dial1", "dial2"}
    BY <1>0, <2>1
  <2>3. eg'[o] = R /\ \A p \in Openers \ {o} : eg'[p] = eg[p]
    BY <1>1, <1>8, <2>1 DEF GetDial
  <2>4. lock = {} /\ lock' = {o} /\ link' = NoLink /\ eg[o].st # "idle"
    BY <1>8 DEF GetDial, Getting
  <2>5. \A p \in Openers : eg'[p].st \in {"dial1", "dial2"} <=> p = o
    BY <1>0, <2>2, <2>3, <2>4
  <2> QED BY <2>3, <2>4, <2>5 DEF MutexHeld
<1>9. CASE LinkConnected(o) \/ LinkFails(o)
  <2>1. o \in lock /\ lock' = {}
    BY <1>9 DEF LinkConnected, LinkFails
  <2>2. PICK R : Eg(o, R) /\ R.st \notin {"dial1", "dial2"}
    <3>1. CASE LinkFails(o)
      <4>1. PICK R : R = [Idle EXCEPT !.st = "failed"]
        OBVIOUS
      <4>2. R.st = "failed" /\ Eg(o, R)
        BY <1>2, <3>1, <4>1 DEF LinkFails
      <4> QED BY <4>2
    <3>2. CASE LinkConnected(o)
      <4>1. PICK l : Eg(o, Request(o, l))
        BY <3>2 DEF LinkConnected
      <4>2. PICK R : R = Request(o, l)
        OBVIOUS
      <4>3. R.st \in {"req1", "req2"}
        BY <1>0, <4>2 DEF Request
      <4> QED BY <4>1, <4>2, <4>3
    <3> QED BY <1>9, <3>1, <3>2
  <2>3. eg'[o] = R /\ \A p \in Openers \ {o} : eg'[p] = eg[p]
    BY <1>1, <2>2
  <2>4. \A p \in Openers : eg'[p].st \notin {"dial1", "dial2"}
    BY <1>0, <2>1, <2>2, <2>3
  <2> QED BY <1>0, <2>1, <2>3, <2>4 DEF MutexHeld
<1>10. CASE RequestBroken(o)
  <2>1. PICK R : /\ Eg(o, R) /\ \/ R = [Idle EXCEPT !.st = "failed"]
                                \/ R = [eg[o] EXCEPT !.st = "invalidate", !.was = eg[o].on, !.on = NoLink]
    BY <1>10 DEF RequestBroken
  <2>2. R.st \in {"failed", "invalidate"}
    BY <1>0, <1>2, <2>1
  <2> QED BY <1>3, <1>10, <2>1, <2>2 DEF RequestBroken
<1>11. CASE Invalidate(o)
  <2>1. PICK R : R = [eg[o] EXCEPT !.st = "get2"]
    OBVIOUS
  <2>2. R.st = "get2"
    BY <1>0, <2>1
  <2> QED BY <1>3, <1>11, <2>1, <2>2 DEF Invalidate
<1> QED BY <1>4, <1>5, <1>6, <1>7, <1>8, <1>9, <1>10, <1>11 DEF EgressStep

\* An open that has its answer does not hold the mutex.
LEMMA MutexAnswered ==
    ASSUME EgressInv, MutexHeld, NEW o \in Openers, EgressTaken(o)
    PROVE  MutexHeld' /\ eg'[o].st = "idle" /\ \A p \in Openers \ {o} : eg'[p] = eg[p]
<1>1. eg'[o].st = "idle" /\ \A p \in Openers \ {o} : eg'[p] = eg[p]
  BY DEF EgressTaken, Eg, Idle, EgressInv
<1>2. \A p \in Openers : eg'[p].st \in {"dial1", "dial2"} <=> p # o /\ eg[p].st \in {"dial1", "dial2"}
  BY <1>1
<1> QED BY <1>1, <1>2 DEF MutexHeld, EgressTaken

\* An open that begins does not hold it.
LEMMA MutexOpens ==
    ASSUME EgressInv, MutexHeld, NEW o \in Openers, eg[o].st = "idle", EgressOpen(o), UNCHANGED <<link, lock>>
    PROVE  MutexHeld' /\ \A p \in Openers \ {o} : eg'[p] = eg[p]
<1>1. PICK R : R = [Idle EXCEPT !.st = IF hop = "direct" THEN "resolve" ELSE "get1"]
  OBVIOUS
<1>2. R.st \in {"resolve", "get1"} /\ Eg(o, R)
  BY <1>1 DEF Idle, EgressOpen
<1>3. eg'[o] = R /\ \A p \in Openers \ {o} : eg'[p] = eg[p]
  BY <1>2 DEF Eg, EgressInv
<1>4. \A p \in Openers : eg'[p].st \in {"dial1", "dial2"} <=> eg[p].st \in {"dial1", "dial2"}
  BY <1>2, <1>3
<1> QED BY <1>3, <1>4 DEF MutexHeld

\* A step of connection c leaves the other connections alone.
Only(c) == \A x \in Conns \ {c} : conn'[x] = conn[x]

\* Setting one connection touches that connection only.
LEMMA OnlySet ==
    ASSUME FrontTypes, NEW c \in Conns
    PROVE  /\ \A R : Set(c, R) => Only(c) /\ conn'[c] = R
           /\ \A stage : Goto(c, stage) => Only(c) /\ conn'[c].st = stage
           /\ Close(c) => Only(c) /\ conn'[c].st = "closed"
<1>0. conn = [x \in Conns |-> conn[x]] /\ DOMAIN conn[c] = {"st", "now", "hello", "sh", "taken", "late"}
  BY DEF FrontTypes, Connection
<1>1. \A R : Set(c, R) => Only(c) /\ conn'[c] = R
  BY <1>0 DEF Set, Only
<1>2. ASSUME NEW stage, Goto(c, stage) PROVE Only(c) /\ conn'[c].st = stage
  <2>1. PICK R : R = [conn[c] EXCEPT !.st = stage]
    OBVIOUS
  <2>2. R.st = stage /\ Set(c, R)
    BY <1>0, <1>2, <2>1 DEF Goto
  <2> QED BY <1>1, <2>2
<1>3. ASSUME Close(c) PROVE Only(c) /\ conn'[c].st = "closed"
  <2>1. PICK R : R = [Blank EXCEPT !.st = "closed", !.taken = conn[c].taken, !.late = conn[c].late,
                                   !.hello = IF conn[c].taken THEN conn[c].hello ELSE NoHello]
    OBVIOUS
  <2>2. R.st = "closed" /\ Set(c, R)
    BY <1>3, <2>1 DEF Blank, Close
  <2> QED BY <1>1, <2>2
<1> QED BY <1>1, <1>2, <1>3

\* A step that leaves the opens alone and takes no session or request away.
LEMMA OwnKept ==
    ASSUME OwnInv, UNCHANGED egvars, Registered', RequestsOrdered',
           \A x \in Conns : Awaited(x) => Awaited(x)'
    PROVE  OwnInv'
BY DEF OwnInv, MutexOwned, MutexHeld, OpensAwaited, egvars

\* A step of the TCP front's connection c over which nothing is opened yet.
LEMMA OwnStage ==
    ASSUME OwnInv, NEW c \in Conns, UNCHANGED <<egvars, quicvars>>, Only(c),
           conn[c].st \notin {"session", "mt_open", "h3", "closed"}
    PROVE  OwnInv'
<1>1. req[c] = "none"
  BY DEF OwnInv, RequestsOrdered
<1>2. Registered' /\ RequestsOrdered'
  BY <1>1 DEF OwnInv, Registered, RequestsOrdered, quicvars, Only
<1>3. \A x \in Conns : Awaited(x) => Awaited(x)'
  BY <1>1 DEF Awaited, Only, quicvars
<1> QED BY <1>2, <1>3, OwnKept

\* An open that begins, for a session, an MTProxy relay or a request.
LEMMA OwnOpens ==
    ASSUME OwnInv, EgressInv, NEW c \in Conns, EgressOpen(c), UNCHANGED <<hop, link, lock, dead>>,
           ~Awaited(c) \/ eg[c].st = "idle", Awaited(c)', \A x \in Conns \ {c} : Awaited(x) => Awaited(x)',
           Registered', RequestsOrdered'
    PROVE  OwnInv'
<1>1. c \in Openers /\ eg[c].st = "idle"
  BY FrontAssumption DEF OwnInv, MutexOwned, OpensAwaited
<1>2. MutexHeld' /\ \A p \in Openers \ {c} : eg'[p] = eg[p]
  BY <1>1, MutexOpens DEF OwnInv, MutexOwned
<1>3. OpensAwaited'
  BY <1>2 DEF OwnInv, MutexOwned, OpensAwaited
<1> QED BY <1>2, <1>3 DEF OwnInv, MutexOwned

\* An open whose answer is taken.
LEMMA OwnAnswered ==
    ASSUME OwnInv, EgressInv, NEW c \in Conns, EgressTaken(c), \A x \in Conns \ {c} : Awaited(x) => Awaited(x)',
           Registered', RequestsOrdered'
    PROVE  OwnInv'
<1>1. c \in Openers
  BY FrontAssumption
<1>2. MutexHeld' /\ eg'[c].st = "idle" /\ \A p \in Openers \ {c} : eg'[p] = eg[p]
  BY <1>1, MutexAnswered DEF OwnInv, MutexOwned
<1>3. OpensAwaited'
  BY <1>2 DEF OwnInv, MutexOwned, OpensAwaited
<1> QED BY <1>2, <1>3 DEF OwnInv, MutexOwned

\* The stages of the TCP front and of the handshake over QUIC.
LEMMA OwnServed ==
    ASSUME OwnInv, FrontTypes, EgressInv, NEW c \in Conns, UNCHANGED quicvars,
           \/ Serve(c) \/ Handshaken(c) \/ SetUp(c) \/ Reject(c) \/ QuicAccept(c) \/ \E peer \in plan.peers[c] : Accept(c, peer)
    PROVE  OwnInv'
<1>1. CASE \/ FirstTimeout(c) \/ StallEnds(c) \/ StealTimeout(c) \/ FinishedTimeout(c)
           \/ MtFlightFails(c) \/ MtHeaderFails(c) \/ ForwardFails(c)
  <2>1. /\ Close(c) /\ UNCHANGED egvars
        /\ conn[c].st \in {"first", "stall", "steal", "finished", "mt_flight", "mt_header", "dial"}
    BY <1>1 DEF FirstTimeout, StallEnds, StealTimeout, FinishedTimeout, MtFlightFails,
                MtHeaderFails, ForwardFails, Ends
  <2> QED BY <2>1, OnlySet, OwnStage
<1>2. CASE DestFails(c) \/ FirstRecord(c) \/ DecideStranger(c) \/ MtFlight(c) \/ Handshaken(c) \/ SetUp(c)
  <2>1. PICK stage : Goto(c, stage)
    BY <1>2 DEF DestFails, FirstRecord, DecideStranger, MtFlight, Handshaken, SetUp
  <2>2. UNCHANGED egvars /\ conn[c].st \in {"first", "dial", "mt_flight", "handshake", "setup"}
    BY <1>2 DEF DestFails, FirstRecord, DecideStranger, MtFlight, Handshaken, SetUp, Quiet
  <2> QED BY <2>1, <2>2, OnlySet, OwnStage
<1>3. CASE DecideTelegram(c) \/ DecideAuthed(c) \/ StealHello(c)
  <2>1. Close(c) \/ \E R : Set(c, R)
    BY <1>3 DEF DecideTelegram, DecideAuthed, StealHello
  <2>2. UNCHANGED egvars /\ conn[c].st \in {"dial", "steal"}
    BY <1>3 DEF DecideTelegram, DecideAuthed, StealHello
  <2> QED BY <2>1, <2>2, OnlySet, OwnStage
<1>4. CASE FinishedRead(c)
  <2>1. Close(c) \/ Goto(c, "session")
    BY <1>4 DEF FinishedRead
  <2>2. UNCHANGED egvars /\ conn[c].st = "finished"
    BY <1>4 DEF FinishedRead
  <2> QED BY <2>1, <2>2, OnlySet, OwnStage
<1>5. CASE Reject(c) \/ QuicAccept(c) \/ \E peer \in plan.peers[c] : Accept(c, peer)
  <2>1. \E R : Set(c, R)
    BY <1>5 DEF Reject, QuicAccept, Accept
  <2>2. UNCHANGED egvars /\ conn[c].st = "unused"
    BY <1>5 DEF Reject, QuicAccept, Accept, Arrives
  <2> QED BY <2>1, <2>2, OnlySet, OwnStage
<1>6. CASE MtOpened(c)
  <2>1. EgressTaken(c) /\ conn[c].st = "mt_open" /\ (Close(c) \/ Goto(c, "mt_pump"))
    BY <1>6 DEF MtOpened
  <2>2. Only(c)
    BY <2>1, OnlySet
  <2>3. req[c] = "none"
    BY <2>1 DEF OwnInv, RequestsOrdered
  <2>4. Registered' /\ RequestsOrdered' /\ \A x \in Conns \ {c} : Awaited(x) => Awaited(x)'
    BY <2>2, <2>3 DEF OwnInv, Registered, RequestsOrdered, quicvars, Only, Awaited
  <2> QED BY <2>1, <2>4, OwnAnswered
<1>7. CASE MtHeader(c)
  <2>1. CASE Close(c) /\ UNCHANGED egvars
    BY <1>7, <2>1, OnlySet, OwnStage DEF MtHeader
  <2>2. CASE Goto(c, "mt_open") /\ EgressOpen(c) /\ UNCHANGED <<hop, link, lock, dead>>
    <3>1. Only(c) /\ conn'[c].st = "mt_open" /\ conn[c].st = "mt_header"
      BY <1>7, <2>2, OnlySet DEF MtHeader
    <3>2. req[c] = "none"
      BY <3>1 DEF OwnInv, RequestsOrdered
    <3>3. Registered' /\ RequestsOrdered'
      BY <3>1, <3>2 DEF OwnInv, Registered, RequestsOrdered, quicvars, Only
    <3>4. ~Awaited(c) /\ Awaited(c)' /\ \A x \in Conns \ {c} : Awaited(x) => Awaited(x)'
      BY <3>1, <3>2 DEF quicvars, Only, Awaited
    <3> QED BY <2>2, <3>3, <3>4, OwnOpens
  <2> QED BY <1>7, <2>1, <2>2 DEF MtHeader
<1> QED BY <1>1, <1>2, <1>3, <1>4, <1>5, <1>6, <1>7 DEF Serve, Timer

\* The requests over QUIC.
LEMMA OwnRequests ==
    ASSUME OwnInv, EgressInv, NEW c \in Conns,
           \/ Visit(c) \/ (\E udp \in BOOLEAN : ConnectRequest(c, udp)) \/ open_datagram(c)
           \/ FlowEnds(c) \/ Answer(c) \/ register(c) \/ RelayEnds(c) \/ TunnelEnds(c)
    PROVE  OwnInv'
<1>0. /\ req = [x \in Conns |-> req[x]] /\ flow = [x \in Conns |-> flow[x]]
      /\ Registered /\ RequestsOrdered
  BY DEF OwnInv, RequestsOrdered
<1>1. UNCHANGED conn
  BY DEF Visit, ConnectRequest, open_datagram, FlowEnds, Answer, register, RelayEnds, TunnelEnds, RequestOnly
<1>2. CASE Visit(c) \/ TunnelEnds(c)
  <2>1. /\ req[c] \in {"none", "tunnel"} /\ req' = [req EXCEPT ![c] = "done"] /\ conn[c].st \in {"h3", "closed"}
        /\ req[c] = "none" => conn[c].st = "h3"
        /\ UNCHANGED <<egvars, flow, srv_reg, cli_reg>>
    BY <1>0, <1>2 DEF Visit, TunnelEnds, Req, RequestOnly, RequestsOrdered
  <2>2. Registered' /\ RequestsOrdered'
    BY <1>0, <1>1, <2>1 DEF Registered, RequestsOrdered
  <2>3. \A x \in Conns : Awaited(x) => Awaited(x)'
    BY <1>0, <1>1, <2>1 DEF Awaited
  <2> QED BY <2>1, <2>2, <2>3, OwnKept
<1>3. CASE open_datagram(c) \/ FlowEnds(c)
  <2>1. /\ UNCHANGED <<egvars, req, srv_reg>> /\ flow[c] \in {"asked", "up"}
        /\ \/ flow' = [flow EXCEPT ![c] = "up"] /\ cli_reg' = cli_reg \cup {c}
           \/ flow' = [flow EXCEPT ![c] = "ended"] /\ cli_reg' = cli_reg \ {c}
           \/ flow' = [flow EXCEPT ![c] = "ended"] /\ flow[c] = "asked" /\ cli_reg' = cli_reg
    BY <1>3 DEF open_datagram, FlowEnds, Flow, RequestOnly
  <2>2. Registered'
    BY <1>0, <2>1 DEF Registered
  <2>3. RequestsOrdered'
    BY <1>0, <1>1, <2>1 DEF RequestsOrdered
  <2>4. \A x \in Conns : Awaited(x) => Awaited(x)'
    BY <1>1, <2>1 DEF Awaited
  <2> QED BY <2>1, <2>2, <2>3, <2>4, OwnKept
<1>4. CASE register(c) \/ RelayEnds(c)
  <2>1. /\ UNCHANGED <<egvars, flow, cli_reg>>
        /\ \/ req[c] = "answered" /\ req' = [req EXCEPT ![c] = "relay"] /\ srv_reg' = srv_reg \cup {c}
           \/ req[c] = "relay" /\ req' = [req EXCEPT ![c] = "done"] /\ srv_reg' = srv_reg \ {c}
    BY <1>4 DEF register, RelayEnds, Req, RequestOnly
  <2>2. Registered'
    BY <1>0, <2>1 DEF Registered
  <2>3. RequestsOrdered'
    BY <1>0, <1>1, <2>1 DEF RequestsOrdered
  <2>4. \A x \in Conns : Awaited(x) => Awaited(x)'
    BY <1>0, <1>1, <2>1 DEF Awaited
  <2> QED BY <2>1, <2>2, <2>3, <2>4, OwnKept
<1>5. CASE Answer(c)
  <2>1. PICK next \in {"done", "tunnel", "answered"} :
            /\ req' = [req EXCEPT ![c] = next] /\ req[c] \in {"open", "open_udp"}
            /\ EgressTaken(c) /\ UNCHANGED <<flow, srv_reg, cli_reg>>
    BY <1>5 DEF Answer, Req
  <2>2. Registered' /\ RequestsOrdered'
    BY <1>0, <1>1, <2>1 DEF Registered, RequestsOrdered
  <2>3. \A x \in Conns \ {c} : Awaited(x) => Awaited(x)'
    BY <1>0, <1>1, <2>1 DEF Awaited
  <2> QED BY <2>1, <2>2, <2>3, OwnAnswered
<1>6. ASSUME NEW udp \in BOOLEAN, ConnectRequest(c, udp) PROVE OwnInv'
  <2>1. PICK next \in {"open", "open_udp"}, end \in {"asked", "none"} :
            /\ req' = [req EXCEPT ![c] = next] /\ flow' = [flow EXCEPT ![c] = end]
            /\ req[c] = "none" /\ conn[c].st = "h3"
            /\ EgressOpen(c) /\ UNCHANGED <<hop, link, lock, dead, srv_reg, cli_reg>>
    BY <1>6 DEF ConnectRequest, Req, Flow
  <2>2. Registered' /\ RequestsOrdered'
    BY <1>0, <1>1, <2>1 DEF Registered, RequestsOrdered
  <2>3. ~Awaited(c) /\ Awaited(c)' /\ \A x \in Conns \ {c} : Awaited(x) => Awaited(x)'
    BY <1>0, <1>1, <2>1 DEF Awaited
  <2> QED BY <2>1, <2>2, <2>3, OwnOpens
<1> QED BY <1>2, <1>3, <1>4, <1>5, <1>6

\* Connections that end, and sessions that open.
LEMMA OwnEnds ==
    ASSUME OwnInv, FrontTypes, EgressInv, NEW c \in Conns,
           \/ ConnectionEnds(c) \/ ((StageEnds(c) \/ SessionOpens(c) \/ OrphanEnds(c)) /\ UNCHANGED quicvars)
    PROVE  OwnInv'
<1>1. CASE ConnectionEnds(c)
  <2>1. /\ Only(c) /\ conn'[c].st = "closed" /\ conn[c].st \in {"handshake", "setup", "h3"}
        /\ srv_reg' = srv_reg \ {c} /\ cli_reg' = cli_reg \ {c} /\ UNCHANGED <<egvars, req, flow>>
    BY <1>1, OnlySet DEF ConnectionEnds
  <2>2. Registered' /\ RequestsOrdered'
    BY <2>1 DEF OwnInv, Registered, RequestsOrdered, Only
  <2>3. \A x \in Conns : Awaited(x) => Awaited(x)'
    BY <2>1 DEF Awaited, Only
  <2> QED BY <2>1, <2>2, <2>3, OwnKept
<1>2. CASE StageEnds(c) /\ UNCHANGED quicvars
  <2>1. UNCHANGED egvars /\ Only(c) /\ conn'[c].st = "closed" /\ conn[c].st \in OpenEnded
    BY <1>2, OnlySet DEF StageEnds, Ends
  <2>2. req[c] = "none"
    BY <2>1 DEF OwnInv, RequestsOrdered, OpenEnded
  <2>3. Registered' /\ RequestsOrdered' /\ \A x \in Conns : Awaited(x) => Awaited(x)'
    BY <1>2, <2>1, <2>2 DEF OwnInv, Registered, RequestsOrdered, quicvars, Only, Awaited
  <2> QED BY <2>1, <2>3, OwnKept
<1>3. CASE SessionOpens(c) /\ UNCHANGED quicvars
  <2>1. /\ eg[c].st = "idle" /\ conn[c].st = "session" /\ UNCHANGED conn
        /\ EgressOpen(c) /\ UNCHANGED <<hop, link, lock, dead>>
    BY <1>3 DEF SessionOpens
  <2>2. Registered' /\ RequestsOrdered' /\ Awaited(c)' /\ \A x \in Conns \ {c} : Awaited(x) => Awaited(x)'
    BY <1>3, <2>1 DEF OwnInv, Registered, RequestsOrdered, quicvars, Awaited
  <2> QED BY <2>1, <2>2, OwnOpens
<1>4. CASE OrphanEnds(c) /\ UNCHANGED quicvars
  <2>1. EgressTaken(c) /\ UNCHANGED conn
    BY <1>4 DEF OrphanEnds, frontvars
  <2>2. Registered' /\ RequestsOrdered' /\ \A x \in Conns : Awaited(x) => Awaited(x)'
    BY <1>4, <2>1 DEF OwnInv, Registered, RequestsOrdered, quicvars, Awaited
  <2> QED BY <2>1, <2>2, OwnAnswered
<1> QED BY <1>1, <1>2, <1>3, <1>4

\* Every step of the server.
LEMMA OwnStep == FrontTypes /\ EgressInv /\ OwnInv /\ [ServerNext]_serverVars => OwnInv'
<1> SUFFICES ASSUME FrontTypes, EgressInv, OwnInv, [ServerNext]_serverVars PROVE OwnInv'
  OBVIOUS
<1>1. ASSUME UNCHANGED <<conn, quicvars>> PROVE Registered' /\ RequestsOrdered' /\ \A x \in Conns : Awaited(x) => Awaited(x)'
  BY <1>1 DEF OwnInv, Registered, RequestsOrdered, quicvars, Awaited
<1>2. ASSUME \/ AcceptFails \/ AcceptAgain \/ Tick \/ \E u \in Users : DisableUser(u), UNCHANGED quicvars
      PROVE  OwnInv'
  BY <1>1, <1>2, OwnKept DEF AcceptFails, AcceptAgain, Tick, DisableUser
<1>3. ASSUME NEW c \in Conns, UNCHANGED quicvars,
             ClientReads(c) \/ ClientTimeout(c) \/ PeerVanishes(c) \/ PathLost(c)
      PROVE  OwnInv'
  BY <1>1, <1>3, OwnKept DEF ClientReads, ClientTimeout, PeerVanishes, PathLost
<1>4. ASSUME NEW c \in Conns, EgressStep(c), UNCHANGED <<frontvars, quicvars>> PROVE OwnInv'
  <2>1. /\ MutexHeld' /\ c \in Openers /\ eg[c].st # "idle"
        /\ \A p \in Openers \ {c} : eg'[p] = eg[p]
    BY <1>4, MutexSteps, FrontAssumption DEF OwnInv, MutexOwned
  <2>2. Registered' /\ RequestsOrdered' /\ \A x \in Conns : Awaited(x) => Awaited(x)'
    BY <1>1, <1>4 DEF frontvars
  <2>3. OpensAwaited'
    BY <2>1, <2>2 DEF OwnInv, MutexOwned, OpensAwaited
  <2> QED BY <2>1, <2>2, <2>3 DEF OwnInv, MutexOwned
<1>5. ASSUME NEW l \in Links, LinkDies(l), UNCHANGED <<frontvars, quicvars>> PROVE OwnInv'
  <2>1. UNCHANGED <<eg, lock, link, conn>>
    BY <1>5 DEF LinkDies, frontvars
  <2> QED BY <1>1, <1>5, <2>1 DEF OwnInv, MutexOwned, MutexHeld, OpensAwaited
<1>6. CASE UNCHANGED serverVars
  BY <1>1, <1>6, OwnKept DEF serverVars, frontvars
<1>7. CASE FrontNext /\ UNCHANGED quicvars
  BY <1>2, <1>3, <1>4, <1>5, <1>7, OwnServed, OwnEnds DEF FrontNext
<1>8. ASSUME NEW c \in Conns, QuicAccept(c) \/ Handshaken(c) \/ SetUp(c) \/ PathLost(c) PROVE OwnInv'
  BY <1>3, <1>8, OwnServed DEF QuicAccept, Handshaken, SetUp, PathLost
<1>9. CASE QuicNext
  BY <1>8, <1>9, OwnEnds, OwnRequests DEF QuicNext, QuicServe
<1> QED BY <1>6, <1>7, <1>9 DEF ServerNext

\* Nothing is registered, asked for or locked at the start.
LEMMA OwnStarts == ServerInit => OwnInv
<1> SUFFICES ASSUME ServerInit PROVE OwnInv
  OBVIOUS
<1>1. Registered /\ RequestsOrdered
  BY DEF ServerInit, QuicInit, Registered, RequestsOrdered
<1>2. \A o \in Openers : eg[o].st = "idle"
  BY DEF ServerInit, EgressInit, Idle
<1>3. lock = {}
  BY DEF ServerInit, EgressInit
<1> QED BY <1>1, <1>2, <1>3 DEF OwnInv, MutexOwned, MutexHeld, OpensAwaited

\* What both fronts, their egress and their requests keep together.
LEMMA OwnHolds == ServerSpec => []OwnInv
<1>1. ServerInit => FrontInv /\ EgressInv /\ OwnInv
  BY FrontStarts, EgressStarts, OwnStarts DEF ServerInit
<1>2. FrontInv /\ EgressInv /\ OwnInv /\ [ServerNext]_serverVars => (FrontInv /\ EgressInv /\ OwnInv)'
  BY FrontStep, EgressNext, OwnStep DEF FrontInv
<1> QED BY <1>1, <1>2, PTL DEF ServerSpec, ServerNext

\* connector.rs: whatever opens dial, are refused or time out, and whichever
\* sessions end meanwhile, the mutex is never left held without a task that
\* dials, and only one open dials at a time.
THEOREM MutexIsOwned == ServerSpec => []MutexOwned
<1>1. OwnInv => MutexOwned
  BY DEF OwnInv
<1> QED BY <1>1, OwnHolds, PTL

\* dgram.rs: neither end keeps a registration whose relay or flow is over,
\* in any order of answers, registrations, clearings and ends.
THEOREM RegistrationsOwned == ServerSpec => []Registered
<1>1. OwnInv => Registered
  BY DEF OwnInv
<1> QED BY <1>1, OwnHolds, PTL

-----------------------------------------------------------------------------
(* The bounds of the server's state.                                       *)

\* A look at the guard leaves it within its capacity.
LEMMA GuardBounded ==
    ASSUME FrontTypes, Len(replay) <= MaxEntries, NEW key \in Nat, NEW n \in Int, check_and_record(key, n)
    PROVE  Len(replay') <= MaxEntries
<1>1. PICK left : left = Unexpired(replay, n)
  OBVIOUS
<1>2. left \in Seq(Nat \X Int) /\ Len(left) <= Len(replay) /\ Len(replay) \in Nat
  <2>1. replay \in Seq(Nat \X Int) /\ Len(replay) \in Nat
    BY DEF FrontTypes
  <2>2. PICK k \in 0..Len(replay) :
            Unexpired(replay, n) \in Seq(Nat \X Int) /\ Len(Unexpired(replay, n)) = Len(replay) - k
    BY <2>1, Expiry
  <2> QED BY <1>1, <2>1, <2>2
<1>3. \/ replay' = left
      \/ Len(left) < MaxEntries /\ replay' = Append(left, <<key, n>>)
      \/ Len(left) >= MaxEntries /\ replay' = Append(Tail(left), <<key, n>>)
  BY <1>1, <1>2, FrontAssumption, SMTT(30) DEF check_and_record
<1>4. Len(left) \in Nat /\ MaxEntries \in Nat \ {0} /\ <<key, n>> \in Nat \X Int
  BY <1>2, FrontAssumption
<1>5. CASE Len(left) < MaxEntries /\ replay' = Append(left, <<key, n>>)
  BY <1>2, <1>4, <1>5
<1>6. CASE Len(left) >= MaxEntries /\ replay' = Append(Tail(left), <<key, n>>)
  <2>1. Tail(left) \in Seq(Nat \X Int) /\ Len(Tail(left)) = Len(left) - 1
    BY <1>2, <1>4, <1>6
  <2>2. Len(replay') = Len(Tail(left)) + 1
    BY <1>4, <1>6, <2>1
  <2> QED BY <1>2, <1>4, <2>1, <2>2
<1> QED BY <1>2, <1>3, <1>4, <1>5, <1>6

\* The clock, the users and the guard; the rest of ServerTypeOK is known.
Bounds ==
    /\ plan.horizon \in Nat /\ now \in 0..plan.horizon /\ enabled \subseteq Users
    /\ Len(replay) <= MaxEntries

\* Every step of the server.
LEMMA BoundsStep == FrontTypes /\ Bounds /\ [ServerNext]_serverVars => Bounds'
<1> SUFFICES ASSUME FrontTypes, Bounds, [ServerNext]_serverVars PROVE Bounds'
  OBVIOUS
<1>1. ASSUME UNCHANGED <<plan, now, enabled, replay>> PROVE Bounds'
  BY <1>1 DEF Bounds
<1>2. ASSUME Tick PROVE Bounds'
  BY <1>2 DEF Tick, Bounds
<1>3. ASSUME NEW u \in Users, DisableUser(u) PROVE Bounds'
  BY <1>3 DEF DisableUser, Bounds
<1>4. ASSUME NEW c \in Conns, DecideTelegram(c) \/ DecideAuthed(c) PROVE Bounds'
  <2>1. replay_key(conn[c].hello) \in Nat /\ conn[c].now \in Int
    BY DEF FrontTypes, Connection, Hello, replay_key
  <2>2. check_and_record(replay_key(conn[c].hello), conn[c].now) /\ UNCHANGED <<plan, now, enabled>>
    BY <1>4 DEF DecideTelegram, DecideAuthed
  <2> QED BY <2>1, <2>2, GuardBounded DEF Bounds
<1>5. ASSUME NEW c \in Conns, Timer(c) PROVE UNCHANGED <<plan, now, enabled, replay>>
  BY <1>5 DEF Timer, FirstTimeout, DestFails, StallEnds, StealTimeout, FinishedTimeout, MtFlightFails,
              MtHeaderFails, MtOpened, Ends, Quiet, Untouched
<1>6. ASSUME NEW c \in Conns, Serve(c) PROVE Bounds'
  <2>1. ASSUME FirstRecord(c) \/ ForwardFails(c) \/ DecideStranger(c) \/ StealHello(c) \/ FinishedRead(c)
               \/ MtFlight(c) \/ MtHeader(c)
        PROVE  UNCHANGED <<plan, now, enabled, replay>>
    BY <2>1 DEF FirstRecord, ForwardFails, DecideStranger, StealHello, FinishedRead, MtFlight, MtHeader,
                Ends, Quiet, Untouched
  <2> QED BY <1>1, <1>4, <1>5, <1>6, <2>1 DEF Serve
<1>7. ASSUME NEW c \in Conns,
             \/ Reject(c) \/ (\E peer \in plan.peers[c] : Accept(c, peer)) \/ ClientReads(c) \/ ClientTimeout(c)
             \/ SessionOpens(c) \/ StageEnds(c) \/ PeerVanishes(c) \/ OrphanEnds(c)
      PROVE  UNCHANGED <<plan, now, enabled, replay>>
  BY <1>7 DEF Reject, Accept, ClientReads, ClientTimeout, SessionOpens, StageEnds, Ends, PeerVanishes,
              OrphanEnds, frontvars, Untouched
<1>8. ASSUME AcceptFails \/ AcceptAgain \/ UNCHANGED frontvars PROVE UNCHANGED <<plan, now, enabled, replay>>
  BY <1>8 DEF AcceptFails, AcceptAgain, frontvars
<1>9. CASE FrontNext
  BY <1>1, <1>2, <1>3, <1>6, <1>7, <1>8, <1>9 DEF FrontNext
<1>10. CASE QuicNext
  <2>1. PICK c \in Conns :
            \/ QuicAccept(c) \/ Handshaken(c) \/ SetUp(c) \/ PathLost(c) \/ ConnectionEnds(c)
            \/ Visit(c) \/ (\E udp \in BOOLEAN : ConnectRequest(c, udp))
            \/ open_datagram(c) \/ FlowEnds(c) \/ QuicServe(c)
    BY <1>10 DEF QuicNext
  <2>2. Untouched
    BY <2>1 DEF QuicAccept, Handshaken, SetUp, PathLost, ConnectionEnds, Visit, ConnectRequest, open_datagram,
                FlowEnds, QuicServe, Answer, register, RelayEnds, TunnelEnds, RequestOnly, Quiet
  <2> QED BY <1>1, <2>2 DEF Untouched
<1> QED BY <1>1, <1>8, <1>9, <1>10 DEF ServerNext, serverVars

\* The type invariant of both fronts, with the bounds it names: the limiter
\* within its cap, the replay guard within its capacity.
THEOREM ServerTypeCorrect == ServerSpec => []ServerTypeOK
<1>1. ServerInit => Bounds
  BY FrontAssumption DEF ServerInit, FrontInit, Bounds
<1>2. FrontInv => FrontTypes
  BY DEF FrontInv
<1>3. ServerSpec => []Bounds
  BY <1>1, <1>2, BoundsStep, FrontHolds, PTL DEF ServerSpec, ServerNext
<1>4. SlotInv => limiter.total \in 0..MaxTotal
  BY FS_CardinalityType, FrontAssumption DEF SlotInv, SlotsExact
<1>5. Bounds /\ SlotInv /\ OwnInv => ServerTypeOK
  BY <1>4 DEF Bounds, OwnInv, Registered, ServerTypeOK
<1> QED BY <1>3, <1>5, SlotHolds, OwnHolds, PTL

-----------------------------------------------------------------------------
(* The relays of a session.                                                *)

\* While the user is allowed nothing is in excess; from then on a running
\* relay still holds, unreported, all that it relayed in excess.
ExcessHeld ==
    /\ StillAllowed => \A s \in Tcp : extra[s] = 0
    /\ ~StillAllowed => \A s \in open \cap Tcp : extra[s] <= up[s] + down[s] + part[s]

RelayInv == TypeOK /\ EveryByteAccounted /\ ExcessHeld /\ OverrunBounded

Buckets == [Tcp -> 0 .. 2 * (Flush - 1) + MaxChunk]

-----------------------------------------------------------------------------
(* Counting unreported bytes.                                                *)

\* One stream's bytes are as many as its counters say.
LEMMA OneStream ==
    ASSUME NEW s, NEW n \in Nat
    PROVE  IsFiniteSet({s} \X (1..n)) /\ Cardinality({s} \X (1..n)) = n
<1>1. IsFiniteSet({s}) /\ Cardinality({s}) = 1
  BY FS_Singleton
<1>2. IsFiniteSet(1..n) /\ Cardinality(1..n) = n
  BY FS_Interval
<1>3. IsFiniteSet({s} \X (1..n)) /\ Cardinality({s} \X (1..n)) = Cardinality({s}) * Cardinality(1..n)
  BY <1>1, <1>2, FS_Product
<1>4. Cardinality({s}) * Cardinality(1..n) = n
  BY <1>1, <1>2
<1> QED BY <1>3, <1>4

\* Of a bucket, all but stream s, and stream s.
LEMMA BytesSplit ==
    ASSUME NEW g \in Buckets, NEW s \in Tcp
    PROVE  LET rest == {b \in Bytes(g) : b[1] # s}
           IN  /\ IsFiniteSet(Bytes(g)) /\ IsFiniteSet(rest)
               /\ Cardinality(rest) \in Nat
               /\ Cardinality(Bytes(g)) = Cardinality(rest) + g[s]
<1> DEFINE all == Tcp \X (1 .. 2 * (Flush - 1) + MaxChunk)
           rest == {b \in Bytes(g) : b[1] # s}
           one == {s} \X (1 .. g[s])
<1>n. 2 * (Flush - 1) + MaxChunk \in Nat /\ g[s] \in Nat /\ g[s] <= 2 * (Flush - 1) + MaxChunk
  BY RelayAssumption DEF Buckets
<1>1. IsFiniteSet(all)
  <2>1. IsFiniteSet(1 .. 2 * (Flush - 1) + MaxChunk)
    BY <1>n, FS_Interval
  <2> QED BY <2>1, RelayAssumption, FS_Product
<1>2. IsFiniteSet(Bytes(g)) /\ IsFiniteSet(rest)
  <2>1. Bytes(g) \in SUBSET all /\ rest \in SUBSET all
    BY DEF Bytes
  <2> QED BY <1>1, <2>1, FS_Subset
<1>3. IsFiniteSet(one) /\ Cardinality(one) = g[s]
  BY <1>n, OneStream
<1>4. Bytes(g) = rest \cup one
  <2>1. one \subseteq Bytes(g)
    BY <1>n DEF Bytes
  <2>2. ASSUME NEW b \in Bytes(g), b[1] = s PROVE b \in one
    <3>1. b \in all /\ b[2] <= g[s]
      BY <2>2 DEF Bytes
    <3>2. b = <<s, b[2]>> /\ b[2] \in 1 .. 2 * (Flush - 1) + MaxChunk
      BY <2>2, <3>1
    <3> QED BY <1>n, <3>1, <3>2
  <2> QED BY <2>1, <2>2
<1>5. rest \cap one = {}
  OBVIOUS
<1>6. Cardinality(rest) \in Nat /\ Cardinality({}) = 0
  BY <1>2, FS_CardinalityType, FS_EmptySet
<1>7. Cardinality(rest \cup one) = Cardinality(rest) + Cardinality(one) - Cardinality(rest \cap one)
  BY <1>2, <1>3, FS_Union
<1>8. Cardinality(Bytes(g)) = Cardinality(rest) + g[s]
  <2>1. Cardinality(rest \cap one) = 0
    BY <1>5, <1>6
  <2>2. Cardinality(Bytes(g)) = Cardinality(rest) + g[s] - 0
    BY <1>3, <1>4, <1>7, <2>1
  <2> HIDE DEF rest
  <2> QED BY <1>n, <1>6, <2>2
<1> HIDE DEF rest
<1>9. /\ IsFiniteSet(Bytes(g)) /\ IsFiniteSet(rest)
      /\ Cardinality(rest) \in Nat
      /\ Cardinality(Bytes(g)) = Cardinality(rest) + g[s]
  BY <1>2, <1>6, <1>8
<1> QED BY <1>9 DEF rest

\* Changing the counters of one stream changes the total by as much.
LEMMA BytesChange ==
    ASSUME NEW g \in Buckets, NEW h \in Buckets, NEW s \in Tcp,
           \A t \in Tcp \ {s} : h[t] = g[t]
    PROVE  /\ Cardinality(Bytes(g)) \in Nat /\ Cardinality(Bytes(h)) \in Nat
           /\ Cardinality(Bytes(h)) + g[s] = Cardinality(Bytes(g)) + h[s]
<1>1. {b \in Bytes(h) : b[1] # s} = {b \in Bytes(g) : b[1] # s}
  BY DEF Bytes
<1>2. g[s] \in Nat /\ h[s] \in Nat
  BY RelayAssumption DEF Buckets
<1> DEFINE rest == {b \in Bytes(g) : b[1] # s}
<1>3. Cardinality(rest) \in Nat /\ Cardinality(Bytes(g)) = Cardinality(rest) + g[s]
  BY BytesSplit
<1>4. Cardinality(Bytes(h)) = Cardinality(rest) + h[s]
  BY <1>1, BytesSplit
<1> QED BY <1>2, <1>3, <1>4

\* The same for Unreported and a step that touches the counters of s only.
LEMMA UnreportedChange ==
    ASSUME TypeOK, NEW s \in Tcp, NEW u \in 0..(Flush - 1), NEW d \in 0..(Flush - 1),
           NEW p \in 0..(MaxChunk - 1), up' = [up EXCEPT ![s] = u], down' = [down EXCEPT ![s] = d],
           part' = [part EXCEPT ![s] = p]
    PROVE  /\ \E g, h \in Nat : /\ Unreported = g /\ Unreported' = h
                                /\ h + up[s] + down[s] + part[s] = g + u + d + p
           /\ up[s] \in Nat /\ down[s] \in Nat /\ part[s] \in Nat
           /\ up' \in [Tcp -> 0..(Flush - 1)] /\ down' \in [Tcp -> 0..(Flush - 1)]
           /\ part' \in [Tcp -> 0..(MaxChunk - 1)]
<1> DEFINE g == [t \in Tcp |-> up[t] + down[t] + part[t]]
           h == [t \in Tcp |-> up'[t] + down'[t] + part'[t]]
<1>f. Flush \in Nat \ {0} /\ MaxChunk \in Nat \ {0}
  BY RelayAssumption
<1>1. /\ up \in [Tcp -> 0..(Flush - 1)] /\ down \in [Tcp -> 0..(Flush - 1)]
      /\ part \in [Tcp -> 0..(MaxChunk - 1)]
  BY DEF TypeOK
<1>2. /\ up' \in [Tcp -> 0..(Flush - 1)] /\ down' \in [Tcp -> 0..(Flush - 1)]
      /\ part' \in [Tcp -> 0..(MaxChunk - 1)]
  BY <1>1
<1>3. g \in Buckets /\ h \in Buckets
  <2>1. ASSUME NEW t \in Tcp
        PROVE  /\ up[t] \in 0..(Flush - 1) /\ down[t] \in 0..(Flush - 1) /\ part[t] \in 0..(MaxChunk - 1)
               /\ up'[t] \in 0..(Flush - 1) /\ down'[t] \in 0..(Flush - 1) /\ part'[t] \in 0..(MaxChunk - 1)
    BY <1>1, <1>2
  <2>2. ASSUME NEW t \in Tcp
        PROVE  /\ up[t] + down[t] + part[t] \in 0 .. 2 * (Flush - 1) + MaxChunk
               /\ up'[t] + down'[t] + part'[t] \in 0 .. 2 * (Flush - 1) + MaxChunk
    BY <1>f, <2>1
  <2> QED BY <2>2 DEF Buckets
<1>4. \A t \in Tcp \ {s} : h[t] = g[t]
  BY <1>1
<1>5. g[s] = up[s] + down[s] + part[s] /\ h[s] = u + d + p
  BY <1>1
<1> HIDE DEF g, h
<1>6. /\ Cardinality(Bytes(g)) \in Nat /\ Cardinality(Bytes(h)) \in Nat
      /\ Cardinality(Bytes(h)) + g[s] = Cardinality(Bytes(g)) + h[s]
  BY <1>3, <1>4, BytesChange
<1>7. Unreported = Cardinality(Bytes(g)) /\ Unreported' = Cardinality(Bytes(h))
  BY DEF Unreported, g, h
<1>8. up[s] \in Nat /\ down[s] \in Nat /\ part[s] \in Nat /\ u \in Nat /\ d \in Nat /\ p \in Nat
  BY <1>f, <1>1
<1>9. Cardinality(Bytes(h)) + up[s] + down[s] + part[s] = Cardinality(Bytes(g)) + u + d + p
  BY <1>5, <1>6, <1>8
<1> QED BY <1>2, <1>6, <1>7, <1>8, <1>9

\* Before any byte.
LEMMA InitUnreported == Init => Unreported = 0
<1> SUFFICES ASSUME Init PROVE Unreported = 0
  OBVIOUS
<1>1. Bytes([s \in Tcp |-> up[s] + down[s] + part[s]]) = {}
  BY RelayAssumption DEF Init, Bytes
<1> QED BY <1>1, FS_EmptySet DEF Unreported

-----------------------------------------------------------------------------
(* The inductive invariant.                                                *)

\* No relay has moved a byte.
LEMMA RelayStarts == Init => RelayInv
<1> SUFFICES ASSUME Init PROVE RelayInv
  OBVIOUS
<1>0. Flush \in Nat \ {0} /\ MaxChunk \in Nat \ {0}
  BY RelayAssumption
<1>e. expired \in BOOLEAN
  BY DEF Init
<1>1. TypeOK
  BY <1>0, <1>e DEF Init, TypeOK
<1>2. EveryByteAccounted
  BY InitUnreported DEF Init, EveryByteAccounted
<1>3. ExcessHeld
  BY <1>0 DEF Init, ExcessHeld
<1>4. OverrunBounded
  BY <1>0 DEF Init, OverrunBounded
<1> QED BY <1>1, <1>2, <1>3, <1>4 DEF RelayInv

\* Rights are lost by themselves and restored by the admin only.
LEMMA OkMonotone ==
    ASSUME NEW n \in Nat, NEW m \in Nat, n <= m, Ok(st, expired, m)
    PROVE  Ok(st, expired, n)
BY RelayAssumption DEF Ok

\* What a byte relayed in excess means for its relay, before the step.
LEMMA ExcessBound ==
    ASSUME RelayInv, NEW s \in Tcp, s \in open, ~StillAllowed
    PROVE  /\ extra[s] \in Nat /\ up[s] \in Nat /\ down[s] \in Nat /\ part[s] \in Nat
           /\ extra[s] <= up[s] + down[s] + part[s]
           /\ up[s] <= Flush - 1 /\ down[s] <= Flush - 1 /\ part[s] <= MaxChunk - 1
<1>1. Flush \in Nat \ {0} /\ MaxChunk \in Nat \ {0}
  BY RelayAssumption
<1>2. /\ up[s] \in 0..(Flush - 1) /\ down[s] \in 0..(Flush - 1) /\ part[s] \in 0..(MaxChunk - 1)
      /\ extra[s] \in Nat
  BY DEF RelayInv, TypeOK
<1>3. extra[s] <= up[s] + down[s] + part[s]
  BY DEF RelayInv, ExcessHeld
<1> QED BY <1>1, <1>2, <1>3

\* Every step of a TCP relay s that moves k bytes and reports n, after which it
\* holds u, d and p, and l bytes of a write are cut off: it goes on, or ends
\* with everything reported.
LEMMA TcpStep ==
    ASSUME RelayInv, NEW s \in Tcp, s \in open, NEW k \in 0..MaxChunk, NEW n \in Nat, NEW l \in Nat,
           NEW u \in 0..(Flush - 1), NEW d \in 0..(Flush - 1), NEW p \in 0..(MaxChunk - 1),
           u + d + p + n + l = up[s] + down[s] + part[s] + k,
           UNCHANGED <<st, expired, session>>,
           used' = Counted(n), lost' = IF st = "absent" THEN lost ELSE lost + l,
           up' = [up EXCEPT ![s] = u], down' = [down EXCEPT ![s] = d], part' = [part EXCEPT ![s] = p],
           moved' = IF st = "absent" THEN moved ELSE moved + k,
           extra' = [t \in Tcp |-> IF t # s THEN extra[t] ELSE IF StillAllowed THEN 0 ELSE extra[t] + k],
           \/ open' = open \ {s}
           \/ open' = open /\ l = 0 /\ (n = 0 \/ Ok(st, expired, used'))
    PROVE  RelayInv'
<1>t. /\ TypeOK /\ used \in Nat /\ moved \in Nat /\ lost \in Nat /\ extra \in [Tcp -> Nat]
      /\ open \subseteq Streams
  BY DEF RelayInv, TypeOK
<1>f. Flush \in Nat \ {0} /\ MaxChunk \in Nat \ {0}
  BY RelayAssumption
<1>u. u \in Nat /\ d \in Nat /\ p \in Nat /\ k \in Nat /\ k <= MaxChunk
  BY <1>f
<1>2. /\ \E g, h \in Nat : Unreported = g /\ Unreported' = h /\ h + up[s] + down[s] + part[s] = g + u + d + p
      /\ up[s] \in Nat /\ down[s] \in Nat /\ part[s] \in Nat
      /\ up' \in [Tcp -> 0..(Flush - 1)] /\ down' \in [Tcp -> 0..(Flush - 1)]
      /\ part' \in [Tcp -> 0..(MaxChunk - 1)]
  BY <1>t, UnreportedChange
<1>3. used' \in Nat /\ moved' \in Nat /\ lost' \in Nat /\ used <= used' /\ extra' \in [Tcp -> Nat]
  BY <1>t, <1>u DEF Counted
<1>4. TypeOK'
  <2>1. open' \subseteq Streams
    BY <1>t
  <2> QED BY <1>t, <1>2, <1>3, <2>1 DEF TypeOK
<1>5. EveryByteAccounted'
  <2> SUFFICES ASSUME st # "absent" PROVE moved' = used' + Unreported' + lost'
    BY DEF EveryByteAccounted
  <2>1. moved' = moved + k /\ used' = used + n /\ lost' = lost + l /\ moved = used + Unreported + lost
    BY DEF RelayInv, EveryByteAccounted, Counted
  <2>2. PICK g \in Nat, h \in Nat : Unreported = g /\ Unreported' = h /\ h + up[s] + down[s] + part[s] = g + u + d + p
    BY <1>2
  <2>3. used + g + lost + k = used + n + h + (lost + l)
    BY <1>t, <1>u, <1>2, <2>2
  <2> QED BY <2>1, <2>2, <2>3
<1>6. StillAllowed' => StillAllowed
  <2>1. StillAllowed' => Ok(st, expired, used')
    BY DEF StillAllowed, Ok
  <2> QED BY <1>t, <1>3, <2>1, OkMonotone DEF StillAllowed
<1>7. StillAllowed => \A t \in Tcp : extra[t] = 0 /\ extra'[t] = 0
  BY <1>u DEF RelayInv, ExcessHeld
<1>8. ~StillAllowed => open' = open \ {s} \/ (n = 0 /\ l = 0)
  <2>1. Ok(st, expired, used') => StillAllowed
    BY <1>t, <1>3, OkMonotone DEF StillAllowed
  <2>2. open' = open \ {s} \/ (l = 0 /\ n = 0) \/ Ok(st, expired, used')
    OBVIOUS
  <2> QED BY <2>1, <2>2
<1>9. ASSUME NEW t \in open' \cap Tcp, ~StillAllowed' PROVE extra'[t] <= up'[t] + down'[t] + part'[t]
  <2>1. /\ up'[t] \in Nat /\ down'[t] \in Nat /\ part'[t] \in Nat /\ t \in open /\ t \in Tcp
    BY <1>f, <1>2, <1>9
  <2>2. CASE StillAllowed
    BY <1>7, <2>1, <2>2
  <2>3. CASE ~StillAllowed /\ t # s
    <3>1. extra'[t] = extra[t] /\ up'[t] = up[t] /\ down'[t] = down[t] /\ part'[t] = part[t]
      BY <1>t, <2>1, <2>3 DEF TypeOK
    <3> QED BY <2>1, <2>3, <3>1, ExcessBound
  <2>4. CASE ~StillAllowed /\ t = s
    <3>1. extra'[s] = extra[s] + k /\ up'[s] = u /\ down'[s] = d /\ part'[s] = p /\ n = 0 /\ l = 0
      BY <1>t, <1>8, <1>9, <2>4 DEF TypeOK
    <3>2. extra[s] <= up[s] + down[s] + part[s] /\ extra[s] \in Nat
      BY <2>1, <2>4, ExcessBound
    <3> QED BY <1>u, <1>2, <2>4, <3>1, <3>2
  <2> QED BY <2>2, <2>3, <2>4
<1>10. ExcessHeld'
  BY <1>6, <1>7, <1>9 DEF ExcessHeld
<1>11. ASSUME NEW t \in Tcp PROVE extra'[t] <= 2 * (Flush - 1) + 2 * MaxChunk - 1
  <2>1. extra[t] \in Nat /\ extra[t] <= 2 * (Flush - 1) + 2 * MaxChunk - 1
    BY <1>t DEF RelayInv, OverrunBounded
  <2>2. CASE t # s
    BY <2>1, <2>2
  <2>3. CASE StillAllowed
    BY <1>f, <1>7, <2>3
  <2>4. CASE t = s /\ ~StillAllowed
    <3>1. extra'[s] = extra[s] + k
      BY <2>4
    <3> QED BY <1>f, <1>u, <2>4, <3>1, ExcessBound
  <2> QED BY <2>2, <2>3, <2>4
<1>12. OverrunBounded'
  BY <1>11 DEF OverrunBounded
<1> QED BY <1>4, <1>5, <1>10, <1>12 DEF RelayInv

\* A step that moves no byte and takes no counter away.
LEMMA QuietInv ==
    ASSUME RelayInv, UNCHANGED <<st, used, up, down, part, moved, lost>>,
           session' \in {"none", "live", "closed"}, open' \subseteq Streams, expired' \in BOOLEAN,
           StillAllowed' => StillAllowed,
           extra' \in [Tcp -> Nat],
           \A s \in Tcp : extra'[s] = extra[s] \/ extra'[s] = 0,
           \A s \in Tcp \cap open' : s \in open \/ extra'[s] = 0
    PROVE  RelayInv'
<1>t. TypeOK /\ extra \in [Tcp -> Nat]
  BY DEF RelayInv, TypeOK
<1>f. Flush \in Nat \ {0} /\ MaxChunk \in Nat \ {0}
  BY RelayAssumption
<1>1. TypeOK'
  BY <1>t DEF TypeOK
<1>2. Unreported' = Unreported
  BY DEF Unreported
<1>3. EveryByteAccounted'
  BY <1>2 DEF RelayInv, EveryByteAccounted
<1>4. ExcessHeld'
  <2>1. StillAllowed' => \A t \in Tcp : extra'[t] = 0
    BY DEF RelayInv, ExcessHeld
  <2>2. ASSUME ~StillAllowed', NEW t \in open' \cap Tcp PROVE extra'[t] <= up'[t] + down'[t] + part'[t]
    <3>1. up[t] \in Nat /\ down[t] \in Nat /\ part[t] \in Nat /\ up' = up /\ down' = down /\ part' = part
      BY <1>t, <1>f, <2>2 DEF TypeOK
    <3>2. CASE extra'[t] = 0
      BY <3>1, <3>2
    <3>3. CASE t \in open /\ extra'[t] = extra[t] /\ StillAllowed
      BY <3>1, <3>3 DEF RelayInv, ExcessHeld
    <3>4. CASE t \in open /\ extra'[t] = extra[t] /\ ~StillAllowed
      BY <3>1, <3>4 DEF RelayInv, ExcessHeld
    <3> QED BY <3>2, <3>3, <3>4
  <2> QED BY <2>1, <2>2 DEF ExcessHeld
<1>5. OverrunBounded'
  BY <1>t, <1>f DEF RelayInv, OverrunBounded
<1> QED BY <1>1, <1>3, <1>4, <1>5 DEF RelayInv

\* Admin commands: a removal empties the entry, re-enabling starts anew.
LEMMA AdminInv == ASSUME RelayInv, NEW state \in {"on", "off", "absent"}, Admin(state) PROVE RelayInv'
<1>t. TypeOK /\ extra \in [Tcp -> Nat] /\ used \in Nat /\ moved \in Nat /\ lost \in Nat
  BY DEF RelayInv, TypeOK
<1>f. Flush \in Nat \ {0} /\ MaxChunk \in Nat \ {0}
  BY RelayAssumption
<1>a. /\ st # "absent" /\ state # st /\ st' = state /\ UNCHANGED <<expired, session, open, up, down, part>>
      /\ used' = IF state = "absent" THEN 0 ELSE used
      /\ moved' = IF state = "absent" THEN 0 ELSE moved
      /\ lost' = IF state = "absent" THEN 0 ELSE lost
      /\ extra' = IF Ok(state, expired, used') THEN [s \in Tcp |-> 0] ELSE extra
  BY DEF Admin
<1>1. extra' \in [Tcp -> Nat] /\ \A s \in Tcp : extra'[s] = 0 \/ extra'[s] = extra[s]
  BY <1>t, <1>a
<1>2. TypeOK'
  BY <1>t, <1>a, <1>1 DEF TypeOK
<1>3. EveryByteAccounted'
  <2>1. Unreported' = Unreported
    BY <1>a DEF Unreported
  <2> QED BY <1>a, <2>1 DEF RelayInv, EveryByteAccounted
<1>4. ExcessHeld'
  <2>0. StillAllowed' <=> Ok(state, expired, used')
    BY <1>a DEF StillAllowed
  <2>1. StillAllowed' => \A t \in Tcp : extra'[t] = 0
    BY <1>a, <2>0
  <2>2. ASSUME ~StillAllowed', NEW t \in open' \cap Tcp PROVE extra'[t] <= up'[t] + down'[t] + part'[t]
    <3>1. /\ up[t] \in Nat /\ down[t] \in Nat /\ part[t] \in Nat
          /\ up' = up /\ down' = down /\ part' = part /\ open' = open
      BY <1>t, <1>f, <1>a, <2>2 DEF TypeOK
    <3>2. extra' = extra
      BY <1>a, <2>0, <2>2
    <3>3. CASE StillAllowed
      BY <3>1, <3>2, <3>3 DEF RelayInv, ExcessHeld
    <3>4. CASE ~StillAllowed
      BY <3>1, <3>2, <3>4 DEF RelayInv, ExcessHeld
    <3> QED BY <3>3, <3>4
  <2> QED BY <2>1, <2>2 DEF ExcessHeld
<1>5. OverrunBounded'
  BY <1>t, <1>f, <1>1 DEF RelayInv, OverrunBounded
<1> QED BY <1>2, <1>3, <1>4, <1>5 DEF RelayInv

\* A datagram is reported at once and no counter of a TCP relay moves.
LEMMA MoveDgramInv ==
    ASSUME RelayInv, NEW s \in Dgram, NEW k \in 1..MaxChunk, MoveDgram(s, k)
    PROVE  RelayInv'
<1>t. TypeOK /\ used \in Nat /\ moved \in Nat /\ lost \in Nat /\ extra \in [Tcp -> Nat]
  BY DEF RelayInv, TypeOK
<1>f. Flush \in Nat \ {0} /\ MaxChunk \in Nat \ {0} /\ k \in Nat /\ s \notin Tcp
  BY RelayAssumption
<1>m. /\ moved' = IF st = "absent" THEN moved ELSE moved + k
      /\ extra' = extra /\ used' = Counted(k)
      /\ UNCHANGED <<st, expired, session, open, up, down, part, lost>>
  BY <1>t, <1>f DEF MoveDgram, Moving
<1>1. used' \in Nat /\ moved' \in Nat /\ used <= used'
  BY <1>t, <1>f, <1>m DEF Counted
<1>2. TypeOK'
  BY <1>t, <1>m, <1>1 DEF TypeOK
<1>3. EveryByteAccounted'
  <2> SUFFICES ASSUME st # "absent" PROVE moved' = used' + Unreported' + lost'
    BY <1>m DEF EveryByteAccounted
  <2>0. IsFiniteSet(Bytes([t \in Tcp |-> up[t] + down[t] + part[t]]))
    <3>1. IsFiniteSet(Tcp \X (1 .. 2 * (Flush - 1) + MaxChunk))
      <4>1. IsFiniteSet(1 .. 2 * (Flush - 1) + MaxChunk)
        BY <1>f, FS_Interval
      <4> QED BY <4>1, FS_Product, RelayAssumption
    <3>2. Bytes([t \in Tcp |-> up[t] + down[t] + part[t]])
              \in SUBSET (Tcp \X (1 .. 2 * (Flush - 1) + MaxChunk))
      BY DEF Bytes
    <3> QED BY <3>1, <3>2, FS_Subset
  <2>1. Unreported' = Unreported /\ Unreported \in Nat
    BY <1>m, <2>0, FS_CardinalityType DEF Unreported
  <2>2. moved = used + Unreported + lost /\ moved' = moved + k /\ used' = used + k
    BY <1>m DEF RelayInv, EveryByteAccounted, Counted
  <2> QED BY <1>t, <1>f, <1>m, <2>1, <2>2
<1>4. StillAllowed' => StillAllowed
  <2>1. StillAllowed' => Ok(st, expired, used')
    BY <1>m DEF StillAllowed, Ok
  <2> QED BY <1>t, <1>1, <2>1, OkMonotone DEF StillAllowed
<1>5. ExcessHeld'
  <2>1. StillAllowed' => \A t \in Tcp : extra'[t] = 0
    BY <1>m, <1>4 DEF RelayInv, ExcessHeld
  <2>2. ASSUME ~StillAllowed', NEW t \in open' \cap Tcp PROVE extra'[t] <= up'[t] + down'[t] + part'[t]
    <3>1. /\ up[t] \in Nat /\ down[t] \in Nat /\ part[t] \in Nat /\ up' = up /\ down' = down
          /\ part' = part /\ extra' = extra /\ t \in open
      BY <1>t, <1>f, <1>m, <2>2 DEF TypeOK
    <3>2. CASE StillAllowed
      BY <3>1, <3>2 DEF RelayInv, ExcessHeld
    <3>3. CASE ~StillAllowed
      BY <3>1, <3>3 DEF RelayInv, ExcessHeld
    <3> QED BY <3>2, <3>3
  <2> QED BY <2>1, <2>2 DEF ExcessHeld
<1>6. OverrunBounded'
  BY <1>m DEF RelayInv, OverrunBounded
<1> QED BY <1>2, <1>3, <1>5, <1>6 DEF RelayInv

\* A whole chunk in one direction: gather; flush and go on; or flush and end,
\* which cuts off the write of the other direction.
LEMMA GatherInv ==
    ASSUME RelayInv, NEW s \in Tcp, NEW k \in 1..MaxChunk, Moving(s, k), NEW u \in Nat, NEW d \in Nat,
           NEW p \in 0..(MaxChunk - 1),
           u + d + p = up[s] + down[s] + part[s] + k, u < Flush \/ d < Flush,
           Gather(s, u, d, p), UNCHANGED <<st, expired, session>>
    PROVE  RelayInv'
<1>f. /\ Flush \in Nat \ {0} /\ MaxChunk \in Nat \ {0} /\ k \in Nat /\ k \in 0..MaxChunk
      /\ p \in Nat /\ 0 \in 0..(Flush - 1) /\ 0 \in 0..(MaxChunk - 1)
  BY RelayAssumption
<1>t. TypeOK /\ used \in Nat /\ lost \in Nat
  BY DEF RelayInv, TypeOK
<1>p. up[s] \in Nat /\ down[s] \in Nat /\ part[s] \in Nat
  BY <1>t, <1>f DEF TypeOK
<1>m. /\ s \in open /\ moved' = IF st = "absent" THEN moved ELSE moved + k
      /\ extra' = [t \in Tcp |-> IF t # s THEN extra[t]
                                ELSE IF StillAllowed THEN 0 ELSE extra[t] + k]
  BY DEF Moving
<1> DEFINE reported == IF u >= Flush THEN u ELSE d
           u2 == IF u >= Flush THEN 0 ELSE u
           d2 == IF u >= Flush THEN d ELSE 0
<1>1. CASE /\ u < Flush /\ d < Flush
           /\ up' = [up EXCEPT ![s] = u] /\ down' = [down EXCEPT ![s] = d] /\ part' = [part EXCEPT ![s] = p]
           /\ UNCHANGED <<open, used, lost>>
  <2>1. u \in 0..(Flush - 1) /\ d \in 0..(Flush - 1)
    BY <1>1, <1>f
  <2>2. /\ u + d + p + 0 + 0 = up[s] + down[s] + part[s] + k /\ used' = Counted(0)
        /\ lost' = IF st = "absent" THEN lost ELSE lost + 0
    BY <1>1, <1>t, <1>f, <1>p DEF Counted
  <2> QED BY <1>1, <1>f, <1>m, <2>1, <2>2, TcpStep
<1>2. CASE u >= Flush \/ d >= Flush
  <2>1. /\ u2 \in 0..(Flush - 1) /\ d2 \in 0..(Flush - 1) /\ reported \in Nat
        /\ u2 + d2 + p + reported + 0 = up[s] + down[s] + part[s] + k
    BY <1>2, <1>f, <1>p
  <2>2. CASE /\ Ok(st, expired, Counted(reported)) /\ used' = Counted(reported)
             /\ up' = [up EXCEPT ![s] = u2] /\ down' = [down EXCEPT ![s] = d2]
             /\ part' = [part EXCEPT ![s] = p] /\ UNCHANGED <<open, lost>>
    <3> HIDE DEF u2, d2, reported
    <3>1. lost' = IF st = "absent" THEN lost ELSE lost + 0
      BY <1>t, <2>2
    <3> QED BY <1>f, <1>m, <2>1, <2>2, <3>1, TcpStep
  <2>3. CASE Finished(s, u2, d2, reported, p)
    <3> HIDE DEF u2, d2, reported
    <3>1. /\ open' = open \ {s} /\ used' = Counted(reported + u2 + d2)
          /\ lost' = IF st = "absent" THEN lost ELSE lost + p
          /\ up' = [up EXCEPT ![s] = 0] /\ down' = [down EXCEPT ![s] = 0] /\ part' = [part EXCEPT ![s] = 0]
      BY <2>3 DEF Finished
    <3>2. /\ reported + u2 + d2 \in Nat
          /\ 0 + 0 + 0 + (reported + u2 + d2) + p = up[s] + down[s] + part[s] + k
      BY <1>f, <1>p, <2>1
    <3> QED BY <1>f, <1>m, <3>1, <3>2, TcpStep
  <2> QED BY <1>2, <1>f, <2>2, <2>3 DEF Gather
<1> QED BY <1>f, <1>1, <1>2 DEF Gather

\* The end of a relay, whatever ended it.
LEMMA EndInv == ASSUME RelayInv, NEW s \in Streams, End(s) PROVE RelayInv'
<1>t. TypeOK /\ extra \in [Tcp -> Nat] /\ Flush \in Nat \ {0} /\ MaxChunk \in Nat \ {0} /\ moved \in Nat
  BY RelayAssumption DEF RelayInv, TypeOK
<1>e. UNCHANGED <<st, expired, session, moved, extra>> /\ s \in open
  BY DEF End
<1>1. CASE s \in Tcp /\ Finished(s, up[s], down[s], 0, part[s])
  <2>1. /\ up[s] \in Nat /\ down[s] \in Nat /\ part[s] \in Nat /\ 0 \in 0..MaxChunk
        /\ 0 \in 0..(Flush - 1) /\ 0 \in 0..(MaxChunk - 1)
    BY <1>t, <1>1 DEF TypeOK
  <2>2. /\ open' = open \ {s} /\ used' = Counted(0 + up[s] + down[s])
        /\ lost' = IF st = "absent" THEN lost ELSE lost + part[s]
        /\ up' = [up EXCEPT ![s] = 0] /\ down' = [down EXCEPT ![s] = 0] /\ part' = [part EXCEPT ![s] = 0]
    BY <1>1 DEF Finished
  <2>3. /\ moved' = IF st = "absent" THEN moved ELSE moved + 0
        /\ 0 + up[s] + down[s] \in Nat
        /\ 0 + 0 + 0 + (0 + up[s] + down[s]) + part[s] = up[s] + down[s] + part[s] + 0
    BY <1>t, <1>e, <2>1
  <2>4. extra' = [t \in Tcp |-> IF t # s THEN extra[t] ELSE IF StillAllowed THEN 0 ELSE extra[t] + 0]
    <3>1. ASSUME NEW t \in Tcp
          PROVE  extra[t] = IF t # s THEN extra[t] ELSE IF StillAllowed THEN 0 ELSE extra[t] + 0
      BY <1>t DEF RelayInv, ExcessHeld
    <3> QED BY <1>t, <1>e, <3>1
  <2> QED BY <1>1, <1>e, <2>1, <2>2, <2>3, <2>4, TcpStep
<1>2. CASE s \in Dgram /\ open' = open \ {s} /\ UNCHANGED <<used, up, down, part, lost>>
  <2>2. StillAllowed' = StillAllowed
    BY <1>2, <1>e DEF StillAllowed, Ok
  <2> QED BY <1>t, <1>2, <1>e, <2>2, QuietInv DEF TypeOK
<1> QED BY <1>1, <1>2 DEF End

\* Every step of the relays and their accounting keeps RelayInv.
LEMMA RelayStep == RelayInv /\ [Next]_vars => RelayInv'
<1> SUFFICES ASSUME RelayInv, [Next]_vars PROVE RelayInv'
  OBVIOUS
<1>t. TypeOK /\ extra \in [Tcp -> Nat]
  BY DEF RelayInv, TypeOK
<1>1. ASSUME NEW state \in {"on", "off", "absent"}, Admin(state) PROVE RelayInv'
  BY <1>1, AdminInv
<1>2. CASE Expire
  <2>1. expired' \in BOOLEAN /\ (StillAllowed' => StillAllowed)
    BY <1>2 DEF Expire, StillAllowed, Ok
  <2> QED BY <1>2, <1>t, <2>1, QuietInv DEF Expire, TypeOK
<1>3. CASE Connect
  BY <1>3, <1>t, QuietInv DEF Connect, TypeOK, StillAllowed, Ok
<1>4. CASE SessionEnds
  BY <1>4, <1>t, QuietInv DEF SessionEnds, TypeOK, StillAllowed, Ok
<1>5. ASSUME NEW s \in Streams, OpenRelay(s) PROVE RelayInv'
  <2>1. StillAllowed' = StillAllowed
    BY <1>5 DEF OpenRelay, StillAllowed, Ok
  <2>2. extra' \in [Tcp -> Nat] /\ \A t \in Tcp : extra'[t] = 0 \/ extra'[t] = extra[t]
    BY <1>5, <1>t DEF OpenRelay
  <2>3. \A t \in Tcp \cap open' : t \in open \/ extra'[t] = 0
    BY <1>5 DEF OpenRelay
  <2> QED BY <1>5, <1>t, <2>1, <2>2, <2>3, QuietInv DEF OpenRelay, TypeOK
<1>6. ASSUME NEW s \in Streams, RevokeTick(s) \/ PeerEnds(s) PROVE RelayInv'
  BY <1>6, EndInv DEF RevokeTick, PeerEnds
<1>7. ASSUME NEW s \in Tcp, NEW k \in 1..MaxChunk, WritePart(s, k) \/ WriteRest(s, k) \/ SendDown(s, k)
      PROVE  RelayInv'
  <2>1. /\ up[s] \in Nat /\ down[s] \in Nat /\ part[s] \in Nat /\ up[s] < Flush /\ down[s] < Flush
        /\ up[s] \in 0..(Flush - 1) /\ down[s] \in 0..(Flush - 1) /\ part[s] \in 0..(MaxChunk - 1)
        /\ k \in Nat /\ k \in 0..MaxChunk /\ 0 \in 0..(MaxChunk - 1) /\ lost \in Nat /\ used \in Nat
    BY <1>t, RelayAssumption DEF TypeOK
  <2>2. CASE WritePart(s, k)
    <3>1. /\ Moving(s, k) /\ part[s] + k < MaxChunk /\ part' = [part EXCEPT ![s] = part[s] + k]
          /\ UNCHANGED <<st, expired, used, session, open, up, down, lost>>
      BY <2>2 DEF WritePart
    <3>2. /\ part[s] + k \in 0..(MaxChunk - 1)
          /\ up[s] + down[s] + (part[s] + k) + 0 + 0 = up[s] + down[s] + part[s] + k
      BY <2>1, <3>1, RelayAssumption
    <3>3. /\ s \in open /\ moved' = IF st = "absent" THEN moved ELSE moved + k
          /\ extra' = [t \in Tcp |-> IF t # s THEN extra[t] ELSE IF StillAllowed THEN 0 ELSE extra[t] + k]
      BY <3>1 DEF Moving
    <3>4. /\ used' = Counted(0) /\ lost' = IF st = "absent" THEN lost ELSE lost + 0
          /\ up' = [up EXCEPT ![s] = up[s]] /\ down' = [down EXCEPT ![s] = down[s]]
      BY <1>t, <2>1, <3>1 DEF Counted, TypeOK
    <3>5. UNCHANGED <<st, expired, session>> /\ open' = open /\ 0 \in Nat
      BY <3>1
    <3>6. PICK n \in Nat, l \in Nat, u \in 0..(Flush - 1), d \in 0..(Flush - 1), p \in 0..(MaxChunk - 1) :
              n = 0 /\ l = 0 /\ u = up[s] /\ d = down[s] /\ p = part[s] + k
      BY <2>1, <3>2
    <3>7. /\ u + d + p + n + l = up[s] + down[s] + part[s] + k
          /\ used' = Counted(n) /\ (lost' = IF st = "absent" THEN lost ELSE lost + l)
          /\ up' = [up EXCEPT ![s] = u] /\ down' = [down EXCEPT ![s] = d] /\ part' = [part EXCEPT ![s] = p]
          /\ \/ open' = open \ {s}
             \/ open' = open /\ l = 0 /\ (n = 0 \/ Ok(st, expired, used'))
      BY <3>1, <3>2, <3>4, <3>5, <3>6
    <3> QED BY <2>1, <3>3, <3>5, <3>7, TcpStep
  <2>3. CASE WriteRest(s, k)
    <3>1. Moving(s, k) /\ Gather(s, up[s] + part[s] + k, down[s], 0) /\ UNCHANGED <<st, expired, session>>
      BY <2>3 DEF WriteRest
    <3>2. /\ up[s] + part[s] + k \in Nat
          /\ up[s] + part[s] + k + down[s] + 0 = up[s] + down[s] + part[s] + k
      BY <2>1
    <3> QED BY <2>1, <3>1, <3>2, GatherInv
  <2>4. CASE SendDown(s, k)
    <3>1. Moving(s, k) /\ Gather(s, up[s], down[s] + k, part[s]) /\ UNCHANGED <<st, expired, session>>
      BY <2>4 DEF SendDown
    <3>2. /\ down[s] + k \in Nat
          /\ up[s] + (down[s] + k) + part[s] = up[s] + down[s] + part[s] + k
      BY <2>1
    <3> QED BY <2>1, <3>1, <3>2, GatherInv
  <2> QED BY <1>7, <2>2, <2>3, <2>4
<1>8. ASSUME NEW s \in Dgram, NEW k \in 1..MaxChunk, MoveDgram(s, k) PROVE RelayInv'
  BY <1>8, MoveDgramInv
<1>9. CASE UNCHANGED vars
  BY <1>9, <1>t, QuietInv DEF vars, TypeOK, StillAllowed, Ok
<1> QED BY <1>1, <1>2, <1>3, <1>4, <1>5, <1>6, <1>7, <1>8, <1>9 DEF Next

-----------------------------------------------------------------------------

\* The state of every session is well typed; a relay's counters stay below
\* FLUSH between two chunks.
THEOREM RelayTypeCorrect == Spec => []TypeOK
<1>1. RelayInv => TypeOK
  BY DEF RelayInv
<1> QED BY RelayStarts, RelayStep, <1>1, PTL DEF Spec

\* Usage accounting (relay_stream's flushes, relay_datagram, relay_icmp): no
\* relayed byte of an existing user is counted twice, and none is lost but
\* what had gone out of a chunk whose write its relay's end cut off, whatever
\* the number of relays, the chunk sizes and the way relays end.
THEOREM EveryByteCharged == Spec => []EveryByteAccounted
<1>1. RelayInv => EveryByteAccounted
  BY DEF RelayInv
<1> QED BY RelayStarts, RelayStep, <1>1, PTL DEF Spec

\* A TCP relay of a revoked user moves less than two flushes and two chunks
\* before the check at a flush ends it, timers apart.
THEOREM RevokedRelayStops == Spec => []OverrunBounded
<1>1. RelayInv => OverrunBounded
  BY DEF RelayInv
<1> QED BY RelayStarts, RelayStep, <1>1, PTL DEF Spec
=============================================================================
