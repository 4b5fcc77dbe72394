---------------------------- MODULE MuxLifecycle ----------------------------
(***************************************************************************)
(* The life of one leshiy-core mux between a client that may be suspended  *)
(* (a phone) and a server: Noise handshake (session.rs), HELLO exchange    *)
(* (version.rs), the reader, writer, keepalive and watchdog tasks, open    *)
(* and accept, and the teardown (mux.rs).  MuxFlow has what happens on an  *)
(* open stream.                                                            *)
(*                                                                         *)
(* Time is counted in ticks.  One passes only when no task of an endpoint  *)
(* that is awake can take a step: steps are much shorter than a tick.      *)
(* While an endpoint sleeps its tasks stand still and its monotonic timers *)
(* stop; the wall clock does not.                                          *)
(***************************************************************************)
EXTENDS Naturals, Sequences, SequencesExt, FiniteSets

CONSTANTS
    Hellos,         \* the pairs of configurations, one per endpoint
    Period,         \* ticks between two Pings: more than 15 s by the wall clock, looked at every 2 s
    DefaultTolerance, MinTolerance, MaxTolerance,   \* version.rs, in ticks
    QueueCap,       \* slots of the command queue (256)
    LinkCap,        \* frames the transport holds in one direction
    Backlog,        \* streams waiting for accept (32)
    MaxPeerStreams, \* MAX_CONCURRENT_PEER_STREAMS (1024)
    None,
    MaxOpens, MaxSleep  \* bounds: opens, ticks asleep

Ends == {"client", "server"}
HelloRecords == [major : Nat, version : Nat, min : Nat, caps : SUBSET STRING, tolerance : Nat]

ASSUME LifecycleAssumption ==
    /\ Hellos \subseteq [Ends -> HelloRecords]
    /\ None \notin HelloRecords
    /\ Period \in Nat \ {0}
    /\ DefaultTolerance \in Nat /\ MinTolerance \in Nat \ {0} /\ MaxTolerance \in Nat
    /\ MinTolerance <= DefaultTolerance /\ DefaultTolerance <= MaxTolerance
    /\ QueueCap \in Nat \ {0} /\ LinkCap \in Nat \ {0} /\ Backlog \in Nat \ {0}

VARIABLES
    m,          \* per endpoint, its mux
    wire,       \* per endpoint, the frames on their way to it
    fin,        \* endpoints whose transport the peer has dropped
    cut,        \* the link swallows everything (no FIN, no RST)
    awake,      \* the client is not suspended
    mute,       \* ticks asleep since the client last wrote a frame
    slept,      \* history: the largest value of mute
    jam         \* history: both readers waited for a command slot at once

lifecycleVars == <<m, wire, fin, cut, awake, slept, mute, jam>>
world == <<cut, awake, mute, slept>>

Peer(e) == IF e = "client" THEN "server" ELSE "client"
Running(e) == e = "server" \/ awake

\* Hello: version range, capabilities, requested tolerance; major is the
\* protocol epoch bound into the Noise prologue.
LifecycleInit ==
    /\ \E h \in Hellos :
         m = [e \in Ends |-> [phase |-> "noise", hello |-> h[e], peer |-> None, tol |-> 0, grace |-> 0,
                        reader |-> "off", rwait |-> None, writer |-> "off",
                        cmd |-> <<>>, open |-> FALSE, streams |-> {}, incoming |-> <<>>,
                        handles |-> {}, released |-> {}, opening |-> None, next |-> 0,
                        closed |-> FALSE, tearing |-> FALSE, aborted |-> FALSE,
                        silent |-> 0, mono |-> 0, ping |-> Period]]
    /\ wire = [e \in Ends |-> <<>>] /\ fin = {}
    /\ cut = FALSE /\ awake = TRUE /\ slept = 0 /\ mute = 0 /\ jam = FALSE

-----------------------------------------------------------------------------
(* Session::connect / accept, then the HELLO exchange of                   *)
(* start_with_keepalive.                                                   *)

ClampTolerance(t) == IF t < MinTolerance THEN MinTolerance
                     ELSE IF t > MaxTolerance THEN MaxTolerance ELSE t

Compatible(l, p) ==
    LET v == IF l.version < p.version THEN l.version ELSE p.version
    IN  v >= l.min /\ v >= p.min

Caps(e) == IF m[e].peer = None THEN {} ELSE m[e].hello.caps \cap m[e].peer.caps
Keepalive(e) == "keepalive" \in Caps(e)

\* negotiate: what `l' tolerates of the silence of `p' is what `p' asked for,
\* if both understand the field.
Tolerance(l, p) ==
    IF "idle" \in l.caps \cap p.caps THEN ClampTolerance(p.tolerance) ELSE DefaultTolerance

\* Hello::decode: a peer that predates the field is read as the default.
HelloDecode(h) == IF "idle" \in h.caps THEN h ELSE [h EXCEPT !.tolerance = DefaultTolerance]

\* write_frame / read_frame over the sealed transport: whole frames, in order.
Send(e, f) == wire' = [wire EXCEPT ![Peer(e)] = Append(@, f)]
Recv(e, t) ==
    /\ wire[e] # <<>> /\ ~cut /\ Head(wire[e]).type = t
    /\ wire' = [wire EXCEPT ![e] = Tail(@)]
Fail(e) ==
    /\ m' = [m EXCEPT ![e].phase = "failed", ![e].closed = TRUE]
    /\ fin' = fin \cup {Peer(e)}

\* The prologue binds the major: a mismatch fails the responder's MAC.
NoiseStart ==
    /\ m["client"].phase = "noise" /\ awake
    /\ Send("client", [type |-> "msg1", major |-> m["client"].hello.major])
    /\ m' = [m EXCEPT !["client"].phase = "msg2"]
    /\ UNCHANGED <<fin, jam>> /\ UNCHANGED world

NoiseAccept ==
    /\ m["server"].phase = "noise" /\ Recv("server", "msg1")
    /\ IF Head(wire["server"]).major = m["server"].hello.major
         THEN m' = [m EXCEPT !["server"].phase = "msg2"] /\ UNCHANGED fin
         ELSE Fail("server")
    /\ UNCHANGED jam /\ UNCHANGED world

NoiseReply ==
    /\ m["server"].phase = "msg2"
    /\ Send("server", [type |-> "msg2"])
    /\ m' = [m EXCEPT !["server"].phase = "hello"]
    /\ UNCHANGED <<fin, jam>> /\ UNCHANGED world

NoiseDone ==
    /\ m["client"].phase = "msg2" /\ awake /\ Recv("client", "msg2")
    /\ m' = [m EXCEPT !["client"].phase = "hello"]
    /\ UNCHANGED <<fin, jam>> /\ UNCHANGED world

\* Both sides write before they read.
HelloWrite(e) ==
    /\ m[e].phase = "hello" /\ Running(e)
    /\ Send(e, [type |-> "hello", hello |-> m[e].hello])
    /\ m' = [m EXCEPT ![e].phase = "answer"]
    /\ UNCHANGED <<fin, jam>> /\ UNCHANGED world

HelloRead(e) ==
    /\ m[e].phase = "answer" /\ Running(e) /\ Recv(e, "hello")
    /\ LET l == m[e].hello
           p == HelloDecode(Head(wire[e]).hello)
       IN  IF Compatible(l, p)
             THEN /\ m' = [m EXCEPT ![e].phase = "up", ![e].peer = p,
                              ![e].tol = Tolerance(l, p), ![e].grace = Tolerance(p, l),
                              ![e].reader = "run", ![e].writer = "run", ![e].open = TRUE]
                  /\ UNCHANGED fin
             ELSE Fail(e)
    /\ UNCHANGED jam /\ UNCHANGED world

\* HANDSHAKE_TIMEOUT, the timeout around the HELLO, or a transport that is gone.
StartFails(e) ==
    /\ m[e].phase \in {"msg2", "hello", "answer"} \/ (e = "server" /\ m[e].phase = "noise")
    /\ Running(e) /\ (cut \/ (e \in fin /\ wire[e] = <<>>))
    /\ Fail(e) /\ UNCHANGED <<wire, jam>> /\ UNCHANGED world

-----------------------------------------------------------------------------
(* The streams' registry and the tasks.  A mux that is torn down releases  *)
(* the send window of every stream it knows.                               *)

Up(e) == m[e].phase = "up" /\ Running(e)
Slot(e) == m[e].open /\ Len(m[e].cmd) < QueueCap
CloseAll(r) == [r EXCEPT !.released = @ \cup r.streams, !.streams = {}]
Command(t, id) == [type |-> t, id |-> id]

\* Mutant: the wall clock is stamped by the application's frames only.
ReaderStampsOpens(e) ==
    [m[e] EXCEPT !.silent = IF Head(wire[e]).type = "open" THEN 0 ELSE @, !.mono = 0]

\* Any frame restarts the wall clock and the read timer.
ReaderStamps(e) == [m[e] EXCEPT !.silent = 0, !.mono = 0]

\* reader: one frame off the wire.
ReaderTake(e) ==
    /\ Up(e) /\ m[e].reader = "run" /\ m[e].rwait = None
    /\ wire[e] # <<>> /\ ~cut
    /\ wire' = [wire EXCEPT ![e] = Tail(@)]
    /\ LET f == Head(wire[e])
           r == ReaderStamps(e)
           abort == Cardinality(r.streams) >= MaxPeerStreams
       IN  m' = [m EXCEPT ![e] =
             CASE f.type = "ping"  -> [r EXCEPT !.rwait = Command("pong", 0)]
               [] f.type = "open"  -> IF abort THEN [r EXCEPT !.reader = "stop", !.aborted = TRUE]
                                      ELSE [r EXCEPT !.streams = @ \cup {f.id}, !.rwait = f]
               [] OTHER            -> r]
    /\ UNCHANGED <<fin, jam>> /\ UNCHANGED world

\* ... and waits: for a command slot with its Pong (a queue that is closed
\* takes it as well: the error is ignored), for the accept queue with a
\* stream.
ReaderQueue(e) ==
    /\ Up(e) /\ m[e].reader = "run" /\ m[e].rwait # None
    /\ LET f == m[e].rwait
       IN  IF f.type = "pong"
             THEN /\ Slot(e) \/ ~m[e].open
                  /\ m' = [m EXCEPT ![e].rwait = None,
                             ![e].cmd = IF m[e].open THEN Append(@, f) ELSE @]
             ELSE /\ Len(m[e].incoming) < Backlog
                  /\ m' = [m EXCEPT ![e].rwait = None, ![e].incoming = Append(@, f.id)]
    /\ UNCHANGED <<wire, fin, jam>> /\ UNCHANGED world

\* With keepalive no frame came within the tolerance: the timer of the read.
TimedOut(e) == m[e].rwait = None /\ Keepalive(e) /\ m[e].mono >= m[e].tol

\* The read fails (EOF) or times out, or the closed flag cancels the loop
\* wherever it waits.
ReaderStops(e) ==
    /\ Up(e) /\ m[e].reader = "run"
    /\ \/ m[e].closed
       \/ m[e].rwait = None /\ e \in fin /\ wire[e] = <<>> /\ ~cut
       \/ TimedOut(e)
    /\ m' = [m EXCEPT ![e].reader = "stop"]
    /\ UNCHANGED <<wire, fin, jam>> /\ UNCHANGED world

ReaderCloses(e) ==
    /\ Up(e) /\ m[e].reader \in {"stop", "close"}
    /\ m' = [m EXCEPT ![e] = IF m[e].reader = "stop"
                THEN [CloseAll(m[e]) EXCEPT !.reader = "close", !.rwait = None]
                ELSE [m[e] EXCEPT !.reader = "ended", !.closed = TRUE]]
    /\ UNCHANGED <<wire, fin, jam>> /\ UNCHANGED world

\* writer: an Open registers its stream, then the frame is written; the command being written still counts as queued.
WriterPut(e) ==
    /\ Up(e) /\ m[e].writer = "run" /\ m[e].cmd # <<>> /\ (e \in fin => cut)
    /\ Len(wire[Peer(e)]) < LinkCap
    /\ LET f == Head(m[e].cmd)
           r == [m[e] EXCEPT !.cmd = Tail(@)]
       IN  /\ Send(e, f)
           /\ m' = [m EXCEPT ![e] = IF f.type = "open"
                                    THEN [r EXCEPT !.streams = @ \cup {f.id}] ELSE r]
    /\ mute' = IF e = "client" THEN 0 ELSE mute
    /\ UNCHANGED <<fin, jam, cut, awake, slept>>

\* The closed flag or a failed write ends the loop and closes the queue.
WriterStops(e) ==
    /\ Up(e) /\ m[e].writer = "run"
    /\ m[e].closed \/ (e \in fin /\ ~cut /\ m[e].cmd # <<>>)
    /\ m' = [m EXCEPT ![e].writer = "drain", ![e].open = FALSE]
    /\ UNCHANGED <<wire, fin, jam>> /\ UNCHANGED world

\* Mutant: the queue is dropped as it is.
WriterDrops(e) ==
    /\ Up(e) /\ m[e].writer = "drain"
    /\ m' = [m EXCEPT ![e] = [CloseAll(m[e]) EXCEPT
               !.cmd = <<>>, !.writer = "ended", !.closed = TRUE]]
    /\ fin' = fin \cup {Peer(e)}
    /\ UNCHANGED <<wire, jam>> /\ UNCHANGED world

\* Queued opens are not registered yet but have a send window: released too.
WriterDrains(e) ==
    /\ Up(e) /\ m[e].writer = "drain"
    /\ LET queued == {f.id : f \in {g \in Range(m[e].cmd) : g.type = "open"}}
       IN  m' = [m EXCEPT ![e] = [CloseAll(m[e]) EXCEPT
                   !.released = @ \cup queued, !.cmd = <<>>, !.writer = "ended", !.closed = TRUE]]
    /\ fin' = fin \cup {Peer(e)}
    /\ UNCHANGED <<wire, jam>> /\ UNCHANGED world

\* keepalive task: a Ping as soon as the session is up, and once the wall clock
\* puts the last a period back; its age counts from when it got its slot.
PingDue(e) == Up(e) /\ Keepalive(e) /\ ~m[e].closed /\ m[e].ping >= Period /\ Slot(e)
KeepalivePing(e) ==
    /\ PingDue(e)
    /\ m' = [m EXCEPT ![e].cmd = Append(@, Command("ping", 0)), ![e].ping = 0]
    /\ UNCHANGED <<wire, fin, jam>> /\ UNCHANGED world

\* Mutant: the watchdog goes by the monotonic clock.
MonotonicStale(e) == m[e].mono > m[e].grace

WallClockStale(e) == m[e].silent > m[e].grace

\* suspend_watchdog: the streams first, then the flag.
WatchdogDue(e) == Up(e) /\ Keepalive(e) /\ ~m[e].closed /\ (m[e].tearing \/ WallClockStale(e))
Watchdog(e) ==
    /\ WatchdogDue(e)
    /\ m' = [m EXCEPT ![e] = IF m[e].tearing THEN [m[e] EXCEPT !.closed = TRUE]
                             ELSE [CloseAll(m[e]) EXCEPT !.tearing = TRUE]]
    /\ UNCHANGED <<wire, fin, jam>> /\ UNCHANGED world

-----------------------------------------------------------------------------
(* The applications: Mux::open and accept.                                 *)

\* Only clients open streams: a server serves what it accepts.
Open(e) ==
    /\ e = "client" /\ Up(e) /\ m[e].opening = None /\ m[e].next < MaxOpens
    /\ m' = [m EXCEPT ![e].opening = <<e, m[e].next>>, ![e].next = @ + 1]
    /\ UNCHANGED <<wire, fin, jam>> /\ UNCHANGED world

OpenReturns(e) ==
    /\ Up(e) /\ m[e].opening # None
    /\ LET id == m[e].opening
       IN  \/ /\ Slot(e)
              /\ m' = [m EXCEPT ![e].opening = None, ![e].handles = @ \cup {id},
                                ![e].cmd = Append(@, Command("open", id))]
           \/ /\ ~m[e].open
              /\ m' = [m EXCEPT ![e].opening = None]
    /\ UNCHANGED <<wire, fin, jam>> /\ UNCHANGED world

Accept(e) ==
    /\ Up(e) /\ m[e].incoming # <<>>
    /\ m' = [m EXCEPT ![e].handles = @ \cup {Head(m[e].incoming)}, ![e].incoming = Tail(@)]
    /\ UNCHANGED <<wire, fin, jam>> /\ UNCHANGED world

-----------------------------------------------------------------------------
(* The world: the link dies silently, the client is suspended, time.       *)

Cut ==
    /\ ~cut /\ cut' = TRUE /\ \E e \in Ends : ~m[e].closed
    /\ UNCHANGED <<m, wire, fin, awake, slept, mute, jam>>

\* Both readers wait with a Pong that does not fit.
Jammed == \A e \in Ends : /\ m[e].reader = "run" /\ m[e].rwait # None
                          /\ m[e].rwait.type = "pong" /\ ~Slot(e)

\* A task of e that is awake has something to do.
Busy(e) ==
    /\ Up(e)
    /\ \/ m[e].reader = "run" /\ m[e].rwait = None /\ wire[e] # <<>> /\ ~cut
       \/ /\ m[e].rwait # None /\ m[e].reader = "run"
          /\ IF m[e].rwait.type = "pong" THEN Slot(e) \/ ~m[e].open
             ELSE Len(m[e].incoming) < Backlog
       \/ /\ m[e].reader = "run"
          /\ \/ m[e].closed
             \/ m[e].rwait = None /\ e \in fin /\ wire[e] = <<>> /\ ~cut
             \/ TimedOut(e)
       \/ m[e].reader \in {"stop", "close"} \/ m[e].writer = "drain"
       \/ /\ m[e].writer = "run"
          /\ m[e].closed \/ (m[e].cmd # <<>> /\ IF e \in fin /\ ~cut THEN TRUE
                                               ELSE Len(wire[Peer(e)]) < LinkCap)
       \/ m[e].incoming # <<>> \/ PingDue(e) \/ WatchdogDue(e)
       \/ m[e].opening # None /\ (Slot(e) \/ ~m[e].open)

\* A wake lasts at least until the tasks have done what they can; one sleep
\* of a tick or more.
Sleep ==
    /\ awake /\ m["client"].phase = "up" /\ ~Busy("client") /\ slept = 0
    /\ awake' = FALSE
    /\ UNCHANGED <<m, wire, fin, cut, mute, slept, jam>>

Wake ==
    /\ ~awake /\ awake' = TRUE
    /\ UNCHANGED <<m, wire, fin, cut, mute, slept, jam>>

MaxTime == MaxTolerance + 2
Inc(n) == IF n < MaxTime THEN n + 1 ELSE n
Older(n) == IF n < Period THEN n + 1 ELSE n

\* Once both ends know the session is over its clocks do not matter.
Tick ==
    /\ \A e \in Ends : ~Busy(e) /\ (m[e].phase \in {"up", "failed"})
    /\ ~awake => mute < MaxSleep
    /\ \E e \in Ends : ~m[e].closed
    /\ m' = [e \in Ends |-> IF m[e].closed THEN m[e]
                             ELSE [m[e] EXCEPT !.silent = Inc(@), !.ping = Older(@),
                                     !.mono = IF Running(e) THEN Inc(@) ELSE @]]
    /\ mute' = IF awake THEN mute ELSE mute + 1
    /\ slept' = IF ~awake /\ mute + 1 > slept THEN mute + 1 ELSE slept
    /\ jam' = (jam \/ Jammed)
    /\ UNCHANGED <<wire, fin, cut, awake>>

Tasks(e) ==
    \/ HelloWrite(e) \/ HelloRead(e) \/ StartFails(e)
    \/ ReaderTake(e) \/ ReaderQueue(e) \/ ReaderStops(e) \/ ReaderCloses(e)
    \/ WriterPut(e) \/ WriterStops(e) \/ WriterDrains(e)
    \/ KeepalivePing(e) \/ Watchdog(e)
    \/ OpenReturns(e) \/ Accept(e)

Handshake == NoiseStart \/ NoiseAccept \/ NoiseReply \/ NoiseDone

LifecycleNext ==
    \/ Handshake
    \/ \E e \in Ends : Tasks(e) \/ Open(e)
    \/ Cut \/ Sleep \/ Wake \/ Tick

LifecycleSpec == LifecycleInit /\ [][LifecycleNext]_lifecycleVars

-----------------------------------------------------------------------------
(* Properties.                                                             *)

\* "no stream is left hanging": an end whose session is over and whose tasks
\* have nothing left to do has ended both loops, however they waited; no open
\* is still waiting, and every stream its application holds has its send
\* window released, also one that was still queued, arrived, or was
\* registered while another task was already tearing the session down.
NothingLeftHanging ==
    \A e \in Ends : Up(e) /\ m[e].closed /\ ~Busy(e) =>
        /\ m[e].reader = "ended" /\ m[e].writer = "ended"
        /\ m[e].opening = None /\ m[e].streams = {} /\ m[e].handles \subseteq m[e].released

\* Nobody cut the link, the readers never blocked each other, and both ends
\* came up.
Undisturbed(e) == ~cut /\ ~jam /\ m[Peer(e)].phase # "failed"
\* How long one end may not hear the other: the sleep, and the period of the
\* Pings in which it began.
Silence == slept + Period
\* It reaches what a clock of the server waits.
UsedUp == m["server"].phase = "up" /\ (Silence >= m["server"].tol \/ Silence >= m["server"].grace)

\* An undisturbed session is declared dead only when the client's sleep,
\* together with one ping period, reaches what a clock of the server waits (the
\* timer of its reader, the wall clock of its watchdog): traffic, a full queue
\* or the order of the tasks never kill it, a shorter sleep neither, and with
\* no sleep only a tolerance that the period alone uses up, as the floor of
\* 15 s does.
NoSpuriousDeath ==
    \A e \in Ends : m[e].phase = "up" /\ m[e].closed /\ Undisturbed(e) =>
        UsedUp \/ \E x \in Ends : m[x].aborted

\* client.rs: "a phone that sleeps under ten minutes keeps its tunnel
\* outright, rather than being torn down at 45s": an undisturbed session
\* outlives every sleep the server granted in the HELLO.
SleepTolerated ==
    \A e \in Ends : m[e].phase = "up" /\ m[e].closed /\ Undisturbed(e) =>
        Silence >= m["server"].tol \/ \E x \in Ends : m[x].aborted

\* An awake client does not go on using a session beyond the silence its
\* server agreed to in its own negotiation: the wall clock shows it after a
\* sleep, and both ends computed the same tolerance from what they exchanged.
GivenUpNoticed ==
    LET c == m["client"] IN
    Up("client") /\ Keepalive("client") /\ ~c.closed /\ ~Busy("client") /\ m["server"].phase = "up"
        => c.silent <= m["server"].tol
=============================================================================
