# A TLA+ verification of leshiy

leshiy is a censorship-resistant tunnel: a client carries application traffic over REALITY (a
TLS 1.3 session that borrows the face of a real site) or QUIC to a server that relays it. This
directory holds TLA+ models of the parts of leshiy whose correctness depends on the order in which
things happen, the TLC configurations that check them, and TLAPS proofs of the properties that
matter most. Every module is translated from the Rust source; `PROJECT.json` ("map") names the
lines of each definition.

Check a run with `tlc -config <run>.cfg <module>` (the pairs are listed under "Runs") and a proof
with `tlapm <module>Proofs.tla`.

## 1. Inventory

The system is a Rust workspace (`crates/`) with a desktop application (`apps/gui`) and an Android
application (`apps/android`).

| Part | State it keeps | Operations | What makes it hard | Correct when |
|---|---|---|---|---|
| **Client supervisor** (`leshiy-client` supervisor.rs, runtime.rs) | machine state, generation, dial handle, tunnel, proxy flag | connect, disconnect, connectivity, dial results, timers, drops | late messages of aborted tasks; failing proxy calls; lossy command channel | never stranded, one session at a time, OS proxy agrees with what the user sees |
| **Reconnecting tunnel** (reconnect.rs) | published tunnel, watched tunnel, kick permit | open (TCP/UDP/ICMP), supervise, kick | opens race replacements and deadlines | no wake-up is missed, opens end, deaths and network changes lead to a new tunnel |
| **Mux** (`leshiy-core` mux.rs) | stream registry, send windows, channels, queues | open, accept, send, recv, close, keepalive, teardown | shared bounded queues, cancellation, slow consumers | order and credit are kept, streams are isolated, everybody ends with the session |
| **Dialing** (adapter/dial.rs) | a pre-warmed dial | QUIC first, REALITY after a head start | timeout against late answers | no reachable transport is missed, no connection leaks |
| **Privileged helper** (`leshiy-helper`) | engine slot behind a mutex, worker, published state, subscriptions | StartVpn, Stop, Shutdown, GetStatus, Subscribe | one task per connection; clients die; ephemeral exit | one engine, always stoppable, network restored |
| **TUN engine** (`leshiy-tun`) | device, routes, DNS, resolver's routes, flow permits | run, reattach, cancel, resolve | teardown order; resolver against teardown | everything installed is removed |
| **User store and control socket** (`leshiy-reality` user.rs, sqlite_store.rs, control.rs) | users in memory and in sqlite, counters | add, update, enable, disable, remove, reset, flush | two copies, unordered requests, crashes | copies agree, bans hold, usage is right |
| **REALITY front** (server.rs, auth.rs, replay.rs, connlimit.rs, acceptloop.rs) | replay guard, admission counters | accept, classify, take over or relay to the site | limits, timeouts, replay window | an unauthorized peer always gets the real site; slots are returned |
| **Relays** (server.rs, egress.rs) | per-relay byte counters | relay_stream, relay_datagram, relay_icmp | revocation of a live session, batching | every byte accounted for, revoked relays cut |
| **QUIC and connector** (`leshiy-quic`) | shared connection of the connector | open, invalidate, reconnect | concurrent failures on one connection | a healthy connection is not thrown away |
| **Provisioning** (`leshiy-provision`) | vault, container on a remote host | provision, upgrade with rollback, teardown | the connection drops between steps | the record describes what runs |
| **Mobile bridge** (`leshiy-mobile`) | one running session, pending fd, signals | start, stop, reattach, network_changed | calls from Android threads | signals are not lost, no fd leaks or is closed under its user |
| **Desktop application** (apps/gui/src-tauri) | mode, settings, helper handle, proxy marker | connect, disconnect, tray, quit | mode changes under a session; crash | stop reaches the backend that runs |
| Rules and plans (version.rs, split_tunnel.rs, route_plan.rs) | none | negotiate, merge, plan | boundaries between families and directions | what is used is what both ends, or the user, asked for |
| **REALITY handshake, MTProxy** (`leshiy-tls`, tunnel.rs, mtproxy) | keys, transcripts | hello, verify, steal, finish | the borrowed site answers like the server | a client is never fooled, keys agree |
| CLI wizards, settings files, user interfaces | | | byte formats and presentation | not a matter of interleaving |

How they interact: the desktop application drives the supervisor (proxy mode) by commands and the
helper (VPN mode) by requests on a socket; the helper and the mobile bridge run the TUN engine over
a reconnecting tunnel; supervisor and reconnecting tunnel dial a transport whose streams are mux
streams; on the server the front authorizes against the user store and hands mux streams to relays,
which report usage to the store; admins change the store through the control socket.

`PROJECT.json` lists every part ("components") and every place where the code is exposed to an
order of events nobody would test ("hazards"), with the properties that watch it.

## 2. Plan

The order of construction was: supervisor, mux flow control, user store, relays, helper,
reconnecting tunnel; then the life of a mux, dialing, the server's fronts with their egress, the TUN
engine with the mobile bridge, provisioning, and the application over all of them. Abstract
specifications carry the composition: **ProxySession** (what a supervisor promises, used by
ProxyApp), **CreditWindow** (the byte accounting of a stream, implemented by MuxFlow), and **Helper**
and **ReconnectingTunnel**, which DesktopApp and DialedTunnel refine.

What is left, most important first:

1. Settings, profiles and the refresh of rule subscriptions in the application; mode changes under a
   running session.
2. The SOCKS front end of the REALITY client (UDP association against its control connection).

## 3. Modules

Each component has a module `X`; `MCX` instantiates what a run explores. What is proved is in eight
modules, one for each group of components that are proved together: **SupervisorProofs**,
**DialedTunnelProofs** (with ReconnectingTunnel), **MuxProofs** (MuxFlow with CreditWindow, and MuxLifecycle),
**ServerProofs** (ServerFront, Egress, QuicFront and RelaySession), **UserStoreProofs**, **TunProofs**
(TunEngine under MobileBridge), **DesktopAppProofs** (with Helper, ProxyApp and AndroidSession) and
**ProvisionProofs**. Operators marked "Mutant" are deliberately wrong versions of the definition that follows;
they are part of no specification and show that a property notices.

### Client

**Supervisor** models `Machine` (state, kill_switch, proxy_set, online) and the actor around it
(generation, dial, current, serving, the watch channel) with its channels: `cmds` (bounded, lossy),
`results`, `timers`, `drops`. One action per select! arm (RecvCommand, RecvDial, RecvBackoff,
RecvDropped, RecvClosed); an arm contains everything `apply` does for the actions of the transition,
including a failing listener or proxy call and the ServiceFailed transition it causes
(AfterFailedClear and AfterFailedSet: what half-run gsettings, networksetup or registry calls leave).
Aborted tasks may have delivered already, so their messages stay. Time is a timer that may fire at
any moment. **ProxySession** is the abstract promise (published state, kill switch and OS proxy);
Supervisor implements it.

**ReconnectingTunnel**: the supervise task, the watch channel with its per-receiver "changed", the
kick's stored permit, and the open loop. A poll of its biased select is two steps, because the task
may publish from another thread between looking at the channel and looking at the open. `owed` is
history. **DialedTunnel** puts the real dial below it: the route a URI and a preference select, a
REALITY attempt under its timeout, QUIC over the resolved addresses under its own, and the race in
which REALITY is warmed up behind QUIC and awaited or aborted. The network (`up`) changes at any time.

### Mux

**CreditWindow** is the abstract byte accounting of one flow-controlled stream (constants in
**WindowConstants**). **MuxFlow** is the mechanism: send (acquire_credit, then the queue), both
writers and readers, the per-stream channel, recv with its threshold, cancellation and deferred
grant, close, reset and dropped handles, for several streams over shared queues. A chunk is its
length. MuxFlow implements CreditWindow for each stream as long as the stream is whole.

**MuxLifecycle** is the life of a session between a client that may be suspended and a server: Noise
handshake with the bound epoch, HELLO and the negotiation of version, capabilities and tolerance,
reader, writer, keepalive and watchdog tasks, open, accept, the backlog and the cap on peer streams,
abort and teardown. Time is counted in ticks, several to a ping period, and passes only when no awake
task can take a step. `cut` is a link that swallows everything; `jam` records that both readers waited for a command
slot at once, which a timeout ends.

### Server

**ServerFront** is the TCP front: accept loop and backoff, admission counters, first record,
classification, replay guard, mirroring to the borrowed site, takeover of REALITY and MTProxy
clients, and the peers themselves (clients with a skewed clock or an old key, Telegram clients,
browsers, replayed hellos). It works on **RealityTls**, the handshake as terms: a key is named by who
drew it, a derivation is a term over its inputs, opening succeeds exactly with the key, sequence
number and associated data of the sealing. **Egress** has the network guard's check of every resolved
address, the attempts in order, and the connector's shared connection with its mutex, invalidation
and one retry. **QuicFront** composes them with the QUIC server: admission, requests, authentication
or masquerade, CONNECT and datagram flows with the registries at both ends, idle timeout. The borrowed
site's flight is a valid TLS flight with a certificate and a Finished of its own; only the HMAC in the
server's certificate tells the two apart. A relay is a task of its own: when its session ends, the
open it is waiting for goes on and its answer is taken by an orphan (OrphanEnds).

**RelaySession**: one authorized session, relays of both kinds, chunks gathered to FLUSH per
direction, the periodic re-check, the final flush, and the admin and the clock changing the user at
any time. A write to the upstream is several steps (WritePart, WriteRest): the select's other arm, or an
error, may end the relay with part of a chunk out, which is then in `lost` and never counted. `moved`,
`extra` and `lost` are history.

**UserStore**: `mem` and `db` rows, one record per running control request with its remaining half,
the flusher's snapshot, failing statements and restarts. The caps, expiry and rates of a definition
are one abstract value. Requests are concurrent, as the control socket's connections are; memory is
changed under its lock, the statements reach the table in any order. History: `behind` (the statements
of the same user that were pending when a request changed memory), `astray` (users of whom a statement
failed or overtook another), `bans` and `banned`, `total`.

### Engine, helper, application

**SplitPlan** turns rule texts and subscriptions into a split plan and a batch of routes.
**TunEngine** runs a session on one of the operating systems: start with its teardown guard, default
override, resolver setting, Windows' name-resolution policy and IPv6 switch, flows under the cap, and
the domain resolver as a second task. A step is what a task does between two suspension points: routes
are added one by one (AddRoute), each may fail, and where the code awaits them a start may be dropped
between two; an awaited OS call of the resolver is two steps (the kernel acts, the answer is seen), so
an abort can fall between them. Every command of a teardown guard may fail; `missed` and `unchecked`
remember the failures the code passes over. **MobileBridge** adds Android: LeshiyBridge's
calls, the descriptor slot, the dial loop, resolution through the tunnel, and LeshiyVpnService.

**Helper**: the serve loop, one task per connection (`st`), EngineRunner's slot and mutex, the worker
(prepare, up, teardown, ended), Notify permits that are stored or not, and the two kinds of clients:
the application (Subscribe, then StartVpn, Shutdown) and `leshiy vpn` (StartVpn, Subscribe, Stop on
an interrupt). Clients crash; `hears` says whether the host reports the end of their connections (on
Windows it may go unnoticed). An ephemeral helper exits and is launched again; an exit restores
nothing, and `left` says under what kind of session it happened (`late`: accepted with the exit already
on its way; "torn": any other).
**DesktopApp** composes it with what the application does around it (elevation prompt, polling,
the handle a disconnect takes, subscribe before start, quit), with **AndroidSession** (the in-process session of the Tauri
application with its reconnect loop) and with **ProxyApp** (window, tray, supervisor as ProxySession,
the `.proxy-active` marker, quit, crash and launch).

**Provision**: the managers' records and backups, the host's containers, volume and Docker daemon,
and each operation as its sequence of commands over SSH; a command may fail, the connection may break
before or while it runs, the operator's process may die between two. A container carries the
environment (`LESHIY_LISTEN`, `LESHIY_MTPROXY`) that entrypoint.sh makes a config from when the volume
has none, and an upgrade carries it over. A read of the config or of the volume that fails answers "none",
as in the code. `truthful`, `live`, `deleted` and a container's `blind` (its port was chosen without a
config to read, or over a read that failed) are history. Operations of the two managers alternate but
do not overlap: what two operators do to one host at the same time is left out.

## 4. Runs

| Run | Module, configuration | Shows |
|---|---|---|
| supervisor | MCSupervisor, Supervisor.cfg | two command slots, six outside events: nobody waits for nothing, the kill switch holds, ProxySession is implemented, disconnects take effect |
| mux_flow | MCMuxFlow, MuxFlow.cfg | two streams over one-slot queues, one consumer may stop for ever: order, CreditWindow, isolation, senders return |
| mux_lifecycle | MCMuxLifecycle, MuxLifecycle.cfg | handshakes that agree and do not, an open, a cut, a sleep: nothing is left hanging, a session dies only when sleep and ping period use up what the server waits, a client notices that it was given up |
| mux_sleep (violation) | MCMuxLifecycle, MuxSleep.cfg | finding 1 |
| server_front | MCServerFront, ServerFront.cfg | several scenarios of peers on TCP and QUIC: no hello is taken over twice, no client is fooled, the connector's retry is on a fresh connection, slots and flows are released |
| relay | MCRelaySession, Relay.cfg | two TCP relays and a datagram relay around the cap and a revocation, writes cut off half-way: every byte is reported, held or lost in such a write, overrun bounded, revoked relays cut |
| user_store | MCUserStore, UserStore.cfg | two concurrent requests, two users, a failing statement, a restart, flushes anywhere: memory and table agree and bans hold, save where a statement failed or was overtaken |
| tun | MCTun, Tun.cfg | desktop sessions on three systems and Android ones, failing OS calls in start, session and teardown, starts dropped between two routes: everything restored up to named exceptions, fail closed part by part, the resolver's baseline true, flow cap, descriptors |
| tun_reattach (violation) | MCTun, TunReattach.cfg | finding 2 |
| desktop | MCDesktopApp, DesktopApp.cfg | the application in VPN mode, on Android and in proxy mode: no orphaned engine, stops restore and return, no exit under a session a stop was to end, an application that is gone leaves no engine where its end is reported or announced |
| reconnect | MCDialedTunnel, Reconnect.cfg | all routes of a dial over a network that flaps: no missed publication, opens are current, kicks are honoured, a reachable server is reached |
| provision | MCProvision, Provision.cfg | three operations of two managers, one loss: published ports are bound, records are truthful, a server is never lost |

**Bounds.** Supervisor: `MaxEvents` counts what comes from outside; the longest stories the
hazards tell (connect, drop, disconnect, connect, drop, failing call) need six, and two command slots
overflow within them. MuxFlow: window 3, threshold 2 and chunks to 2 have the proportions of 256 KiB,
128 KiB and 16 KiB at the edge WindowAssumption allows; one slot per queue and channel makes every
wait happen. MuxLifecycle: a tick stands for 8 s, so the ping period (16 s) is 2, the floor of 15 s
rounds to 2, the default of 45 s to 5, the maximum is 7 (9 in the violating run); up to six ticks of
sleep are below, between and above what the two ends wait, and a session at the floor dies without
one. One open per end: the abort for too many peer streams needs a second and is not reached. ServerFront: a scenario (`Plans`) fixes
which kinds of peer come over which transport, so that each needs two or three connections; a guard
of one entry makes eviction happen, a window of one second makes expiry happen. TunEngine: one CIDR
of each kind, one domain with two answers, two failures anywhere. MobileBridge: three descriptors, so
one is in the device, one waits and one is handed over. Provision: three operations are enough for
provision, upgrade and a retry; each loop of retries is two long. UserStore: three requests are
enough for add, ban and an update or re-add, two of them at once for every order of their halves; one
value of the limits, since what a request does to them does not depend on it (the theorems are for any
set). RelaySession: FLUSH 2 with chunks to 2 lets a flush be met exactly and exceeded, and a cap of 3
is crossed by batches of several relays. DesktopApp: one
client slot that is in turn application and command, two names for sessions of either kind; one
prompt and one window command at a time, as the interface has it. ReconnectingTunnel: opens share
nothing but the channel, so one stands for all, and a dial needs a name that is neither watched nor
held. CHECK_DEADLOCK is off where the system may stop (commands used up, process ended, wrapper
dropped, scenario over).

**Fairness.** Weak fairness for each task that is ready: a select! arm whose channel holds a message
(the tokio task is woken and polled; the arms of the supervisor are chosen at random, so a ready arm
is taken in the end), a timer, a thread of the blocking pool. Strong fairness only where a waiter
queues: tokio's mpsc permits and mutexes are handed over first come, first served (QueueData,
Return, QueueReset; StopIdle/StopCancels; DbWrite behind the flusher's database lock is the one
place where std's mutex gives no order, and there the flusher rests ten seconds between flushes).
ServerFront is fair to timers, the reaper, egress attempts and QUIC's idle timeout, never to a peer.
DialedTunnel is fair to its tasks and timeouts and assumes nothing of the network;
HealsWhenReachable has "from some moment on the server answers over the protocol the dial rests on"
as its premise. On Android dials, backoffs and establish return; an engine ends when its stop or
its tunnel says so. No fairness is given to users, admins, the network or a consumer that stopped
reading, and none to the helper noticing that a client's connection broke unless the host reports it
(`hears`): the application's own comment calls that unreliable on Windows (lib.rs:528).

## 5. What is proved

For every value of the constants (`*Proofs.tla`, checked by TLAPS). Each bullet names the inductive
invariant and why the property needs it. `PROJECT.json` ("theorems") lists the results; those with a
"property" state what a run checks on its small instance.

* **Supervisor.** The invariant IInv joins the type, "published = state", TasksTagged (every message
  carries a generation already given out), DialTracked (a dial's handle is kept exactly while its
  outcome is to come), OneRetryChain, NoLeakedTunnel and ProxyTracked (the proxy flag against the OS
  by state). NoStrandedWait alone is not inductive: that a timer is of the live generation follows
  only from the tags. From it: TypeCorrect, NeverStranded, SingleRetryChain, NoTunnelLeak,
  ProxySafety, KillSwitch, and Refinement (Supervisor implements ProxySession).
* **MuxFlow.** FlowInv: types, Counted (the atomic counter beside a channel is the bytes in it, while
  the Stream lives) and Withheld (what recv holds back, between two calls and within one). Ordered says
  where every chunk is: what was sent on a stream is what recv returned, the chunk a cancelled recv left
  behind, the channel and what is still to come, and as long as the stream is mapped at B with its
  Stream alive what is to come is exactly the wire, the queue and the chunk in the hands of send, in this
  order. A prefix alone is not inductive: a reset must be known to cut the rest off, not a piece out of
  the middle. DeliveredInOrder (InOrder) follows for any number of streams and any sizes.
* **CreditWindow.** WindowImplemented (ImplementsWindow): a stream that is whole after a step was whole
  before it, and on a stream that stays whole each action is one Transfer between the accounts or none;
  a stream that ends is Close. The sums over the queues are recursive functions: that such a definition
  computes what it says is shown once (Recursion, from the least index at which two functions would
  differ), and from it what an Append and a Tail do to Bytes and Carried. CreditWindow's invariant,
  conservation with a bound on what recv withholds, then holds of the mux: CreditConserved, GrantsFit
  (the clamp of a grant never cuts), BufferBounded, NeverStalls. Assumed of the constants: a chunk fits
  into the window left just below the threshold (Threshold - 1 + MaxFrame <= InitWindow) and the
  clamp is at least that much, which 16 KiB, 128 KiB and 256 KiB satisfy. Without it a sender and a
  receiver wait for each other.
* **MuxLifecycle.** NoStreamLeftHanging: Session says of each end that every stream somebody holds, or
  that waits in the backlog or in the reader's hand, is released, or registered, or has its OPEN in a
  queue the writer has yet to look at; a loop that ends takes the registry with it. That closes the
  window in which an open passes a teardown. GivenUpIsNoticed: Agreed says that a HELLO under way is
  its sender's and that both ends computed the same tolerance from the two HELLOs, although one read
  the other's through `decode`'s default.
  DeathHasACause (NoSpuriousDeath): CalmInv follows the Ping each end makes per period. Until it is
  read it is queued, or under way; afterwards the peer has not been without a frame for longer than
  that Ping is old and the client slept (Pinged). A tick comes only when nothing is under way, unless
  both readers jam, which the property excludes; hence no clock exceeds the sleep by more than a ping
  period, and as long as that sum stays below what the server waits (UsedUp) nobody starts to close
  anything. That no loop is on its way out has to be part of it, since one that is reads no more.
  Assumed (LifecycleAssumption): a period and tolerances of at least one tick and queues that hold
  something. The theorem needs no relation between period and tolerance: where the period alone uses
  the tolerance up, as at the floor of 15 s, UsedUp holds without any sleep, and the property allows
  that death (section 6).
* **Server front and QUIC.** For the composed specification (TCP and QUIC fronts, egress):
  RetriesAreFresh (an open that comes back for a connection does not find the one it gave up in the
  cache, however many openers invalidate it), TakenOverOnce (Remembered: the entry of a hello taken
  over is in the guard, or was dropped for want of room, or was dropped when the hello was too old),
  ClientsNotFooled (Honest, over the handshake as terms: the borrowed site's flight passes every check
  of TLS, so it is the HMAC alone, made with a key that client and server derive, that refuses it; its
  mutant drops just that comparison).
  SlotsAreExact: SlotInv equates the limiter's counters with cardinalities of the connections being
  served, in total and per bucket; it needs that they are finitely many, that a bucket exists exactly
  while somebody is in it, and from the front's own invariant which steps end a connection.
  MutexIsOwned and RegistrationsOwned: OwnInv has the connector's mutex, the opens and the datagram
  registries together, since a request that ends gives all three back; RequestsOrdered (a request
  exists only on an HTTP/3 connection, and its flow only with it) makes it inductive, together with the
  opens of relays whose session is over. These are the
  safety halves of SlotsReturned and FlowsReleased: what is held has an owner that returns it.
  ServerTypeCorrect adds that the replay guard stays within its capacity. Assumed: both caps are
  natural numbers (`usize`; zero is allowed and refuses everybody), as is the horizon at
  which a scenario stops its clock.
* **RelaySession.** RelayInv adds ExcessHeld: from the moment a user is no longer allowed, a running
  relay still holds, unreported, all it relayed in excess, the half-written chunk included.
  EveryByteCharged (EveryByteAccounted: relayed is reported, held, or the tail of a write that the end
  of its relay cut off), RevokedRelayStops (OverrunBounded, such a write included) and types.
* **UserStore.** NeverOvercharged, for any number of users and concurrent requests, stale flushes,
  failures and restarts (the snapshot's counters are bounded by the traffic too); types.
  WrittenThrough and BansHold, for any number of concurrent requests. InLine: the pending statements of
  a user form a line in the order of their changes to memory (`behind`). Mirrored: unless the user is
  astray, the line leads from the row in the table to the row in memory, step by step. BanKept: nothing
  in the line after a ban in progress, and nothing pending for a banned user, carries "on". A statement
  that overtakes one before it, or fails, makes its user astray, and the properties say nothing of the
  table for him until a restart; of memory, which authorizes, BanHolds always speaks. An Update that
  had read the flag before the ban lifts it, as in the code, and the property says so.
* **TunEngine and MobileBridge.** HostInv: Stages (what a start has not touched yet, stage by stage),
  Adding (while routes are added: what is still to come is part of the plan, and no family of the
  default override is forgotten), Undoable (every change to the host is one the guard, or the engine
  before it, will undo, the operator's routes are untouched before the guard runs, and the saved policy
  is the operator's unless it was not read), Shut, TaskInv and Baseline (the resolver task, with the OS
  call whose answer is on its way). From it HostRestored, FailsClosed and BaselineHolds. FdInv (who may
  hold a descriptor, and how often each was closed) gives EveryFdHeld: native code closes each exactly
  once; the host closes again exactly those of refused calls. PermitsTaken (live flows and free permits
  add up to the cap) gives FlowsStayCapped.
* **Helper and DesktopApp.** SlotOwnsEngine, StateHonest, ReadyHasWorker, ExitSafe and the type are
  inductive together: EngineNeverOrphaned, StateIsHonest, StartIsAnswered, and StopRestoresNetwork as
  an action property. ExitSafe is what an exit needs: once one is on its way, whatever lives was
  accepted after the stop that leads to it. Every step of the composed application is a step or a stutter of Helper
  (DesktopImplementsHelper), so Helper's theorems carry over (DesktopNeverOrphansEngine).
  ProxyHealedAtLaunch: StaleProxyCleared as it stands speaks of a launch; the inductive part is
  MarkerHeld, that a session the window asked for, and did not end, has its marker on disk whatever
  the tray, the supervisor and crashes do in between.
  SessionInv, for the Android sessions, ties the interface a task holds, the slot and AppState to the
  place the task is at: InterfaceAlwaysKept (a dial that succeeds always finds its interface, none is
  held twice or by a task that is gone) and OneSessionTracked (AppState holds exactly the session
  that was not told to end), the safety half of StopEndsSession.
* **ReconnectingTunnel and DialedTunnel.** NeverMissesPublish, PublishedWatched and OpensAreCurrent;
  the detailed dial's steps are steps of ReconnectingTunnel or stutters
  (DialedImplementsReconnecting), hence DialedNeverMisses and DialedOpensCurrent.
  KickNeverLost and KickBecomesDial: a kick not yet answered is the Notify's permit, and the permit is
  spent only on a new dial. AttemptsAreTheDials (which attempts exist at each stage of supervise) is
  inductive by itself and gives RaceFallsBack: a dial gives up only when every protocol of its route
  has failed. Safety halves of KickHonoured and HealsWhenReachable.
* **Provision.** IInv has one part per question. HostOK: whatever ever started, and whatever is called
  by the container's name, suits the volume. PortsKnown: what an operation read of config and
  container is still so when it runs its own, and the container moved aside can be taken back.
  ServerKept: where the working server is at each command. RecordKept and RecordBuilt: where the
  container that a truthful record describes is, and what the record about to be saved says. The proof
  first turns the control of the engine into tables (UpgradeTable, ProvisionTable, DayTwoTable: command
  and answer to next command; HostTable: command to host), then shows each part over the tables.
  PublishedPortBound, RecordsTruthful, ServerNeverLost and types, for any number of operations,
  losses and retries, reads that fail included.

Every invariant and every action property the runs check is proved. Only model-checked, because
fairness and ENABLED are outside the prover: the liveness properties DisconnectHonoured, RevokedCut,
UsageConverges, SlotsReturned, FlowsReleased, StopReturns, AppGoneNoEngine, StopEndsSession,
KickHonoured, HealsWhenReachable, Isolation and SendReturns.

## 6. Findings

1. *mux_sleep.* The suspend watchdog runs on the server too and compares the client's silence with
   what the server itself asked for (45 s), although the server granted the client ten minutes: a
   phone that sleeps for a minute loses its tunnel (mux.rs:802 against client.rs:78-80).
2. *tun_reattach.* `reattach_tun` called while the engine still dials leaves a permit behind after
   the descriptor it announced was consumed by the start; the engine then closes its device, finds
   no descriptor and ends (bridge.rs:227 against bridge.rs:204-205).

Seen while modelling, without a run of their own. Where the models reach them, the properties name
them as exceptions:

* `Update` of a user writes back the enabled flag it read earlier; a Disable or Remove answered in
  between is undone (control.rs:247), which BanHolds excepts by name. Two concurrent requests can reach
  the table in the other order than memory (sqlite_store.rs:148): the user is then `astray`, and a
  restart brings the older definition back.
* Bytes of a chunk that were written before the relay was cut off, or before the write failed, are never
  charged: the counter is raised after `write_all` (server.rs:358-359), although the flush at the end is
  "final flush, including error exits" (server.rs:415). At most one chunk per relay (`lost`).
* The floor of the tolerance, "so a peer cannot request a tolerance under the ping interval and trip
  itself" (version.rs:46), is 15 s, but Pings are more than 15 s apart (looked at every 2 s, so about
  16 s: mux.rs:761, 778) and the reader's timer is the tolerance itself (mux.rs:612): a session
  negotiated at the floor dies although nothing is wrong.
* A read of the server's config that fails looks like "no config" (`2>/dev/null; true`, docker.rs:186-193;
  `unwrap_or_default`, engine.rs:212-216), and the requested port is published in front of a server that
  binds the one of its config. PublishedIsBound excepts it (`blind`).
* The connector takes every error but a refusal for a dead connection ("the connection is dead",
  connector.rs:118) and throws away one that others use.
* A start accepted between the last stop and `process::exit` (leshiy-helper.rs:93) is killed with its
  routes and DNS changed, which runner.rs:24 calls unsafe: an application that dies right after sending
  StartVpn can cause it. Where a broken pipe goes unnoticed (lib.rs:528) a crashed application's engine
  runs on.
* A descriptor whose call was refused is closed by its `PendingTunFd` (pending_fd.rs:18) and again by
  the service, which believes it closes it instead (LeshiyVpnService.kt:185-186, 197, 320). By then the
  number may belong to a file the process opened in between; descriptors of the model are identities,
  so the model shows the second close, not whom it hits.
* A revoked session can open new relays, each running until its own first check (server.rs:251).
* A stream is reset when its channel of 1024 messages is full, which a sender inside its byte window
  reaches with small chunks (mux.rs:676).
* An interrupted `leshiy vpn` sends Stop on another connection than the StartVpn it gives up; the
  helper may serve them in the other order and is left with an engine nobody owns (vpn.rs:63).
* Dropping a REALITY tunnel does not close it: the mux's reader and keepalive tasks keep senders of
  the command queue (mux.rs:597, 745), so the connection lasts until its peer gives up
  (runtime.rs:277-279 expects a close). The same holds for a REALITY attempt that completes in the
  instant it is aborted (dial.rs:63, 71).
* Quitting in proxy mode does not disconnect the supervisor, so the OS proxy stays until the next
  launch; a tray session writes no marker, a tray disconnect leaves the window's, and a launch
  removes the marker even if the clear failed (lib.rs:840). In the state Error the window's button
  connects, so a proxy the kill switch left cannot be removed from there. Entering VPN mode does not
  end a running proxy session (App.tsx:141).
* A lost exit status over SSH reads as code 0 (ssh_russh.rs:209); an interrupted upgrade leaves the
  old container under its rollback name; a re-provision records the requested image while it reuses
  the running container (mobile/server.rs:34); two managers share no lock.
* A container that `docker run` created and could not start (port in use) carries the environment of a
  provision whose config never came to be. An upgrade of it finds no config on the volume and publishes
  the record's port, while the carried `LESHIY_LISTEN` makes the new container bind another
  (engine.rs:475-612). It takes a provision, a purging teardown cut before its record is removed, a
  provision on another port that fails, and an upgrade; PublishedIsBound exempts it (`blind`).
* A dropped engine future does not await its resolver (engine.rs:244), which is why Restored exempts
  it. Linux and macOS record a bypass whose add failed because the operator has that route, and then
  delete his ("A failed add leaves a spurious entry that teardown no-ops", macos.rs:269). macOS sets IPv6 to
  automatic whatever it was. Windows keeps the route to the server although "Override/exception/via-tun
  routes auto-clear" (windows.rs:417), and its guard deletes `DisableSmartNameResolution` also after a
  session that never set it, so that an include-mode session removes the operator's policy
  (windows.rs:463-484, "delete the key we added"). A Windows start that fails or is dropped before its
  guard is built (windows.rs:245) leaves everything it changed. AsBefore lists these exceptions.
* `refresh_subs` overwrites the cache with a copy taken before its awaits (lib.rs:693); the REALITY
  dial of the command line has no timeout (client.rs:128).

## 7. Not modelled

Cryptography (its terms are in RealityTls), TLS and QUIC wire formats, MTProxy's stream
transformation, user interfaces, wizards, file parsing, release signatures and the installation of
services: their correctness is equality of bytes, presentation, or one operator's sequence of
commands. Rates and round-trip times: numbers nothing depends on. The length of backoffs and
timeouts: any timer may fire at any time (MuxLifecycle counts ticks of a ping period). Prefix arithmetic of
CIDRs: a CIDR is a value of one family. The client's end of a TCP stream and the server's close are
one step in ServerFront. Memory orderings of the atomics in user.rs and mux.rs: each counter is
independent and read by its own value. Client settings, profiles and subscriptions, the data pumps
and the SOCKS front end are listed in the plan or are byte copying.
