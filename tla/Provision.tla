----------------------------- MODULE Provision ------------------------------
(***************************************************************************)
(* Remote provisioning (leshiy-provision engine.rs, docker.rs, vault.rs,   *)
(* ssh_russh.rs; driven by remote_cli.rs and leshiy-mobile server.rs).     *)
(*                                                                         *)
(* Each manager (the command line on an operator's machine, the phone app) *)
(* has a vault of its own with a record of the server; records travel      *)
(* between them as backups.  A vault's lock spans an operation; operations *)
(* of the two managers at the same moment, which no lock excludes, are     *)
(* left out.  An operation is a sequence of commands over SSH; `o.pc' is   *)
(* the command it runs next.                                               *)
(* The host has containers, which share the data volume, and its Docker    *)
(* daemon.  A command may fail, the connection may break before a command  *)
(* or while it runs, and the operator's process may die between commands.  *)
(***************************************************************************)
EXTENDS Naturals, TLC

CONSTANTS
    Images, Broken,     \* container images; a Broken one never gets ready
    Ports,              \* listen and QUIC port pairs
    Users,              \* short ids the server can issue
    Main, Backups,      \* the container's name and the rollback names
    None,
    RunAttempts,        \* RUN_ATTEMPTS (5)
    ReadyAttempts,      \* USER_ADD_ATTEMPTS (15)
    MaxOps, MaxLosses   \* bounds: operations begun, connections or processes lost

Names == {Main} \cup Backups
Managers == {"cli", "phone"}

\* A container publishes the port `pub'; `env' is its LESHIY_LISTEN and
\* LESHIY_MTPROXY.  `blind' is history: the port was chosen without the config
\* (an upgrade found none, or the read of the one there is failed).
Env == [listen : Ports, mtproxy : BOOLEAN]
Container == [img : Images, pub : Ports, env : Env, blind : BOOLEAN,
              st : {"created", "boot", "ready", "stopped"}]
Volume == [port : Ports, users : SUBSET Users, mtproxy : BOOLEAN]
Record == [img : Images, port : Ports, clients : SUBSET Users, cred : BOOLEAN, key : 0..1]

ASSUME ProvisionAssumption ==
    /\ Broken \subseteq Images /\ Main \notin Backups
    /\ None \notin Container \cup Volume \cup Record
    /\ RunAttempts \in Nat \ {0} /\ ReadyAttempts \in Nat \ {0}
    /\ MaxOps \in Nat /\ MaxLosses \in Nat

VARIABLES
    host,       \* the remote machine
    vault,      \* per manager the saved ServerRecord, None if there is none
    backup,     \* a backup file of the record, None if never taken
    op,         \* the operation under way
    ops, losses,
    truthful,   \* history: managers whose record nothing made stale
    live,       \* history: a server was provisioned and not given up since
    deleted     \* history: users whose deletion was reported as done

vars == <<host, vault, backup, op, ops, losses, truthful, live, deleted>>

Host == [key : 0..1, docker : BOOLEAN, ctr : [Names -> Container \cup {None}],
         vol : Volume \cup {None}, lag : BOOLEAN]
Idle == [kind |-> "idle"]

\* The commands of each kind of operation.
Kinds == {"provision", "upgrade", "teardown", "adduser", "rmuser", "mtproxy"}
Steps(kind) ==
    CASE kind = "provision" -> {"connect", "probe", "install", "ports", "firewall", "ps", "pull",
                                "dns", "rm", "run", "issue", "save"}
      [] kind = "upgrade"   -> {"connect", "inspect", "ports", "pull", "rename", "stop", "rm", "run",
                                "ready", "cleanup", "undo", "restore", "start", "restored", "save"}
      [] kind = "teardown"  -> {"connect", "remove", "volume", "etc", "save"}
      [] kind = "adduser"   -> {"connect", "add", "save"}
      [] kind = "rmuser"    -> {"connect", "delete", "save"}
      [] kind = "mtproxy"   -> {"connect", "mtproxy", "enable", "restart"}

Operations ==
    [by : Managers, kind : Kinds, pc : UNION {Steps(k) : k \in Kinds}, n : Nat,
     rec : Record \cup {None},
     img : Images, port : Ports, env : Env, blind : BOOLEAN, bak : Names,
     user : Users \cup {None}, purge : BOOLEAN, telegram : BOOLEAN, reused : BOOLEAN,
     failed : BOOLEAN, link : BOOLEAN]

OperationOK(o) ==
    /\ o \in Operations /\ o.pc \in Steps(o.kind)
    /\ o.kind # "provision" => o.rec # None
    /\ o.kind = "upgrade" => o.bak \in Backups
    /\ o.kind \in {"provision", "adduser", "rmuser"} => o.user \in Users

TypeOK ==
    /\ host \in Host /\ vault \in [Managers -> Record \cup {None}] /\ backup \in Record \cup {None}
    /\ op = Idle \/ OperationOK(op)
    /\ ops \in 0..MaxOps /\ losses \in 0..MaxLosses
    /\ truthful \subseteq Managers /\ live \in BOOLEAN /\ deleted \subseteq Users

Init ==
    /\ host = [key |-> 0, docker |-> FALSE, ctr |-> [n \in Names |-> None],
               vol |-> None, lag |-> FALSE]
    /\ vault = [m \in Managers |-> None] /\ backup = None /\ op = Idle
    /\ ops = 0 /\ losses = 0
    /\ truthful = {} /\ live = FALSE /\ deleted = {}

-----------------------------------------------------------------------------
(* The host.  A command's outcome is a new host and what the caller sees:  *)
(* "ok" or "yes" (exit 0 with the output asked for), "none" (exit 0 and no *)
(* output), "fail", "absent" (Docker's missing-object message), "unready"  *)
(* (control socket not there yet), "inuse" (port bind race).               *)

Result(h, out) == [h |-> h, out |-> out]
SetCtr(h, n, c) == [h EXCEPT !.ctr[n] = c]
Up(c) == c # None /\ c.st \in {"boot", "ready"}

\* A container starts: the server's boot initialises the volume's config from
\* the environment unless there is one.
Start(h, n, c) ==
    [h EXCEPT !.ctr[n] = [c EXCEPT !.st = "boot"],
              !.vol = IF @ # None THEN @
                      ELSE [port |-> c.env.listen, users |-> {}, mtproxy |-> c.env.mtproxy]]

Taken(h, n, pub) == h.lag \/ \E m \in Names \ {n} : Up(h.ctr[m]) /\ h.ctr[m].pub = pub

\* docker run: needs the name and the port.  A failed run leaves a Created
\* container that owns the name.
DockerRun(h, n, c) ==
    IF h.ctr[n] # None THEN {Result(h, "fail")}
    ELSE IF Taken(h, n, c.pub) THEN {Result(SetCtr(h, n, c), "inuse")}
    ELSE {Result(Start(h, n, c), "ok")}

\* docker rm -f: the port of a running container may be released late.
DockerRm(h, n) ==
    IF h.ctr[n] = None THEN {Result(h, "absent")}
    ELSE {Result([SetCtr(h, n, None) EXCEPT !.lag = l], "ok") :
             l \in IF Up(h.ctr[n]) THEN BOOLEAN ELSE {h.lag}}

DockerRename(h, n, m) ==
    IF h.ctr[n] = None \/ h.ctr[m] # None THEN {Result(h, "fail")}
    ELSE {Result([h EXCEPT !.ctr[m] = h.ctr[n], !.ctr[n] = None], "ok")}

\* docker stop of a container that does not run and docker start of one that
\* does change nothing; start needs the port.
DockerStop(h, n) ==
    IF h.ctr[n] = None THEN {Result(h, "fail")}
    ELSE IF ~Up(h.ctr[n]) THEN {Result(h, "ok")}
    ELSE {Result(SetCtr(h, n, [h.ctr[n] EXCEPT !.st = "stopped"]), "ok")}

DockerStart(h, n) ==
    IF h.ctr[n] = None THEN {Result(h, "fail")}
    ELSE IF Up(h.ctr[n]) THEN {Result(h, "ok")}
    ELSE IF Taken(h, n, h.ctr[n].pub) THEN {Result(h, "inuse")}
    ELSE {Result(Start(h, n, h.ctr[n]), "ok")}

DockerRestart(h, n) ==
    IF h.ctr[n] = None THEN {Result(h, "fail")} ELSE {Result(Start(h, n, h.ctr[n]), "ok")}

\* docker volume rm refuses while any container refers to the volume.
VolumeRm(h) ==
    IF h.vol = None THEN {Result(h, "absent")}
    ELSE IF \E n \in Names : h.ctr[n] # None THEN {Result(h, "fail")}
    ELSE {Result([h EXCEPT !.vol = None], "ok")}

\* docker exec of a leshiy subcommand: needs a running container, and its
\* control socket where the server must answer.
DockerExec(h, n, answer) ==
    IF ~Up(h.ctr[n]) THEN {Result(h, "fail")}
    ELSE IF h.ctr[n].st = "boot" THEN {Result(h, "unready")}
    ELSE answer

UserAdd(h, n, u) == DockerExec(h, n, {Result([h EXCEPT !.vol.users = @ \cup {u}], "ok")})
UserRm(h, n, u)  == DockerExec(h, n,
    {IF u \in h.vol.users THEN Result([h EXCEPT !.vol.users = @ \ {u}], "ok")
                          ELSE Result(h, "fail")})
MtProxyShow(h, n) == DockerExec(h, n, {Result(h, IF h.vol.mtproxy THEN "ok" ELSE "fail")})
MtProxyEnable(h, n) == DockerExec(h, n, {Result([h EXCEPT !.vol.mtproxy = TRUE], "ok")})

\* check_server_key: the first provisioning pins what it meets, any later
\* operation refuses a host whose key is not the recorded one.
CheckServerKey(h, o) == o.kind = "provision" \/ o.rec.key = h.key

\* RusshTransport::connect: a record from a connection-only backup has no
\* credential.
Connect(h, o) ==
    Result(h, IF CheckServerKey(h, o) /\ (o.kind = "provision" \/ o.rec.cred)
                THEN "ok" ELSE "fail")

\* run_cmd: the container an operation deploys.
Deployed(o) == [img |-> o.img, pub |-> o.port, env |-> o.env, blind |-> o.blind,
                st |-> "created"]

\* What the command at o.pc does to the host.
Effect(h, o) ==
    CASE o.pc = "connect"  -> {Connect(h, o)}
      [] o.pc = "probe"    -> {Result(h, IF h.docker THEN "yes" ELSE "none")}
      [] o.pc = "install"  -> {Result([h EXCEPT !.docker = TRUE], "ok")}
      [] o.pc = "ports"    -> {Result(h, IF h.vol = None THEN "none" ELSE "ok")}
      [] o.pc = "ps"       -> {Result(h, IF Up(h.ctr[Main]) THEN "yes" ELSE "none")}
      [] o.pc = "inspect"  -> {Result(h, IF h.ctr[Main] = None THEN "fail" ELSE "ok")}
      [] o.pc \in {"rm", "undo", "remove"} -> DockerRm(h, Main)
      [] o.pc = "cleanup"  -> DockerRm(h, o.bak)
      [] o.pc = "run"      -> DockerRun(h, Main, Deployed(o))
      [] o.pc = "rename"   -> DockerRename(h, Main, o.bak)
      [] o.pc = "restore"  -> DockerRename(h, o.bak, Main)
      [] o.pc = "stop"     -> DockerStop(h, o.bak)
      [] o.pc = "start"    -> DockerStart(h, Main)
      [] o.pc = "restart"  -> DockerRestart(h, Main)
      [] o.pc \in {"ready", "restored"} -> DockerExec(h, Main, {Result(h, "ok")})
      [] o.pc \in {"issue", "add"} -> UserAdd(h, Main, o.user)
      [] o.pc = "delete"   -> UserRm(h, Main, o.user)
      [] o.pc = "volume"   -> VolumeRm(h)
      [] o.pc = "mtproxy"  -> MtProxyShow(h, Main)
      [] o.pc = "enable"   -> MtProxyEnable(h, Main)
      [] OTHER -> {Result(h, "ok")}      \* pull, firewall, dns, rm -rf

-----------------------------------------------------------------------------
(* The engine: the operation after the command at o.pc answered `out'.     *)
(* "err" is a transport error: no exit status at all.                      *)

Step(o, pc, n)  == [o EXCEPT !.pc = pc, !.n = n]
Goto(o, pc)     == Step(o, pc, 0)
Succeeded(out)  == out \in {"ok", "yes", "none"}
Then(o, out, pc) == IF Succeeded(out) THEN Goto(o, pc) ELSE Idle

\* Mutant: removing what is not there is an error.
RemovedOnly(out) == Succeeded(out)

\* removed_or_absent: only the missing-object answer counts beside exit 0.
RemovedOrAbsent(out) == Succeeded(out) \/ out = "absent"

\* run_container: the removal before each attempt is best effort; only the
\* port bind race is retried.
RunContainer(o, out, done, failed) ==
    CASE o.pc = "rm" -> Step(o, "run", o.n)
      [] o.pc = "run" /\ Succeeded(out) -> done
      [] o.pc = "run" /\ out = "inuse" /\ o.n + 1 < RunAttempts ->
             Step(o, "rm", o.n + 1)
      [] OTHER -> failed

\* Mutant: the replacement counts as ready once its container was started.
WaitReadyNot(o, out, done, failed) == done

\* wait_ready: poll `user list' until the control socket answers.
WaitReady(o, out, done, failed) ==
    IF Succeeded(out) THEN done
    ELSE IF out = "unready" /\ o.n + 1 < ReadyAttempts THEN Step(o, o.pc, o.n + 1)
    ELSE failed

\* exec_user_add: `user add' itself is what is retried while the control
\* socket is not there; an answer without a URI is an error.
ExecUserAdd(o, out, done, failed) ==
    IF out = "ok" THEN done
    ELSE IF out = "unready" /\ o.n + 1 < ReadyAttempts THEN Step(o, o.pc, o.n + 1)
    ELSE failed

\* Mutant: a redeploy publishes the port that was asked for.
PublishRequested(o, out, fallback) == o.port

\* The ports to publish: what the persisted config binds, else the fallback.
PublishPort(o, out, fallback) == IF out = "ok" THEN host.vol.port ELSE fallback

\* firewall_step and detect_host_dns go on whatever their commands answer.
FirewallStep(o) == Goto(o, "ps")
DetectHostDns(o) == Goto(o, "rm")

\* provision_inner, steps 1 to 4: connect, Docker, ports, firewall, detect.
ProvisionPrepare(o, out) ==
    CASE o.pc = "connect"  -> Then(o, out, "probe")
      [] o.pc = "probe"    -> IF out = "err" THEN Idle
                              ELSE Goto(o, IF out = "yes" THEN "ports" ELSE "install")
      [] o.pc = "install"  -> Then(o, out, "ports")
      [] o.pc = "ports"    -> LET port == PublishPort(o, out, o.port)
                              IN [Goto(o, "firewall") EXCEPT !.port = port, !.env.listen = port,
                                                             !.blind = (out # "ok" /\ host.vol # None)]
      [] o.pc = "firewall" -> FirewallStep(o)
      [] o.pc = "ps"       -> IF out = "err" THEN Idle
                              ELSE IF out = "yes" THEN [Goto(o, "issue") EXCEPT !.reused = TRUE]
                              ELSE Goto(o, "pull")

\* Steps 5 and 6: pull and run, unless a running container is reused.
ProvisionRun(o, out) ==
    CASE o.pc = "pull" -> Then(o, out, "dns")
      [] o.pc = "dns"  -> DetectHostDns(o)
      [] OTHER -> RunContainer(o, out, Goto(o, "issue"), Idle)

\* Steps 7 and 8: issue the first user (exec_user_add), build the record.
ProvisionIssue(o, out) ==
    LET rec == [img |-> o.img, port |-> o.port, clients |-> {o.user}, cred |-> TRUE,
                key |-> host.key]
    IN  ExecUserAdd(o, out, [Goto(o, "save") EXCEPT !.rec = rec], Idle)

\* upgrade, up to the new image: inspect (the environment is carried over),
\* ports, pull, move the old aside.
UpgradePrepare(o, out) ==
    CASE o.pc = "connect" -> Then(o, out, "inspect")
      [] o.pc = "inspect" -> IF out = "ok" THEN [Goto(o, "ports") EXCEPT !.env = host.ctr[Main].env]
                                           ELSE Idle
      [] o.pc = "ports"   -> [Goto(o, "pull") EXCEPT !.port = PublishPort(o, out, o.rec.port),
                                                     !.blind = (out # "ok")]
      [] o.pc = "pull"    -> Then(o, out, "rename")
      [] o.pc = "rename"  -> Then(o, out, "stop")

\* The replacement, and the rollback when a part of it fails.
UpgradeReplace(o, out) ==
    LET undo == Goto(o, "undo")
        done == [Goto(o, "save") EXCEPT !.rec.img = o.img, !.rec.port = o.port]
    IN  CASE o.pc = "stop"     -> IF Succeeded(out) THEN Goto(o, "rm") ELSE undo
          [] o.pc \in {"rm", "run"} -> RunContainer(o, out, Goto(o, "ready"), undo)
          [] o.pc = "ready"    -> WaitReady(o, out, Goto(o, "cleanup"), undo)
          [] o.pc = "cleanup"  -> done
          [] o.pc = "undo"     -> IF RemovedOrAbsent(out) THEN Goto(o, "restore") ELSE Idle
          [] o.pc = "restore"  -> Then(o, out, "start")
          [] o.pc = "start"    -> Then(o, out, "restored")
          [] o.pc = "restored" -> WaitReady(o, out, Idle, Idle)

Teardown(o, out) ==
    CASE o.pc = "connect" -> Then(o, out, "remove")
      [] o.pc = "remove"  -> IF ~RemovedOrAbsent(out) THEN Idle
                             ELSE Goto(o, IF o.purge THEN "volume" ELSE "save")
      [] o.pc = "volume"  -> IF RemovedOrAbsent(out) THEN Goto(o, "etc") ELSE Idle
      [] o.pc = "etc"     -> Then(o, out, "save")

\* add_user and delete_user: one command, then the record.  No URI in the
\* output of `user add' is an error; `user rm' prints nothing.
AddUser(o, out) ==
    CASE o.pc = "connect" -> Then(o, out, "add")
      [] o.pc = "add" -> IF out = "ok"
                           THEN [Goto(o, "save") EXCEPT !.rec.clients = @ \cup {o.user}]
                           ELSE Idle

DeleteUser(o, out) ==
    CASE o.pc = "connect" -> Then(o, out, "delete")
      [] o.pc = "delete" -> IF Succeeded(out)
                              THEN [Goto(o, "save") EXCEPT !.rec.clients = @ \ {o.user}]
                              ELSE Idle

\* mtproxy_link with --enable: without a secret make one and restart.
MtProxyLink(o, out) ==
    CASE o.pc = "connect" -> Then(o, out, "mtproxy")
      [] o.pc = "mtproxy" -> IF Succeeded(out) \/ out = "err" THEN Idle ELSE Goto(o, "enable")
      [] o.pc = "enable"  -> Then(o, out, "restart")
      [] OTHER -> Idle

Continue(o, out) ==
    CASE o.kind = "provision" ->
             (CASE o.pc \in {"pull", "dns", "rm", "run"} -> ProvisionRun(o, out)
                [] o.pc = "issue" -> ProvisionIssue(o, out)
                [] OTHER -> ProvisionPrepare(o, out))
      [] o.kind = "upgrade" ->
             (IF o.pc \in {"connect", "inspect", "ports", "pull", "rename"}
                THEN UpgradePrepare(o, out) ELSE UpgradeReplace(o, out))
      [] o.kind = "teardown" -> Teardown(o, out)
      [] o.kind = "adduser"  -> AddUser(o, out)
      [] o.kind = "rmuser"   -> DeleteUser(o, out)
      [] o.kind = "mtproxy"  -> MtProxyLink(o, out)

-----------------------------------------------------------------------------
(* Operations begin with a command of a manager: its vault is loaded under *)
(* the lock (open_vault, ServerManager::transaction), a day-2 operation    *)
(* works on a copy of the record.                                          *)

Fresh(u) == u \notin deleted \cup (IF host.vol = None THEN {} ELSE host.vol.users)

\* A fresh operation of manager m.
Operation(m, kind, img, port) ==
    [by |-> m, kind |-> kind, pc |-> "connect", n |-> 0, rec |-> vault[m], img |-> img,
     port |-> port, env |-> [listen |-> port, mtproxy |-> FALSE], blind |-> FALSE,
     bak |-> Main, user |-> None, purge |-> FALSE, telegram |-> FALSE, reused |-> FALSE,
     failed |-> FALSE, link |-> TRUE]

Transaction(o) ==
    /\ op = Idle /\ ops < MaxOps
    /\ ops' = ops + 1 /\ op' = o
    /\ UNCHANGED <<host, vault, backup, losses, deleted>>

ProvisionOp(m, img, port, u, telegram) ==
    /\ Fresh(u)
    /\ Transaction([Operation(m, "provision", img, port)
                       EXCEPT !.user = u, !.telegram = telegram, !.env.mtproxy = telegram])
    /\ UNCHANGED <<truthful, live>>

\* A day-2 operation needs a saved record.
Saved(m, kind, img) == Operation(m, kind, img, vault[m].port)

UpgradeOp(m, img, b, telegram) ==
    /\ vault[m] # None /\ host.ctr[b] = None
    /\ Transaction([Saved(m, "upgrade", img) EXCEPT !.bak = b, !.telegram = telegram])
    /\ UNCHANGED <<truthful, live>>

TeardownOp(m, purge) ==
    /\ vault[m] # None
    /\ Transaction([Saved(m, "teardown", vault[m].img) EXCEPT !.purge = purge])
    /\ truthful' = {} /\ live' = FALSE

UserOp(m, kind, u) ==
    /\ vault[m] # None
    /\ Transaction([Saved(m, kind, vault[m].img) EXCEPT !.user = u])
    /\ UNCHANGED <<truthful, live>>

\* leshiy remote provision, upgrade, teardown, user add, user rm, mtproxy.
CliProvision(img, port, u, telegram) == ProvisionOp("cli", img, port, u, telegram)
CliUpgrade(img, b)   == UpgradeOp("cli", img, b, FALSE)
CliTeardown(purge)   == TeardownOp("cli", purge)
CliUserAdd(u)        == Fresh(u) /\ UserOp("cli", "adduser", u)
CliUserRm(u)         == UserOp("cli", "rmuser", u)
CliMtProxy           == UserOp("cli", "mtproxy", None)

\* ServerManager: the same operations on the phone; an upgrade may go on to
\* enable the Telegram proxy.
PhoneProvision(img, port, u)      == ProvisionOp("phone", img, port, u, FALSE)
PhoneUpgrade(img, b, telegram)    == UpgradeOp("phone", img, b, telegram)
PhoneTeardown(purge) == TeardownOp("phone", purge)
PhoneAddUser(u)      == Fresh(u) /\ UserOp("phone", "adduser", u)
PhoneDeleteUser(u)   == UserOp("phone", "rmuser", u)

\* A provision that is about to replace what is there gives it up.
GivesUp == op.kind = "provision" /\ op.pc = "rm"

\* Nothing vouches for the records once a provision gives the server up or a
\* step of a rollback did not do its work.
Vouched(out) ==
    IF GivesUp \/ (op.pc \in {"undo", "restore", "start"} /\ out \notin {"ok", "absent"})
      THEN {} ELSE truthful

\* A command runs and its answer arrives.
Command ==
    /\ op # Idle /\ op.pc # "save" /\ op.link
    /\ \E r \in Effect(host, op) :
          host' = r.h /\ op' = Continue(op, r.out) /\ truthful' = Vouched(r.out)
    /\ live' = (live /\ ~GivesUp)
    /\ UNCHANGED <<vault, backup, ops, losses, deleted>>

\* What a command that failed answers: an exit status other than 0, except
\* that the probe ends in `|| echo no' and the read of the config in `2>/dev/null;
\* true', where no output means there is nothing.
Failure(o) == IF o.pc \in {"probe", "ports"} THEN "none" ELSE "fail"

\* One command of the operation fails without an effect (image not pulled,
\* daemon refuses, ...).
CommandFails ==
    /\ op # Idle /\ op.pc # "save" /\ op.link /\ ~op.failed
    /\ op' = Continue([op EXCEPT !.failed = TRUE], Failure(op))
    /\ live' = (live /\ ~GivesUp) /\ truthful' = Vouched(Failure(op))
    /\ UNCHANGED <<host, vault, backup, ops, losses, deleted>>

\* RusshTransport::run starts from `code = 0': a channel that ends without
\* an exit status (the connection broke) reads as success without output.
LostStatus(out) == "none"

\* The connection breaks while a command runs; it may have taken effect.
LinkBreaks ==
    /\ op # Idle /\ op.pc \notin {"save", "connect"} /\ op.link /\ losses < MaxLosses
    /\ losses' = losses + 1
    /\ \E r \in Effect(host, op) \cup {Result(host, "none")} :
          host' = r.h /\ op' = Continue([op EXCEPT !.link = FALSE], LostStatus(r.out))
    /\ truthful' = {} /\ live' = (live /\ ~GivesUp)
    /\ UNCHANGED <<vault, backup, ops, deleted>>

\* Every command after that fails: channel_open_session.
LinkDown ==
    /\ op # Idle /\ op.pc # "save" /\ ~op.link
    /\ op' = Continue(op, "err")
    /\ UNCHANGED <<host, vault, backup, ops, losses, truthful, live, deleted>>

\* The operator's process is killed; the lock goes with it.
Killed ==
    /\ op # Idle /\ losses < MaxLosses
    /\ losses' = losses + 1 /\ op' = Idle /\ truthful' = {}
    /\ UNCHANGED <<host, vault, backup, ops, live, deleted>>

\* Vault::save of the changed record; with Telegram asked for, the proxy is
\* enabled after it, on the same connection and under the same lock.
Save ==
    /\ op # Idle /\ op.pc = "save"
    /\ vault' = [vault EXCEPT ![op.by] = IF op.kind = "teardown" THEN None ELSE op.rec]
    /\ deleted' = IF op.kind = "rmuser" THEN deleted \cup {op.user} ELSE deleted
    /\ truthful' = IF op.reused THEN truthful \ {op.by}
                   ELSE IF op.kind = "provision" /\ op.link THEN {op.by}
                   ELSE IF op.kind \in {"upgrade", "rmuser"} THEN truthful \cap {op.by}
                   ELSE truthful
    /\ live' = (live \/ (op.link /\ op.kind \in {"provision", "upgrade"}))
    /\ op' = IF op.telegram THEN [Goto(op, "mtproxy") EXCEPT !.kind = "mtproxy"] ELSE Idle
    /\ UNCHANGED <<host, backup, ops, losses>>

\* remote backup (with --connection-only the credential is stripped) and the
\* phone's export_backup; remote restore and import_backup (import_records)
\* upsert the record; remote credentials.
CliBackup(only) ==
    /\ op = Idle /\ vault["cli"] # None
    /\ backup' = [vault["cli"] EXCEPT !.cred = @ /\ ~only]
    /\ UNCHANGED <<host, vault, op, ops, losses, truthful, live, deleted>>

ExportBackup ==
    /\ op = Idle /\ vault["phone"] # None
    /\ backup' = vault["phone"]
    /\ UNCHANGED <<host, vault, op, ops, losses, truthful, live, deleted>>

ImportRecords(m) ==
    /\ op = Idle /\ backup # None /\ ops < MaxOps
    /\ vault' = [vault EXCEPT ![m] = backup] /\ truthful' = truthful \ {m} /\ ops' = ops + 1
    /\ UNCHANGED <<host, backup, op, losses, live, deleted>>
CliRestore == ImportRecords("cli")
ImportBackup == ImportRecords("phone")

Credentials ==
    /\ op = Idle /\ vault["cli"] # None
    /\ vault' = [vault EXCEPT !["cli"].cred = TRUE]
    /\ UNCHANGED <<host, backup, op, ops, losses, truthful, live, deleted>>

\* The host on its own: servers get ready, a late port is released, the
\* machine is reinstalled (new host key, nothing left).
HostReady(n) ==
    /\ host.ctr[n] # None /\ host.ctr[n].st = "boot" /\ host.ctr[n].img \notin Broken
    /\ host' = [host EXCEPT !.ctr[n].st = "ready"]
    /\ UNCHANGED <<vault, backup, op, ops, losses, truthful, live, deleted>>

PortReleased ==
    /\ host.lag /\ host' = [host EXCEPT !.lag = FALSE]
    /\ UNCHANGED <<vault, backup, op, ops, losses, truthful, live, deleted>>

Reinstalled ==
    /\ host.key = 0 /\ host.docker /\ op = Idle
    /\ host' = [key |-> 1, docker |-> FALSE, ctr |-> [n \in Names |-> None],
                vol |-> None, lag |-> FALSE]
    /\ truthful' = {} /\ live' = FALSE
    /\ UNCHANGED <<vault, backup, op, ops, losses, deleted>>

Next ==
    \/ \E img \in Images, port \in Ports, u \in Users :
          PhoneProvision(img, port, u) \/ \E telegram \in BOOLEAN : CliProvision(img, port, u, telegram)
    \/ \E img \in Images, b \in Backups :
          CliUpgrade(img, b) \/ \E telegram \in BOOLEAN : PhoneUpgrade(img, b, telegram)
    \/ \E purge \in BOOLEAN : CliTeardown(purge) \/ PhoneTeardown(purge)
    \/ \E u \in Users : CliUserAdd(u) \/ CliUserRm(u) \/ PhoneAddUser(u) \/ PhoneDeleteUser(u)
    \/ CliMtProxy
    \/ Command \/ CommandFails \/ LinkBreaks \/ LinkDown \/ Killed \/ Save
    \/ \E only \in BOOLEAN : CliBackup(only)
    \/ ExportBackup \/ CliRestore \/ ImportBackup \/ Credentials
    \/ \E n \in Names : HostReady(n)
    \/ PortReleased \/ Reinstalled

Spec == Init /\ [][Next]_vars

-----------------------------------------------------------------------------
(* Properties.                                                             *)

\* A server is reachable where it listens: a running container publishes the
\* port its config binds, over redeploys with other ports, stale records,
\* interrupted upgrades and rollbacks -- unless the engine chose the port
\* blind: an upgrade of a container that never got to write a config takes
\* the record's port, and a read of the config that fails (`2>/dev/null; true',
\* unwrap_or_default) passes for "no config", so that the requested or
\* recorded port is published in front of a server that binds another.
PublishedIsBound ==
    \A n \in Names : Up(host.ctr[n]) /\ ~host.ctr[n].blind => host.ctr[n].pub = host.vol.port

\* "a failed upgrade must leave the record describing what is really
\* running": between operations the record names the image of a container
\* that is up, and only clients the server knows, unless a rollback failed,
\* the connection broke, a record was changed behind the engine's back or a
\* re-provision with another image reused the container it found.
RecordTruthful ==
    op = Idle => \A m \in truthful :
        /\ Up(host.ctr[Main]) /\ host.ctr[Main].img = vault[m].img
        /\ vault[m].clients \subseteq host.vol.users

\* An upgrade never destroys the only server that works: wherever it is cut
\* off, and however often it is tried again, a container with a working
\* image is left on the host.
NeverLostServer ==
    live => \E n \in Names : host.ctr[n] # None /\ host.ctr[n].img \notin Broken
=============================================================================
