-------------------------- MODULE ProvisionProofs ---------------------------
(***************************************************************************)
(* What Provision promises for any images, ports, users, rollback names    *)
(* and any number of operations, retries and losses.                       *)
(***************************************************************************)
EXTENDS Provision, TLAPS

-----------------------------------------------------------------------------
(* The inductive invariant.                                                *)

\* A container suits the volume: unless its port was chosen blind it publishes
\* the port of the config, or, before there is one, the port its environment
\* will put there.
Fits(c, vol) ==
    /\ vol # None => c.blind \/ c.pub = vol.port
    /\ vol = None => c.st = "created" /\ (c.blind \/ c.pub = c.env.listen)

\* A container that can serve.
Good(c) == c # None /\ c.img \notin Broken

\* The host between any two commands: whatever ever started, and whatever is
\* called Main, suits the volume; only working images get ready.
HostOK ==
    \A n \in Names : host.ctr[n] # None =>
        /\ n = Main \/ host.ctr[n].st # "created" => Fits(host.ctr[n], host.vol)
        /\ host.ctr[n].st = "ready" => Good(host.ctr[n])

\* The operation under way is of this kind, at one of these commands, and
\* has its connection.
At(kind, pcs) == op # Idle /\ op.link /\ op.kind = kind /\ op.pc \in pcs

\* The commands of an upgrade between moving the old container aside and
\* taking it back.
Aside == {"stop", "rm", "run", "ready", "undo", "restore"}

\* What an operation read of the volume and the container is still so when it
\* runs its own container, and the one moved aside can be taken back.
PortsKnown ==
    /\ At("provision", {"firewall", "ps", "pull", "dns", "rm", "run"}) =>
           /\ op.env.listen = op.port
           /\ host.vol # None => op.blind \/ op.port = host.vol.port
    /\ At("upgrade", {"ports", "pull", "rename"}) =>
           host.ctr[Main] # None /\ op.env = host.ctr[Main].env
    /\ At("upgrade", {"pull", "rename", "stop", "rm", "run"}) =>
           op.blind \/ (host.vol # None /\ op.port = host.vol.port)
    /\ At("upgrade", {"stop", "rm", "run"}) => op.env = host.ctr[op.bak].env
    /\ At("upgrade", Aside) =>
           host.ctr[op.bak] # None /\ Fits(host.ctr[op.bak], host.vol)

\* Where the working server is while an operation runs.
ServerKept ==
    /\ live => \E n \in Names : Good(host.ctr[n])
    /\ op # Idle /\ op.kind = "teardown" => ~live
    /\ At("provision", {"run"}) => ~live
    /\ At("upgrade", Aside) /\ live => \E n \in Backups : Good(host.ctr[n])
    /\ At("upgrade", {"cleanup", "save"}) \/ At("provision", {"save"}) => Good(host.ctr[Main])

\* The server knows the clients of a record; its container is c.
Knows(clients) == host.vol # None /\ clients \subseteq host.vol.users
Describes(c, r) == Up(c) /\ c.img = r.img /\ Knows(r.clients)

\* Where the container that a truthful record describes is.
RecordKept ==
    /\ \A m \in truthful : vault[m] # None
    /\ op # Idle /\ ~op.link => truthful = {}
    /\ op # Idle /\ op.kind = "teardown" => truthful = {}
    /\ At("provision", {"run"}) \/ (At("provision", {"issue", "save"}) /\ ~op.reused)
         => truthful = {}
    /\ ~(At("upgrade", Aside \cup {"start", "cleanup", "save"}) \/ At("rmuser", {"save"})) =>
         \A m \in truthful : Describes(host.ctr[Main], vault[m])
    /\ At("upgrade", Aside) =>
         \A m \in truthful : host.ctr[op.bak].img = vault[m].img /\ Knows(vault[m].clients)
    /\ At("upgrade", {"start"}) =>
         \A m \in truthful : host.ctr[Main].img = vault[m].img /\ Knows(vault[m].clients)
    /\ At("upgrade", {"cleanup", "save"}) =>
         \A m \in truthful : Knows(vault[m].clients)

\* The record that is going to be saved.
RecordBuilt ==
    /\ op # Idle /\ op.kind # "provision" /\ op.pc # "save" /\ op.kind # "mtproxy" => op.rec = vault[op.by]
    /\ op # Idle /\ op.kind = "provision" /\ op.pc = "save" => op.rec # None
    /\ op # Idle /\ op.kind \in {"upgrade", "rmuser"} => ~op.reused
    /\ At("upgrade", {"ready"}) \/ (At("provision", {"issue"}) /\ ~op.reused) =>
         host.ctr[Main] # None /\ host.ctr[Main].img = op.img
    /\ At("upgrade", {"cleanup", "save"}) => Up(host.ctr[Main]) /\ host.ctr[Main].img = op.img
    /\ At("upgrade", {"save"}) => op.rec.img = op.img /\ op.rec.clients = vault[op.by].clients
    /\ At("provision", {"save"}) /\ ~op.reused => Describes(host.ctr[Main], op.rec)
    /\ (At("rmuser", {"save"}) \/ At("adduser", {"save"})) /\ op.by \in truthful =>
         Describes(host.ctr[Main], op.rec)

\* The inductive invariant.
IInv == TypeOK /\ HostOK /\ PortsKnown /\ ServerKept /\ RecordKept /\ RecordBuilt

-----------------------------------------------------------------------------
(* The control of the engine as tables: from the command at o.pc and its   *)
(* answer to the next one.                                                 *)

\* The same operation goes on with the connection it had.
Same(o, p) ==
    /\ OperationOK(p) /\ p # Idle
    /\ p.by = o.by /\ p.kind = o.kind /\ p.bak = o.bak /\ p.user = o.user /\ p.img = o.img
    /\ p.link = o.link /\ (o.kind # "provision" => p.reused = o.reused)

\* ... at another command, with all it knew.
Kept(o, p, pc) ==
    /\ Same(o, p) /\ p.pc = pc
    /\ p.port = o.port /\ p.env = o.env /\ p.blind = o.blind /\ p.rec = o.rec /\ p.reused = o.reused

\* Answers with an output are given only where there is something to read.
Readable(o, out) ==
    /\ o.pc = "inspect" /\ out = "ok" => host.ctr[Main] # None
    /\ o.pc = "ports" /\ out = "ok" => host.vol # None

\* upgrade and its rollback.
UpgradeTable(o, out, p) ==
    /\ o.pc = "connect" => p = Idle \/ Kept(o, p, "inspect")
    /\ o.pc = "inspect" => \/ p = Idle
                           \/ /\ out = "ok" /\ Same(o, p) /\ p.pc = "ports"
                              /\ p.env = host.ctr[Main].env /\ p.rec = o.rec
    /\ o.pc = "ports" => /\ Same(o, p) /\ p.pc = "pull" /\ p.env = o.env /\ p.rec = o.rec
                         /\ p.blind = (out # "ok") /\ (out = "ok" => p.port = host.vol.port)
    /\ o.pc = "pull" => p = Idle \/ Kept(o, p, "rename")
    /\ o.pc = "rename" => IF Succeeded(out) THEN Kept(o, p, "stop") ELSE p = Idle
    /\ o.pc = "stop" => Kept(o, p, "rm") \/ Kept(o, p, "undo")
    /\ o.pc = "rm" => Kept(o, p, "run")
    /\ o.pc = "run" => IF Succeeded(out) THEN Kept(o, p, "ready")
                                         ELSE Kept(o, p, "rm") \/ Kept(o, p, "undo")
    /\ o.pc = "ready" => IF Succeeded(out) THEN Kept(o, p, "cleanup")
                                           ELSE Kept(o, p, "ready") \/ Kept(o, p, "undo")
    /\ o.pc = "cleanup" => /\ Same(o, p) /\ p.pc = "save"
                           /\ p.rec.img = o.img /\ p.rec.clients = o.rec.clients
    /\ o.pc = "undo" => IF Succeeded(out) \/ out = "absent" THEN Kept(o, p, "restore") ELSE p = Idle
    /\ o.pc = "restore" => IF Succeeded(out) THEN Kept(o, p, "start") ELSE p = Idle
    /\ o.pc = "start" => IF Succeeded(out) THEN Kept(o, p, "restored") ELSE p = Idle
    /\ o.pc = "restored" => p = Idle \/ Kept(o, p, "restored")

\* provision_inner.
ProvisionTable(o, out, p) ==
    /\ o.pc \in {"connect", "probe", "install"} =>
           p = Idle \/ \E pc \in {"probe", "install", "ports"} : Kept(o, p, pc)
    /\ o.pc = "ports" => /\ Same(o, p) /\ p.pc = "firewall" /\ p.env.listen = p.port
                         /\ host.vol # None => p.blind \/ p.port = host.vol.port
    /\ o.pc = "firewall" => Kept(o, p, "ps")
    /\ o.pc = "ps" => \/ p = Idle \/ Kept(o, p, "pull")
                      \/ Same(o, p) /\ p.pc = "issue" /\ p.reused = TRUE
    /\ o.pc = "pull" => p = Idle \/ Kept(o, p, "dns")
    /\ o.pc = "dns" => Kept(o, p, "rm")
    /\ o.pc = "rm" => Kept(o, p, "run")
    /\ o.pc = "run" => IF Succeeded(out) THEN Kept(o, p, "issue") ELSE Kept(o, p, "rm") \/ p = Idle
    /\ o.pc = "issue" => \/ p = Idle \/ Kept(o, p, "issue")
                         \/ /\ out = "ok" /\ Same(o, p) /\ p.pc = "save" /\ p.reused = o.reused
                            /\ p.rec.img = o.img /\ p.rec.clients = {o.user} /\ p.rec # None

\* teardown, add_user, delete_user, mtproxy_link.
DayTwoTable(o, out, p) ==
    /\ o.kind = "teardown" => p = Idle \/ (Same(o, p) /\ p.rec = o.rec)
    /\ o.kind = "mtproxy" => p = Idle \/ (Same(o, p) /\ p.pc # "save")
    /\ o.kind = "adduser" /\ o.pc = "connect" => p = Idle \/ Kept(o, p, "add")
    /\ o.kind = "adduser" /\ o.pc = "add" =>
           \/ p = Idle
           \/ /\ out = "ok" /\ Same(o, p) /\ p.pc = "save"
              /\ p.rec.img = o.rec.img /\ p.rec.clients = o.rec.clients \cup {o.user}
    /\ o.kind = "rmuser" /\ o.pc = "connect" => p = Idle \/ Kept(o, p, "delete")
    /\ o.kind = "rmuser" /\ o.pc = "delete" =>
           IF ~Succeeded(out) THEN p = Idle
           ELSE /\ Same(o, p) /\ p.pc = "save"
                /\ p.rec.img = o.rec.img /\ p.rec.clients = o.rec.clients \ {o.user}

\* The commands of each kind, spelled out.
LEMMA StepsOf ==
    /\ Steps("provision") = {"connect", "probe", "install", "ports", "firewall", "ps", "pull",
                             "dns", "rm", "run", "issue", "save"}
    /\ Steps("upgrade") = {"connect", "inspect", "ports", "pull", "rename", "stop", "rm", "run",
                           "ready", "cleanup", "undo", "restore", "start", "restored", "save"}
    /\ Steps("teardown") = {"connect", "remove", "volume", "etc", "save"}
    /\ Steps("adduser") = {"connect", "add", "save"}
    /\ Steps("rmuser") = {"connect", "delete", "save"}
    /\ Steps("mtproxy") = {"connect", "mtproxy", "enable", "restart"}
BY DEF Steps

\* An operation is not the idle marker.
LEMMA NotIdle == ASSUME NEW o, OperationOK(o) PROVE o # Idle
BY DEF OperationOK, Operations, Kinds, Idle

\* A step to a command of the same kind keeps all the operation knew.
LEMMA StepKept ==
    ASSUME NEW o, OperationOK(o), NEW pc \in Steps(o.kind), NEW k \in Nat
    PROVE  Kept(o, Step(o, pc, k), pc)
<1> DEFINE p == [o EXCEPT !.pc = pc, !.n = k]
<1>1. p \in Operations /\ p.pc = pc
  <2>1. o.kind \in Kinds
    BY DEF OperationOK, Operations
  <2>2. pc \in UNION {Steps(x) : x \in Kinds}
    BY <2>1
  <2> QED BY <2>2 DEF OperationOK, Operations
<1>2. /\ p.by = o.by /\ p.kind = o.kind /\ p.bak = o.bak /\ p.user = o.user /\ p.img = o.img
      /\ p.link = o.link /\ p.port = o.port /\ p.env = o.env /\ p.blind = o.blind /\ p.rec = o.rec
      /\ p.reused = o.reused
  BY DEF OperationOK, Operations
<1> HIDE DEF p
<1>3. OperationOK(p)
  BY <1>1, <1>2 DEF OperationOK
<1>4. Kept(o, p, pc)
  BY <1>1, <1>2, <1>3, NotIdle DEF Kept, Same
<1> QED BY <1>4 DEF p, Step

\* So does a step that restarts the attempt counter.
LEMMA GotoKept ==
    ASSUME NEW o, OperationOK(o), NEW pc \in Steps(o.kind)
    PROVE  Kept(o, Goto(o, pc), pc)
BY StepKept DEF Goto

\* Attempts are counted in the naturals.
LEMMA Counts == ASSUME NEW o, OperationOK(o) PROVE o.n \in Nat /\ o.n + 1 \in Nat
BY DEF OperationOK, Operations

\* run_container goes from rm to run, and from run back only when it failed.
LEMMA RunMoves ==
    ASSUME NEW o, OperationOK(o), {"rm", "run"} \subseteq Steps(o.kind), o.pc \in {"rm", "run"},
           NEW out, NEW done, NEW failed
    PROVE  /\ o.pc = "rm" => Kept(o, RunContainer(o, out, done, failed), "run")
           /\ o.pc = "run" => IF Succeeded(out) THEN RunContainer(o, out, done, failed) = done
                              ELSE \/ Kept(o, RunContainer(o, out, done, failed), "rm")
                                   \/ RunContainer(o, out, done, failed) = failed
<1>1. /\ o.n \in Nat /\ o.n + 1 \in Nat
      /\ "rm" \in Steps(o.kind) /\ "run" \in Steps(o.kind)
  BY Counts
<1>2. Kept(o, Step(o, "run", o.n), "run") /\ Kept(o, Step(o, "rm", o.n + 1), "rm")
  BY <1>1, StepKept
<1>3. CASE o.pc = "rm"
  <2>1. RunContainer(o, out, done, failed) = Step(o, "run", o.n)
    BY <1>3, Zenon DEF RunContainer
  <2> QED BY <1>2, <1>3, <2>1
<1>4. CASE o.pc = "run"
  <2>1. RunContainer(o, out, done, failed) =
          IF Succeeded(out) THEN done
          ELSE IF out = "inuse" /\ o.n + 1 < RunAttempts THEN Step(o, "rm", o.n + 1) ELSE failed
    <3>1. CASE Succeeded(out)
      <4>1. out # "inuse" BY <3>1 DEF Succeeded
      <4> QED BY <1>4, <3>1, <4>1, Zenon DEF RunContainer
    <3>2. CASE ~Succeeded(out)
      BY <1>4, <3>2, Zenon DEF RunContainer
    <3> QED BY <3>1, <3>2
  <2> QED BY <1>2, <1>4, <2>1
<1> QED BY <1>3, <1>4

\* wait_ready and exec_user_add end or poll again; only an answer is success.
LEMMA WaitMoves ==
    ASSUME NEW o, OperationOK(o), NEW out, NEW done, NEW failed
    PROVE  /\ IF Succeeded(out) THEN WaitReady(o, out, done, failed) = done
              ELSE \/ WaitReady(o, out, done, failed) = failed
                   \/ Kept(o, WaitReady(o, out, done, failed), o.pc)
           /\ ExecUserAdd(o, out, done, failed) = failed
                \/ Kept(o, ExecUserAdd(o, out, done, failed), o.pc)
                \/ (out = "ok" /\ ExecUserAdd(o, out, done, failed) = done)
<1>1. o.pc \in Steps(o.kind)
  BY DEF OperationOK
<1> QED BY <1>1, StepKept, Counts DEF WaitReady, ExecUserAdd

\* What an operation learns on its way.
WithEnv(q, e)     == [q EXCEPT !.env = e]
WithPort(q, x, y) == [q EXCEPT !.port = x, !.blind = y]
WithRec(q, r)     == [q EXCEPT !.rec = r]
Reusing(q)        == [q EXCEPT !.reused = TRUE]

\* Each of these changes what it names and nothing else.
LEMMA EnvUpdated ==
    ASSUME NEW q, OperationOK(q), NEW e \in Env, NEW p, p = WithEnv(q, e)
    PROVE  /\ Same(q, p) /\ p.pc = q.pc /\ p.env = e
           /\ p.rec = q.rec /\ p.port = q.port /\ p.blind = q.blind /\ p.reused = q.reused
<1>1. /\ p \in Operations /\ p.by = q.by /\ p.kind = q.kind /\ p.bak = q.bak /\ p.user = q.user
      /\ p.img = q.img /\ p.link = q.link /\ p.pc = q.pc /\ p.env = e /\ p.rec = q.rec
      /\ p.port = q.port /\ p.blind = q.blind /\ p.reused = q.reused
  BY DEF OperationOK, Operations, WithEnv
<1>2. OperationOK(p)
  BY <1>1 DEF OperationOK
<1> QED BY <1>1, <1>2, NotIdle DEF Same

\* An operation learns its port.
LEMMA PortUpdated ==
    ASSUME NEW q, OperationOK(q), NEW x \in Ports, NEW y \in BOOLEAN,
           NEW p, p = WithPort(q, x, y)
    PROVE  /\ Same(q, p) /\ p.pc = q.pc /\ p.port = x /\ p.blind = y
           /\ p.env = q.env /\ p.rec = q.rec /\ p.reused = q.reused
<1>1. /\ p \in Operations /\ p.by = q.by /\ p.kind = q.kind /\ p.bak = q.bak /\ p.user = q.user
      /\ p.img = q.img /\ p.link = q.link /\ p.pc = q.pc /\ p.env = q.env /\ p.rec = q.rec
      /\ p.port = x /\ p.blind = y /\ p.reused = q.reused
  BY DEF OperationOK, Operations, WithPort
<1>2. OperationOK(p)
  BY <1>1 DEF OperationOK
<1> QED BY <1>1, <1>2, NotIdle DEF Same

\* An operation builds its record.
LEMMA RecUpdated ==
    ASSUME NEW q, OperationOK(q), NEW r \in Record, NEW p, p = WithRec(q, r)
    PROVE  /\ Same(q, p) /\ p.pc = q.pc /\ p.rec = r
           /\ p.env = q.env /\ p.port = q.port /\ p.blind = q.blind /\ p.reused = q.reused
<1>1. /\ p \in Operations /\ p.by = q.by /\ p.kind = q.kind /\ p.bak = q.bak /\ p.user = q.user
      /\ p.img = q.img /\ p.link = q.link /\ p.pc = q.pc /\ p.env = q.env /\ p.rec = r
      /\ p.port = q.port /\ p.blind = q.blind /\ p.reused = q.reused
  BY DEF OperationOK, Operations, WithRec
<1>2. r # None
  BY ProvisionAssumption
<1>3. OperationOK(p)
  BY <1>1, <1>2 DEF OperationOK
<1> QED BY <1>1, <1>3, NotIdle DEF Same

\* A provisioning finds a container it can take over.
LEMMA ReusedUpdated ==
    ASSUME NEW q, OperationOK(q), q.kind = "provision", NEW p, p = Reusing(q)
    PROVE  /\ Same(q, p) /\ p.pc = q.pc /\ p.reused = TRUE
           /\ p.rec = q.rec /\ p.env = q.env /\ p.port = q.port /\ p.blind = q.blind
<1>1. /\ p \in Operations /\ p.by = q.by /\ p.kind = q.kind /\ p.bak = q.bak /\ p.user = q.user
      /\ p.img = q.img /\ p.link = q.link /\ p.pc = q.pc /\ p.env = q.env /\ p.rec = q.rec
      /\ p.port = q.port /\ p.blind = q.blind /\ p.reused = TRUE
  BY DEF OperationOK, Operations, Reusing
<1>2. OperationOK(p)
  BY <1>1 DEF OperationOK
<1> QED BY <1>1, <1>2, NotIdle DEF Same

\* The engine follows the tables, whatever a command answers.
LEMMA UpgradeMoves ==
    ASSUME NEW o, OperationOK(o), o.kind = "upgrade", o.pc # "save", host \in Host,
           NEW out, Readable(o, out)
    PROVE  UpgradeTable(o, out, Continue(o, out))
<1> DEFINE p == Continue(o, out)
           Gone(pc) == Kept(o, Goto(o, pc), pc)
<1>1. o.pc \in Steps("upgrade") /\ \A pc \in Steps("upgrade") : Gone(pc)
  BY GotoKept DEF OperationOK
<1>2. /\ Gone("inspect") /\ Gone("ports") /\ Gone("pull") /\ Gone("rename") /\ Gone("stop")
      /\ Gone("rm") /\ Gone("ready") /\ Gone("cleanup") /\ Gone("save") /\ Gone("undo")
      /\ Gone("restore") /\ Gone("start") /\ Gone("restored")
      /\ {"rm", "run"} \subseteq Steps(o.kind)
  BY <1>1, StepsOf
<1> HIDE DEF Gone
<1>3. CASE o.pc = "connect"
  <2>1. p = Then(o, out, "inspect")
    BY <1>3, Zenon DEF Continue, UpgradePrepare
  <2> QED BY <1>2, <1>3, <2>1 DEF UpgradeTable, Then, Gone
<1>4. CASE o.pc = "inspect"
  <2>1. p = IF out = "ok" THEN [Goto(o, "ports") EXCEPT !.env = host.ctr[Main].env] ELSE Idle
    BY <1>4, Zenon DEF Continue, UpgradePrepare
  <2>2. CASE out = "ok"
    <3>1. host.ctr[Main].env \in Env
      BY <1>4, <2>2 DEF Readable, Host, Container, Names
    <3>2. PICK q : q = Goto(o, "ports") /\ Kept(o, q, "ports")
      BY <1>2 DEF Gone
    <3>3. p = WithEnv(q, host.ctr[Main].env)
      BY <2>1, <2>2, <3>2 DEF WithEnv
    <3>4. Same(q, p) /\ p.pc = q.pc /\ p.env = host.ctr[Main].env /\ p.rec = q.rec
      BY <3>1, <3>2, <3>3, EnvUpdated DEF Kept, Same
    <3> QED BY <1>4, <2>2, <3>2, <3>4 DEF UpgradeTable, Kept, Same
  <2> QED BY <1>4, <2>1, <2>2 DEF UpgradeTable
<1>5. CASE o.pc = "ports"
  <2>1. p = [Goto(o, "pull") EXCEPT !.port = PublishPort(o, out, o.rec.port), !.blind = (out # "ok")]
    BY <1>5, Zenon DEF Continue, UpgradePrepare
  <2>2. PublishPort(o, out, o.rec.port) \in Ports /\ (out = "ok" => PublishPort(o, out, o.rec.port) = host.vol.port)
    <3>1. o.rec.port \in Ports
      BY DEF OperationOK, Operations, Record
    <3>2. out = "ok" => host.vol.port \in Ports
      BY <1>5 DEF Readable, Host, Volume
    <3> QED BY <3>1, <3>2 DEF PublishPort
  <2>3. PICK q, x, y : /\ q = Goto(o, "pull") /\ Kept(o, q, "pull")
                       /\ x = PublishPort(o, out, o.rec.port) /\ y = (out # "ok")
    BY <1>2 DEF Gone
  <2>4. p = WithPort(q, x, y)
    BY <2>1, <2>3, Zenon DEF WithPort
  <2>5. Same(q, p) /\ p.pc = q.pc /\ p.env = q.env /\ p.rec = q.rec /\ p.port = x /\ p.blind = y
    <3>1. OperationOK(q) /\ x \in Ports /\ y \in BOOLEAN
      BY <2>2, <2>3 DEF Kept, Same
    <3> QED BY <2>4, <3>1, PortUpdated
  <2> QED BY <1>5, <2>2, <2>3, <2>5 DEF UpgradeTable, Kept, Same
<1>6. CASE o.pc = "pull"
  <2>1. p = Then(o, out, "rename")
    BY <1>6, Zenon DEF Continue, UpgradePrepare
  <2> QED BY <1>2, <1>6, <2>1 DEF UpgradeTable, Then, Gone
<1>7. CASE o.pc = "rename"
  <2>1. p = Then(o, out, "stop")
    BY <1>7, Zenon DEF Continue, UpgradePrepare
  <2> QED BY <1>2, <1>7, <2>1 DEF UpgradeTable, Then, Gone
<1>8. CASE o.pc = "stop"
  <2>1. p = IF Succeeded(out) THEN Goto(o, "rm") ELSE Goto(o, "undo")
    BY <1>8, Zenon DEF Continue, UpgradeReplace
  <2> QED BY <1>2, <1>8, <2>1 DEF UpgradeTable, Gone
<1>9. CASE o.pc \in {"rm", "run"}
  <2>1. p = RunContainer(o, out, Goto(o, "ready"), Goto(o, "undo"))
    BY <1>9, Zenon DEF Continue, UpgradeReplace
  <2>2. CASE o.pc = "rm"
    BY <1>2, <2>1, <2>2, RunMoves DEF UpgradeTable
  <2>3. CASE o.pc = "run"
    <3>1. IF Succeeded(out) THEN p = Goto(o, "ready")
                            ELSE Kept(o, p, "rm") \/ p = Goto(o, "undo")
      BY <1>2, <2>1, <2>3, RunMoves
    <3> QED BY <1>2, <2>3, <3>1 DEF UpgradeTable, Gone
  <2> QED BY <1>9, <2>2, <2>3
<1>10. CASE o.pc = "ready"
  <2>1. p = WaitReady(o, out, Goto(o, "cleanup"), Goto(o, "undo"))
    BY <1>10, Zenon DEF Continue, UpgradeReplace
  <2>2. IF Succeeded(out) THEN p = Goto(o, "cleanup")
                          ELSE p = Goto(o, "undo") \/ Kept(o, p, "ready")
    BY <1>10, <2>1, WaitMoves
  <2> QED BY <1>2, <1>10, <2>2 DEF UpgradeTable, Gone
<1>11. CASE o.pc = "cleanup"
  <2>1. p = [Goto(o, "save") EXCEPT !.rec.img = o.img, !.rec.port = o.port]
    BY <1>11, Zenon DEF Continue, UpgradeReplace
  <2>2. PICK q : q = Goto(o, "save") /\ Kept(o, q, "save")
    BY <1>2 DEF Gone
  <2>3. p = [q EXCEPT !.rec.img = o.img, !.rec.port = o.port]
    BY <2>1, <2>2
  <2>4. OperationOK(q) /\ q.rec \in Record /\ o.img \in Images /\ o.port \in Ports
    BY <2>2 DEF Kept, Same, OperationOK, Operations
  <2>5. PICK r : r = [q.rec EXCEPT !.img = o.img, !.port = o.port]
    OBVIOUS
  <2>6. r \in Record /\ r.img = o.img /\ r.clients = q.rec.clients
    BY <2>4, <2>5 DEF Record
  <2>7. p = WithRec(q, r)
    BY <2>3, <2>4, <2>5 DEF OperationOK, Operations, Record, WithRec
  <2>8. Same(q, p) /\ p.pc = q.pc /\ p.rec = r
    BY <2>4, <2>6, <2>7, RecUpdated
  <2> QED BY <1>11, <2>2, <2>6, <2>8 DEF UpgradeTable, Kept, Same
<1>12. CASE o.pc = "undo"
  <2>1. p = IF RemovedOrAbsent(out) THEN Goto(o, "restore") ELSE Idle
    BY <1>12, Zenon DEF Continue, UpgradeReplace
  <2> QED BY <1>2, <1>12, <2>1 DEF UpgradeTable, RemovedOrAbsent, Gone
<1>13. CASE o.pc = "restore"
  <2>1. p = Then(o, out, "start")
    BY <1>13, Zenon DEF Continue, UpgradeReplace
  <2> QED BY <1>2, <1>13, <2>1 DEF UpgradeTable, Then, Gone
<1>14. CASE o.pc = "start"
  <2>1. p = Then(o, out, "restored")
    BY <1>14, Zenon DEF Continue, UpgradeReplace
  <2> QED BY <1>2, <1>14, <2>1 DEF UpgradeTable, Then, Gone
<1>15. CASE o.pc = "restored"
  <2>1. p = WaitReady(o, out, Idle, Idle)
    BY <1>15, Zenon DEF Continue, UpgradeReplace
  <2>2. p = Idle \/ Kept(o, p, "restored")
    BY <1>15, <2>1, WaitMoves
  <2> QED BY <1>15, <2>2 DEF UpgradeTable
<1> QED
  BY <1>1, <1>3, <1>4, <1>5, <1>6, <1>7, <1>8, <1>9, <1>10, <1>11, <1>12, <1>13, <1>14, <1>15, StepsOf
\* Provisioning goes from command to command as its table says.
LEMMA ProvisionMoves ==
    ASSUME NEW o, OperationOK(o), o.kind = "provision", o.pc # "save", host \in Host,
           NEW out, Readable(o, out)
    PROVE  ProvisionTable(o, out, Continue(o, out))
<1> DEFINE p == Continue(o, out)
           Gone(pc) == Kept(o, Goto(o, pc), pc)
<1>1. o.pc \in Steps("provision") /\ \A pc \in Steps("provision") : Gone(pc)
  BY GotoKept DEF OperationOK
<1>2. /\ Gone("probe") /\ Gone("install") /\ Gone("ports") /\ Gone("firewall") /\ Gone("ps")
      /\ Gone("pull") /\ Gone("dns") /\ Gone("rm") /\ Gone("issue") /\ Gone("save")
      /\ {"rm", "run"} \subseteq Steps(o.kind)
  BY <1>1, StepsOf
<1> HIDE DEF Gone
<1>3. CASE o.pc = "connect"
  <2>1. p = Then(o, out, "probe")
    BY <1>3, Zenon DEF Continue, ProvisionPrepare
  <2> QED BY <1>2, <1>3, <2>1 DEF ProvisionTable, Then, Gone
<1>4. CASE o.pc = "probe"
  <2>1. p = IF out = "err" THEN Idle ELSE Goto(o, IF out = "yes" THEN "ports" ELSE "install")
    BY <1>4, Zenon DEF Continue, ProvisionPrepare
  <2> QED BY <1>2, <1>4, <2>1 DEF ProvisionTable, Gone
<1>5. CASE o.pc = "install"
  <2>1. p = Then(o, out, "ports")
    BY <1>5, Zenon DEF Continue, ProvisionPrepare
  <2> QED BY <1>2, <1>5, <2>1 DEF ProvisionTable, Then, Gone
<1>6. CASE o.pc = "ports"
  <2> DEFINE port == PublishPort(o, out, o.port)
  <2>1. p = [Goto(o, "firewall") EXCEPT !.port = port, !.env.listen = port,
                                          !.blind = (out # "ok" /\ host.vol # None)]
    BY <1>6, Zenon DEF Continue, ProvisionPrepare
  <2>2. port \in Ports /\ (out = "ok" => port = host.vol.port)
    <3>1. o.port \in Ports
      BY DEF OperationOK, Operations
    <3>2. out = "ok" => host.vol.port \in Ports
      BY <1>6 DEF Readable, Host, Volume
    <3> QED BY <3>1, <3>2 DEF PublishPort
  <2>3. PICK q, x : q = Goto(o, "firewall") /\ Kept(o, q, "firewall") /\ x = port
    BY <1>2 DEF Gone
  <2>4. OperationOK(q) /\ q.blind \in BOOLEAN /\ q.env \in Env
    BY <2>3 DEF Kept, Same, OperationOK, Operations
  <2>5. PICK e : e = [q.env EXCEPT !.listen = x]
    OBVIOUS
  <2>6. e \in Env /\ e.listen = x
    BY <2>2, <2>3, <2>4, <2>5 DEF Env
  <2>b. PICK y \in BOOLEAN : y = (out # "ok" /\ host.vol # None)
    BY Zenon
  <2>7. PICK q2 : q2 = WithPort(q, x, y)
    OBVIOUS
  <2>8. p = WithEnv(q2, e)
    <3>1. p = [q EXCEPT !.port = x, !.env.listen = x, !.blind = y]
      BY <2>1, <2>3, <2>b, Zenon
    <3> QED BY <3>1, <2>4, <2>5, <2>7 DEF OperationOK, Operations, Env, WithEnv, WithPort
  <2>9. Same(q, q2) /\ q2.pc = q.pc /\ q2.port = x /\ q2.blind = y
    <3>1. OperationOK(q) /\ x \in Ports /\ y \in BOOLEAN
      BY <2>2, <2>3, <2>4
    <3> QED BY <2>7, <3>1, PortUpdated
  <2>10. Same(q2, p) /\ p.pc = q2.pc /\ p.env = e /\ p.port = q2.port /\ p.blind = q2.blind
    BY <2>6, <2>8, <2>9, EnvUpdated DEF Same
  <2>11. host.vol # None => y \/ x = host.vol.port
    BY <2>3, <2>b DEF PublishPort
  <2> QED BY <1>6, <2>2, <2>3, <2>6, <2>9, <2>10, <2>11 DEF ProvisionTable, Kept, Same
<1>7. CASE o.pc = "firewall"
  <2>1. p = Goto(o, "ps")
    BY <1>7, Zenon DEF Continue, ProvisionPrepare, FirewallStep
  <2> QED BY <1>2, <1>7, <2>1 DEF ProvisionTable, Gone
<1>8. CASE o.pc = "ps"
  <2>1. p = IF out = "err" THEN Idle
            ELSE IF out = "yes" THEN [Goto(o, "issue") EXCEPT !.reused = TRUE] ELSE Goto(o, "pull")
    BY <1>8, Zenon DEF Continue, ProvisionPrepare
  <2>2. CASE out = "yes"
    <3>1. PICK q : q = Goto(o, "issue") /\ Kept(o, q, "issue")
      BY <1>2 DEF Gone
    <3>2. p = Reusing(q)
      BY <2>1, <2>2, <3>1, Zenon DEF Reusing
    <3>3. Same(q, p) /\ p.pc = q.pc /\ p.reused = TRUE /\ p.blind = q.blind
      <4>1. OperationOK(q) /\ q.kind = "provision"
        BY <3>1 DEF Kept, Same
      <4> QED BY <3>2, <4>1, ReusedUpdated, Zenon
    <3> QED BY <1>8, <3>1, <3>3 DEF ProvisionTable, Kept, Same
  <2> QED BY <1>2, <1>8, <2>1, <2>2 DEF ProvisionTable, Gone
<1>9. CASE o.pc = "pull"
  <2>1. p = Then(o, out, "dns")
    BY <1>9, Zenon DEF Continue, ProvisionRun
  <2> QED BY <1>2, <1>9, <2>1 DEF ProvisionTable, Then, Gone
<1>10. CASE o.pc = "dns"
  <2>1. p = Goto(o, "rm")
    BY <1>10, Zenon DEF Continue, ProvisionRun, DetectHostDns
  <2> QED BY <1>2, <1>10, <2>1 DEF ProvisionTable, Gone
<1>11. CASE o.pc \in {"rm", "run"}
  <2>1. p = RunContainer(o, out, Goto(o, "issue"), Idle)
    BY <1>11, Zenon DEF Continue, ProvisionRun
  <2>2. CASE o.pc = "rm"
    BY <1>2, <2>1, <2>2, RunMoves DEF ProvisionTable
  <2>3. CASE o.pc = "run"
    <3>1. IF Succeeded(out) THEN p = Goto(o, "issue") ELSE Kept(o, p, "rm") \/ p = Idle
      BY <1>2, <2>1, <2>3, RunMoves
    <3> QED BY <1>2, <2>3, <3>1 DEF ProvisionTable, Gone
  <2> QED BY <1>11, <2>2, <2>3
<1>12. CASE o.pc = "issue"
  <2> DEFINE rec == [img |-> o.img, port |-> o.port, clients |-> {o.user}, cred |-> TRUE,
                     key |-> host.key]
  <2>1. p = ExecUserAdd(o, out, [Goto(o, "save") EXCEPT !.rec = rec], Idle)
    BY <1>12, Zenon DEF Continue, ProvisionIssue
  <2>2. \/ p = Idle \/ Kept(o, p, "issue")
        \/ (out = "ok" /\ p = [Goto(o, "save") EXCEPT !.rec = rec])
    BY <1>12, <2>1, WaitMoves
  <2>3. CASE out = "ok" /\ p = [Goto(o, "save") EXCEPT !.rec = rec]
    <3>0. rec \in Record /\ rec.img = o.img /\ rec.clients = {o.user}
      BY DEF OperationOK, Operations, Host, Record
    <3>1. rec \in Record /\ rec.img = o.img /\ rec.clients = {o.user} /\ rec # None
      BY <3>0, ProvisionAssumption
    <3>2. PICK q, r : q = Goto(o, "save") /\ Kept(o, q, "save") /\ r = rec
      BY <1>2 DEF Gone
    <3>3. p = WithRec(q, r)
      BY <2>3, <3>2, Zenon DEF WithRec
    <3>4. Same(q, p) /\ p.pc = q.pc /\ p.rec = r /\ p.reused = q.reused /\ p.blind = q.blind
      BY <3>1, <3>2, <3>3, RecUpdated DEF Kept, Same
    <3> QED BY <1>12, <2>3, <3>1, <3>2, <3>4 DEF ProvisionTable, Kept, Same
  <2> QED BY <1>12, <2>2, <2>3 DEF ProvisionTable
<1> QED
  BY <1>1, <1>3, <1>4, <1>5, <1>6, <1>7, <1>8, <1>9, <1>10, <1>11, <1>12, StepsOf
\* So do teardown, user management and the proxy switch.
LEMMA DayTwoMoves ==
    ASSUME NEW o, OperationOK(o), o.kind \in {"teardown", "adduser", "rmuser", "mtproxy"},
           o.pc # "save", NEW out
    PROVE  DayTwoTable(o, out, Continue(o, out))
<1> DEFINE p == Continue(o, out)
           Gone(pc) == Kept(o, Goto(o, pc), pc)
<1>1. \A pc \in Steps(o.kind) : Gone(pc)
  BY GotoKept DEF OperationOK
<1>2. o.pc \in Steps(o.kind)
  BY DEF OperationOK
<1>3. o.rec \in Record /\ (o.kind \in {"adduser", "rmuser"} => o.user \in Users)
  BY DEF OperationOK, Operations
<1> HIDE DEF Gone
<1>4. CASE o.kind = "teardown"
  <2>1. Gone("remove") /\ Gone("volume") /\ Gone("etc") /\ Gone("save")
    BY <1>1, <1>4, StepsOf
  <2>2. p = Teardown(o, out)
    BY <1>4, Zenon DEF Continue
  <2>3. CASE o.pc = "connect"
    <3>1. p = Then(o, out, "remove")
      BY <2>2, <2>3, Zenon DEF Teardown
    <3> QED BY <1>4, <2>1, <3>1 DEF DayTwoTable, Then, Gone, Kept
  <2>4. CASE o.pc = "remove"
    <3>1. p = IF ~RemovedOrAbsent(out) THEN Idle
              ELSE Goto(o, IF o.purge THEN "volume" ELSE "save")
      BY <2>2, <2>4, Zenon DEF Teardown
    <3> QED BY <1>4, <2>1, <3>1 DEF DayTwoTable, Gone, Kept
  <2>5. CASE o.pc = "volume"
    <3>1. p = IF RemovedOrAbsent(out) THEN Goto(o, "etc") ELSE Idle
      BY <2>2, <2>5, Zenon DEF Teardown
    <3> QED BY <1>4, <2>1, <3>1 DEF DayTwoTable, Gone, Kept
  <2>6. CASE o.pc = "etc"
    <3>1. p = Then(o, out, "save")
      BY <2>2, <2>6, Zenon DEF Teardown
    <3> QED BY <1>4, <2>1, <3>1 DEF DayTwoTable, Then, Gone, Kept
  <2> QED BY <1>2, <1>4, <2>3, <2>4, <2>5, <2>6, StepsOf
<1>5. CASE o.kind = "adduser"
  <2>1. Gone("add") /\ Gone("save") /\ o.pc \in {"connect", "add"}
    BY <1>1, <1>2, <1>5, StepsOf
  <2>2. p = AddUser(o, out)
    BY <1>5, Zenon DEF Continue
  <2>3. CASE o.pc = "connect"
    <3>1. p = Then(o, out, "add")
      BY <2>2, <2>3, Zenon DEF AddUser
    <3> QED BY <1>5, <2>1, <2>3, <3>1 DEF DayTwoTable, Then, Gone
  <2>4. CASE o.pc = "add"
    <3>1. p = IF out = "ok" THEN [Goto(o, "save") EXCEPT !.rec.clients = @ \cup {o.user}] ELSE Idle
      BY <2>2, <2>4, Zenon DEF AddUser
    <3>2. CASE out = "ok"
      <4>1. PICK q : q = Goto(o, "save") /\ Kept(o, q, "save")
        BY <2>1 DEF Gone
      <4>2. PICK r : r = [q.rec EXCEPT !.clients = q.rec.clients \cup {o.user}]
        OBVIOUS
      <4>3. r \in Record /\ r.img = o.rec.img /\ r.clients = o.rec.clients \cup {o.user}
        BY <1>3, <1>5, <4>1, <4>2 DEF Kept, Record
      <4>4. p = WithRec(q, r)
        <5>1. p = [q EXCEPT !.rec.clients = q.rec.clients \cup {o.user}]
          BY <3>1, <3>2, <4>1, Zenon
        <5> QED BY <4>1, <4>2, <5>1, <1>3 DEF WithRec, Kept, Same, OperationOK, Operations, Record
      <4>5. Same(q, p) /\ p.pc = q.pc /\ p.rec = r
        BY <4>1, <4>3, <4>4, RecUpdated DEF Kept, Same
      <4> QED BY <1>5, <2>4, <3>2, <4>1, <4>3, <4>5 DEF DayTwoTable, Kept, Same
    <3> QED BY <1>5, <2>4, <3>1, <3>2 DEF DayTwoTable
  <2> QED BY <2>1, <2>3, <2>4
<1>6. CASE o.kind = "rmuser"
  <2>1. Gone("delete") /\ Gone("save") /\ o.pc \in {"connect", "delete"}
    BY <1>1, <1>2, <1>6, StepsOf
  <2>2. p = DeleteUser(o, out)
    BY <1>6, Zenon DEF Continue
  <2>3. CASE o.pc = "connect"
    <3>1. p = Then(o, out, "delete")
      BY <2>2, <2>3, Zenon DEF DeleteUser
    <3> QED BY <1>6, <2>1, <2>3, <3>1 DEF DayTwoTable, Then, Gone
  <2>4. CASE o.pc = "delete"
    <3>1. p = IF Succeeded(out) THEN [Goto(o, "save") EXCEPT !.rec.clients = @ \ {o.user}] ELSE Idle
      BY <2>2, <2>4, Zenon DEF DeleteUser
    <3>2. CASE Succeeded(out)
      <4>1. PICK q : q = Goto(o, "save") /\ Kept(o, q, "save")
        BY <2>1 DEF Gone
      <4>2. PICK r : r = [q.rec EXCEPT !.clients = q.rec.clients \ {o.user}]
        OBVIOUS
      <4>3. r \in Record /\ r.img = o.rec.img /\ r.clients = o.rec.clients \ {o.user}
        BY <1>3, <4>1, <4>2 DEF Kept, Record
      <4>4. p = WithRec(q, r)
        <5>1. p = [q EXCEPT !.rec.clients = q.rec.clients \ {o.user}]
          BY <3>1, <3>2, <4>1, Zenon
        <5> QED BY <4>1, <4>2, <5>1, <1>3 DEF WithRec, Kept, Same, OperationOK, Operations, Record
      <4>5. Same(q, p) /\ p.pc = q.pc /\ p.rec = r
        BY <4>1, <4>3, <4>4, RecUpdated DEF Kept, Same
      <4> QED BY <1>6, <2>4, <3>2, <4>1, <4>3, <4>5 DEF DayTwoTable, Kept, Same
    <3> QED BY <1>6, <2>4, <3>1, <3>2 DEF DayTwoTable
  <2> QED BY <2>1, <2>3, <2>4
<1>7. CASE o.kind = "mtproxy"
  <2>1. Gone("mtproxy") /\ Gone("enable") /\ Gone("restart")
    BY <1>1, <1>7, StepsOf
  <2>2. p = MtProxyLink(o, out)
    BY <1>7, Zenon DEF Continue
  <2>3. CASE o.pc = "connect"
    <3>1. p = Then(o, out, "mtproxy")
      BY <2>2, <2>3, Zenon DEF MtProxyLink
    <3> QED BY <1>7, <2>1, <3>1 DEF DayTwoTable, Then, Gone, Kept
  <2>4. CASE o.pc = "mtproxy"
    <3>1. p = IF Succeeded(out) \/ out = "err" THEN Idle ELSE Goto(o, "enable")
      BY <2>2, <2>4, Zenon DEF MtProxyLink
    <3> QED BY <1>7, <2>1, <3>1 DEF DayTwoTable, Gone, Kept
  <2>5. CASE o.pc = "enable"
    <3>1. p = Then(o, out, "restart")
      BY <2>2, <2>5, Zenon DEF MtProxyLink
    <3> QED BY <1>7, <2>1, <3>1 DEF DayTwoTable, Then, Gone, Kept
  <2>6. CASE o.pc = "restart"
    <3>1. p = Idle
      BY <2>2, <2>6, Zenon DEF MtProxyLink
    <3> QED BY <1>7, <3>1 DEF DayTwoTable
  <2> QED BY <1>2, <1>7, <2>3, <2>4, <2>5, <2>6, StepsOf
<1> QED BY <1>4, <1>5, <1>6, <1>7
-----------------------------------------------------------------------------
(* The host as a table: what the command at o.pc makes of it.              *)

\* Commands that leave containers and volume alone.
Quiet == {"connect", "probe", "install", "ports", "firewall", "ps", "inspect", "pull", "dns",
          "ready", "restored", "mtproxy", "etc"}

\* g has the same containers and volume, n's container or the volume replaced.
Unmoved(g)   == g.ctr = host.ctr /\ g.vol = host.vol
Placed(g, n, c) == g.ctr = [host.ctr EXCEPT ![n] = c] /\ g.vol = host.vol
Moved(g, n, m) == /\ host.ctr[n] # None /\ host.ctr[m] = None /\ g.vol = host.vol
                  /\ g.ctr = [host.ctr EXCEPT ![m] = host.ctr[n], ![n] = None]
Booted(c) == [c EXCEPT !.st = "boot"]
Started(g, n, c) ==
    /\ g.ctr = [host.ctr EXCEPT ![n] = Booted(c)]
    /\ g.vol \in Volume /\ (host.vol # None => g.vol = host.vol)
    /\ host.vol = None => g.vol.port = c.env.listen
Ready(c) == c # None /\ c.st = "ready"

\* The host g and the answer the command at o.pc may give.
HostTable(o, g, out) ==
    /\ g \in Host
    /\ o.pc \in Quiet => Unmoved(g)
    /\ o.pc = "inspect" /\ out = "ok" => host.ctr[Main] # None
    /\ o.pc = "ports" => (out = "ok" <=> host.vol # None)
    /\ o.pc \in {"ready", "restored"} /\ Succeeded(out) => Ready(host.ctr[Main])
    /\ o.pc \in {"rm", "undo", "remove"} => Placed(g, Main, None)
    /\ o.pc = "cleanup" => Placed(g, o.bak, None)
    /\ o.pc = "run" =>
           \/ Unmoved(g) /\ out = "fail" /\ host.ctr[Main] # None
           \/ Placed(g, Main, Deployed(o)) /\ out = "inuse"
           \/ Started(g, Main, Deployed(o)) /\ out = "ok"
    /\ o.pc = "rename" =>
           (Unmoved(g) /\ out = "fail") \/ (Moved(g, Main, o.bak) /\ out = "ok")
    /\ o.pc = "restore" =>
           (Unmoved(g) /\ out = "fail") \/ (Moved(g, o.bak, Main) /\ out = "ok")
    /\ o.pc = "stop" =>
           \/ Unmoved(g)
           \/ /\ Up(host.ctr[o.bak])
              /\ Placed(g, o.bak, [host.ctr[o.bak] EXCEPT !.st = "stopped"])
    /\ o.pc = "start" =>
           \/ Unmoved(g) /\ out \in {"fail", "inuse"}
           \/ Unmoved(g) /\ Up(host.ctr[Main]) /\ out = "ok"
           \/ host.ctr[Main] # None /\ Started(g, Main, host.ctr[Main]) /\ out = "ok"
    /\ o.pc = "restart" =>
           Unmoved(g) \/ (host.ctr[Main] # None /\ Started(g, Main, host.ctr[Main]))
    /\ o.pc \in {"issue", "add", "delete", "enable"} =>
           \/ Unmoved(g) /\ out # "ok"
           \/ /\ g.ctr = host.ctr /\ Ready(host.ctr[Main]) /\ out = "ok"
              /\ g.vol \in Volume /\ g.vol.port = host.vol.port
              /\ o.pc \in {"issue", "add"} => g.vol.users = host.vol.users \cup {o.user}
              /\ o.pc = "delete" => g.vol.users = host.vol.users \ {o.user}
              /\ o.pc = "enable" => g.vol.users = host.vol.users
    /\ o.pc = "volume" => g.ctr = host.ctr /\ (g.vol = host.vol \/ \A n \in Names : g.ctr[n] = None)

\* The parts of a host.
LEMMA HostParts ==
    ASSUME host \in Host
    PROVE  /\ host.ctr \in [Names -> Container \cup {None}]
           /\ host.vol \in Volume \cup {None} /\ host.lag \in BOOLEAN
BY DEF Host

\* Placing a container keeps the rest.
LEMMA SetCtrPlaces ==
    ASSUME host \in Host, NEW n \in Names, NEW c \in Container \cup {None}
    PROVE  SetCtr(host, n, c) \in Host /\ Placed(SetCtr(host, n, c), n, c)
BY DEF Host, SetCtr, Placed

\* docker rm -f leaves no container of that name.
LEMMA RmPlaces ==
    ASSUME host \in Host, NEW n \in Names, NEW r \in DockerRm(host, n)
    PROVE  r.h \in Host /\ Placed(r.h, n, None)
<1>1. CASE host.ctr[n] = None
  <2>1. r = Result(host, "absent")
    BY <1>1 DEF DockerRm
  <2>2. host.ctr = [host.ctr EXCEPT ![n] = None]
    BY <1>1, HostParts
  <2> QED BY <2>1, <2>2 DEF Result, Placed
<1>2. CASE host.ctr[n] # None
  <2>1. PICK l \in BOOLEAN : r = Result([SetCtr(host, n, None) EXCEPT !.lag = l], "ok")
    BY <1>2, HostParts DEF DockerRm
  <2>2. PICK g : g = SetCtr(host, n, None) /\ g \in Host /\ Placed(g, n, None)
    BY SetCtrPlaces
  <2>3. r.h = [g EXCEPT !.lag = l]
    BY <2>1, <2>2 DEF Result
  <2> QED BY <2>2, <2>3 DEF Host, Placed
<1> QED BY <1>1, <1>2

\* docker rename moves a container to a free name or fails.
LEMMA RenameMoves ==
    ASSUME host \in Host, NEW n \in Names, NEW m \in Names, NEW r \in DockerRename(host, n, m)
    PROVE  /\ r.h \in Host
           /\ (Unmoved(r.h) /\ r.out = "fail") \/ (Moved(r.h, n, m) /\ r.out = "ok")
<1>1. CASE host.ctr[n] = None \/ host.ctr[m] # None
  <2>1. r = Result(host, "fail")
    BY <1>1 DEF DockerRename
  <2> QED BY <2>1 DEF Result, Unmoved
<1>2. CASE ~(host.ctr[n] = None \/ host.ctr[m] # None)
  <2>1. r = Result([host EXCEPT !.ctr[m] = host.ctr[n], !.ctr[n] = None], "ok")
    BY <1>2 DEF DockerRename
  <2>2. r.h = [host EXCEPT !.ctr[m] = host.ctr[n], !.ctr[n] = None] /\ r.out = "ok"
    BY <2>1 DEF Result
  <2>3. PICK c : c = [host.ctr EXCEPT ![m] = host.ctr[n], ![n] = None]
    OBVIOUS
  <2>4. c \in [Names -> Container \cup {None}]
    BY <2>3, HostParts
  <2>5. r.h = [host EXCEPT !.ctr = c]
    BY <2>2, <2>3 DEF Host
  <2>6. r.h \in Host /\ r.h.ctr = c /\ r.h.vol = host.vol
    BY <2>4, <2>5 DEF Host
  <2> QED BY <1>2, <2>2, <2>3, <2>6 DEF Moved
<1> QED BY <1>1, <1>2

\* Starting a container initialises the volume only when there is none.
LEMMA StartStarts ==
    ASSUME host \in Host, NEW n \in Names, NEW c \in Container
    PROVE  Start(host, n, c) \in Host /\ Started(Start(host, n, c), n, c)
<1> DEFINE v == IF host.vol # None THEN host.vol
                ELSE [port |-> c.env.listen, users |-> {}, mtproxy |-> c.env.mtproxy]
<1>1. v \in Volume /\ (host.vol # None => v = host.vol) /\ (host.vol = None => v.port = c.env.listen)
  BY HostParts DEF Container, Env, Volume
<1>2. Start(host, n, c) = [host EXCEPT !.ctr[n] = Booted(c), !.vol = v]
  BY DEF Start, Booted
<1>3. Booted(c) \in Container
  BY DEF Booted, Container
<1> HIDE DEF v
<1> QED BY <1>1, <1>2, <1>3, ZenonT(40) DEF Started, Host

\* What run_cmd asks for.
LEMMA DeployedIs ==
    ASSUME NEW o, OperationOK(o)
    PROVE  /\ Deployed(o) \in Container /\ Deployed(o).env = o.env /\ Deployed(o).pub = o.port
           /\ Deployed(o).blind = o.blind /\ Deployed(o).img = o.img /\ Deployed(o).st = "created"
BY DEF Deployed, Container, OperationOK, Operations

\* A server answers only from a volume that is there.
LEMMA ReadyVolume ==
    ASSUME host \in Host, HostOK, Ready(host.ctr[Main])
    PROVE  host.vol \in Volume
<1>1. Main \in Names
  BY DEF Names
<1>2. Fits(host.ctr[Main], host.vol)
  BY <1>1 DEF HostOK, Ready
<1>3. host.vol # None
  BY <1>2 DEF Fits, Ready
<1> QED BY <1>3, HostParts

\* Every command follows the table.
LEMMA HostMoves ==
    ASSUME host \in Host, HostOK, NEW o, OperationOK(o), o.pc # "save", NEW r \in Effect(host, o)
    PROVE  HostTable(o, r.h, r.out)
<1>1. Main \in Names /\ o.bak \in Names
  BY DEF OperationOK, Operations, Names
<1>2. CASE o.pc = "connect"
  <2>1. r \in {Connect(host, o)}
    BY <1>2, Zenon DEF Effect
  <2> QED BY <1>2, <2>1 DEF HostTable, Quiet, Result, Succeeded, Connect, Unmoved
<1>3. CASE o.pc = "probe"
  <2>1. r \in {Result(host, IF host.docker THEN "yes" ELSE "none")}
    BY <1>3, Zenon DEF Effect
  <2> QED BY <1>3, <2>1 DEF HostTable, Quiet, Result, Succeeded, Unmoved
<1>4. CASE o.pc = "install"
  <2>1. r \in {Result([host EXCEPT !.docker = TRUE], "ok")}
    BY <1>4, Zenon DEF Effect
  <2>2. r.h = [host EXCEPT !.docker = TRUE]
    BY <2>1 DEF Result
  <2>3. r.h \in Host /\ Unmoved(r.h)
    BY <2>2 DEF Host, Unmoved
  <2> QED BY <1>4, <2>3 DEF HostTable, Quiet
<1>5. CASE o.pc = "ports"
  <2>1. r \in {Result(host, IF host.vol = None THEN "none" ELSE "ok")}
    BY <1>5, Zenon DEF Effect
  <2> QED BY <1>5, <2>1 DEF HostTable, Quiet, Result, Succeeded, Unmoved
<1>6. CASE o.pc = "ps"
  <2>1. r \in {Result(host, IF Up(host.ctr[Main]) THEN "yes" ELSE "none")}
    BY <1>6, Zenon DEF Effect
  <2> QED BY <1>6, <2>1 DEF HostTable, Quiet, Result, Succeeded, Unmoved
<1>7. CASE o.pc = "inspect"
  <2>1. r \in {Result(host, IF host.ctr[Main] = None THEN "fail" ELSE "ok")}
    BY <1>7, Zenon DEF Effect
  <2> QED BY <1>7, <2>1 DEF HostTable, Quiet, Result, Succeeded, Unmoved
<1>8. CASE o.pc \in {"rm", "undo", "remove"}
  <2>1. r \in DockerRm(host, Main)
    BY <1>8, Zenon DEF Effect
  <2> QED BY <1>8, <2>1, <1>1, RmPlaces DEF HostTable, Quiet
<1>9. CASE o.pc = "cleanup"
  <2>1. r \in DockerRm(host, o.bak)
    BY <1>9, Zenon DEF Effect
  <2> QED BY <1>9, <2>1, <1>1, RmPlaces DEF HostTable, Quiet
<1>10. CASE o.pc = "run"
  <2>1. r \in DockerRun(host, Main, Deployed(o))
    BY <1>10, Zenon DEF Effect
  <2>2. /\ SetCtr(host, Main, Deployed(o)) \in Host
        /\ Placed(SetCtr(host, Main, Deployed(o)), Main, Deployed(o))
        /\ Start(host, Main, Deployed(o)) \in Host
        /\ Started(Start(host, Main, Deployed(o)), Main, Deployed(o))
    BY <1>1, SetCtrPlaces, StartStarts, DeployedIs
  <2>3. \/ r = Result(host, "fail") /\ host.ctr[Main] # None
        \/ r = Result(SetCtr(host, Main, Deployed(o)), "inuse")
        \/ r = Result(Start(host, Main, Deployed(o)), "ok")
    BY <2>1 DEF DockerRun
  <2> QED BY <1>10, <2>2, <2>3 DEF HostTable, Quiet, Result, Unmoved
<1>11. CASE o.pc = "rename"
  <2>1. r \in DockerRename(host, Main, o.bak)
    BY <1>11, Zenon DEF Effect
  <2>2. r.h \in Host /\ ((Unmoved(r.h) /\ r.out = "fail") \/ (Moved(r.h, Main, o.bak) /\ r.out = "ok"))
    BY <1>1, <2>1, RenameMoves
  <2> QED BY <1>11, <2>2 DEF HostTable, Quiet
<1>12. CASE o.pc = "restore"
  <2>1. r \in DockerRename(host, o.bak, Main)
    BY <1>12, Zenon DEF Effect
  <2>2. r.h \in Host /\ ((Unmoved(r.h) /\ r.out = "fail") \/ (Moved(r.h, o.bak, Main) /\ r.out = "ok"))
    BY <1>1, <2>1, RenameMoves
  <2> QED BY <1>12, <2>2 DEF HostTable, Quiet
<1>13. CASE o.pc = "stop"
  <2>1. r \in DockerStop(host, o.bak)
    BY <1>13, Zenon DEF Effect
  <2> QED BY <1>13, <2>1, <1>1 DEF HostTable, Quiet, Result, Succeeded, DockerStop, SetCtr, Placed, Unmoved, Host, Container, Up
<1>14. CASE o.pc = "start"
  <2>1. r \in DockerStart(host, Main)
    BY <1>14, Zenon DEF Effect
  <2>2. host.ctr[Main] # None =>
           Start(host, Main, host.ctr[Main]) \in Host /\ Started(Start(host, Main, host.ctr[Main]), Main, host.ctr[Main])
    BY <1>1, StartStarts, HostParts
  <2>3. \/ r \in {Result(host, "fail"), Result(host, "inuse")}
        \/ r = Result(host, "ok") /\ Up(host.ctr[Main])
        \/ r = Result(Start(host, Main, host.ctr[Main]), "ok") /\ host.ctr[Main] # None
    BY <2>1 DEF DockerStart
  <2> QED BY <1>14, <2>2, <2>3 DEF HostTable, Quiet, Result, Unmoved
<1>15. CASE o.pc = "restart"
  <2>1. r \in DockerRestart(host, Main)
    BY <1>15, Zenon DEF Effect
  <2>2. host.ctr[Main] # None =>
           Start(host, Main, host.ctr[Main]) \in Host /\ Started(Start(host, Main, host.ctr[Main]), Main, host.ctr[Main])
    BY <1>1, StartStarts, HostParts
  <2>3. \/ r = Result(host, "fail")
        \/ r = Result(Start(host, Main, host.ctr[Main]), "ok") /\ host.ctr[Main] # None
    BY <2>1 DEF DockerRestart
  <2> QED BY <1>15, <2>2, <2>3 DEF HostTable, Quiet, Result, Unmoved
<1>16. CASE o.pc \in {"ready", "restored"}
  <2>1. r \in DockerExec(host, Main, {Result(host, "ok")})
    BY <1>16, Zenon DEF Effect
  <2> QED BY <1>16, <2>1, <1>1 DEF HostTable, Quiet, Result, Succeeded, DockerExec, Unmoved, Ready, Up
<1>17. CASE o.pc = "mtproxy"
  <2>1. r \in MtProxyShow(host, Main)
    BY <1>17, Zenon DEF Effect
  <2> QED BY <1>17, <2>1, <1>1 DEF HostTable, Quiet, Result, Succeeded, MtProxyShow, DockerExec, Unmoved
<1>18. CASE o.pc \in {"issue", "add"}
  <2>0. o.user \in Users
    <3>1. o.kind \in {"provision", "adduser"}
      BY <1>18, StepsOf DEF OperationOK, Operations, Kinds
    <3> QED BY <3>1 DEF OperationOK
  <2>1. r \in UserAdd(host, Main, o.user)
    BY <1>18, Zenon DEF Effect
  <2>2. \/ r \in {Result(host, "fail"), Result(host, "unready")}
        \/ Ready(host.ctr[Main]) /\ r = Result([host EXCEPT !.vol.users = @ \cup {o.user}], "ok")
    BY <2>1 DEF UserAdd, DockerExec, Ready, Up
  <2>3. CASE Ready(host.ctr[Main]) /\ r = Result([host EXCEPT !.vol.users = @ \cup {o.user}], "ok")
    <3>1. host.vol \in Volume /\ o.user \in Users \cup {None}
      BY <2>3, ReadyVolume DEF OperationOK, Operations
    <3>2. r.h = [host EXCEPT !.vol.users = @ \cup {o.user}] /\ r.out = "ok"
      BY <2>3 DEF Result
    <3>3. /\ r.h \in Host /\ r.h.ctr = host.ctr /\ r.h.vol \in Volume
          /\ r.h.vol.port = host.vol.port /\ r.h.vol.users = host.vol.users \cup {o.user}
      BY <3>1, <3>2, <2>0 DEF Host, Volume
    <3> QED BY <1>18, <2>3, <3>2, <3>3 DEF HostTable, Quiet
  <2> QED BY <1>18, <2>2, <2>3 DEF HostTable, Quiet, Result, Unmoved
<1>19. CASE o.pc = "delete"
  <2>1. r \in UserRm(host, Main, o.user)
    BY <1>19, Zenon DEF Effect
  <2>2. \/ r \in {Result(host, "fail"), Result(host, "unready")}
        \/ Ready(host.ctr[Main]) /\ r = Result([host EXCEPT !.vol.users = @ \ {o.user}], "ok")
    BY <2>1 DEF UserRm, DockerExec, Ready, Up
  <2>3. CASE Ready(host.ctr[Main]) /\ r = Result([host EXCEPT !.vol.users = @ \ {o.user}], "ok")
    <3>1. host.vol \in Volume /\ o.user \in Users \cup {None}
      BY <2>3, ReadyVolume DEF OperationOK, Operations
    <3>2. r.h = [host EXCEPT !.vol.users = @ \ {o.user}] /\ r.out = "ok"
      BY <2>3 DEF Result
    <3>3. /\ r.h \in Host /\ r.h.ctr = host.ctr /\ r.h.vol \in Volume
          /\ r.h.vol.port = host.vol.port /\ r.h.vol.users = host.vol.users \ {o.user}
      BY <3>1, <3>2 DEF Host, Volume
    <3> QED BY <1>19, <2>3, <3>2, <3>3 DEF HostTable, Quiet
  <2> QED BY <1>19, <2>2, <2>3 DEF HostTable, Quiet, Result, Unmoved
<1>20. CASE o.pc = "enable"
  <2>1. r \in MtProxyEnable(host, Main)
    BY <1>20, Zenon DEF Effect
  <2>2. \/ r \in {Result(host, "fail"), Result(host, "unready")}
        \/ Ready(host.ctr[Main]) /\ r = Result([host EXCEPT !.vol.mtproxy = TRUE], "ok")
    BY <2>1 DEF MtProxyEnable, DockerExec, Ready, Up
  <2>3. CASE Ready(host.ctr[Main]) /\ r = Result([host EXCEPT !.vol.mtproxy = TRUE], "ok")
    <3>1. host.vol \in Volume /\ o.user \in Users \cup {None}
      BY <2>3, ReadyVolume DEF OperationOK, Operations
    <3>2. r.h = [host EXCEPT !.vol.mtproxy = TRUE] /\ r.out = "ok"
      BY <2>3 DEF Result
    <3>3. /\ r.h \in Host /\ r.h.ctr = host.ctr /\ r.h.vol \in Volume
          /\ r.h.vol.port = host.vol.port /\ r.h.vol.users = host.vol.users
      BY <3>1, <3>2 DEF Host, Volume
    <3> QED BY <1>20, <2>3, <3>2, <3>3 DEF HostTable, Quiet
  <2> QED BY <1>20, <2>2, <2>3 DEF HostTable, Quiet, Result, Unmoved
<1>21. CASE o.pc = "volume"
  <2>1. r \in VolumeRm(host)
    BY <1>21, Zenon DEF Effect
  <2> QED BY <1>21, <2>1, <1>1 DEF HostTable, Quiet, Result, Succeeded, VolumeRm, Host
<1>22. CASE o.pc \in {"pull", "firewall", "dns", "etc"}
  <2>1. r \in {Result(host, "ok")}
    BY <1>22, Zenon DEF Effect
  <2> QED BY <1>22, <2>1 DEF HostTable, Quiet, Result, Succeeded, Unmoved
<1> QED
  <2>1. o.pc \in Steps(o.kind) /\ o.kind \in Kinds
    BY DEF OperationOK, Operations
  <2> QED BY <1>2, <1>3, <1>4, <1>5, <1>6, <1>7, <1>8, <1>9, <1>10, <1>11, <1>12, <1>13, <1>14, <1>15, <1>16, <1>17, <1>18, <1>19, <1>20, <1>21, <1>22, <2>1, StepsOf DEF Kinds
-----------------------------------------------------------------------------
(* What a command leaves of the host, whether its answer arrives or not.   *)

\* A started container is the one that was there.
LEMMA BootedIs ==
    ASSUME NEW c \in Container
    PROVE  /\ Booted(c) \in Container /\ Booted(c) # None /\ Booted(c).st = "boot"
           /\ Booted(c).img = c.img /\ Booted(c).pub = c.pub /\ Booted(c).env = c.env
           /\ Booted(c).blind = c.blind
<1>1. Booted(c) \in Container
  BY DEF Booted, Container
<1>2. Booted(c) # None
  BY <1>1, ProvisionAssumption
<1> QED BY <1>1, <1>2 DEF Booted, Container

\* A stopped container.
Halted(c) == [c EXCEPT !.st = "stopped"]

\* It is the one that was there, too.
LEMMA HaltedIs ==
    ASSUME NEW c \in Container
    PROVE  /\ Halted(c) \in Container /\ Halted(c) # None /\ Halted(c).st = "stopped"
           /\ Halted(c).img = c.img /\ Halted(c).pub = c.pub /\ Halted(c).env = c.env
           /\ Halted(c).blind = c.blind
<1>1. Halted(c) \in Container
  BY DEF Halted, Container
<1>2. Halted(c) # None
  BY <1>1, ProvisionAssumption
<1> QED BY <1>1, <1>2 DEF Halted, Container

\* The kind of operation that has such a command.
LEMMA KindOf ==
    ASSUME NEW o, OperationOK(o)
    PROVE  /\ o.pc \in {"stop", "rename", "restore", "undo", "cleanup", "start", "ready",
                        "restored", "inspect"} => o.kind = "upgrade"
           /\ o.pc \in {"rm", "run", "ports", "pull"} => o.kind \in {"provision", "upgrade"}
           /\ o.pc = "issue" => o.kind = "provision"
           /\ o.pc \in {"remove", "volume", "etc"} => o.kind = "teardown"
           /\ o.pc = "add" => o.kind = "adduser"
           /\ o.pc = "delete" => o.kind = "rmuser"
           /\ o.pc \in {"mtproxy", "enable", "restart"} => o.kind = "mtproxy"
<1>1. o.pc \in Steps(o.kind) /\ o.kind \in Kinds
  BY DEF OperationOK, Operations
<1> QED BY <1>1, StepsOf DEF Kinds

\* A started container suits the volume, which the others already had.
LEMMA StartFits ==
    ASSUME host \in Host, host' \in Host, HostOK, NEW c \in Container, Fits(c, host.vol),
           Started(host', Main, c)
    PROVE  /\ HostOK' /\ host'.vol # None /\ Fits(Booted(c), host'.vol)
           /\ \A n \in Names \ {Main} : host'.ctr[n] = host.ctr[n]
           /\ \A d : Fits(d, host.vol) /\ d.env = c.env => Fits(d, host'.vol)
<1>1. /\ host'.ctr[Main] = Booted(c) /\ \A n \in Names \ {Main} : host'.ctr[n] = host.ctr[n]
  BY HostParts DEF Started, Names
<1>2. host'.vol # None
  BY ProvisionAssumption DEF Started
<1>3. /\ Fits(Booted(c), host'.vol)
      /\ \A d : Fits(d, host.vol) /\ d.env = c.env => Fits(d, host'.vol)
  BY <1>2, BootedIs DEF Fits, Started
<1>4. ASSUME NEW n \in Names, host'.ctr[n] # None
      PROVE  /\ n = Main \/ host'.ctr[n].st # "created" => Fits(host'.ctr[n], host'.vol)
             /\ host'.ctr[n].st = "ready" => Good(host'.ctr[n])
  <2>1. CASE n = Main
    BY <1>1, <1>3, <2>1, BootedIs
  <2>2. CASE n # Main
    BY <1>1, <1>4, <2>2 DEF HostOK, Fits, Started
  <2> QED BY <2>1, <2>2
<1> QED BY <1>1, <1>2, <1>3, <1>4 DEF HostOK

\* What an operation deploys suits the volume.
LEMMA DeployFits ==
    ASSUME IInv, op # Idle, op.link, op.pc = "run"
    PROVE  Deployed(op) \in Container /\ Fits(Deployed(op), host.vol)
<1>1. OperationOK(op) /\ op.kind \in {"provision", "upgrade"}
  BY KindOf DEF IInv, TypeOK
<1>2. /\ Deployed(op) \in Container /\ Deployed(op).env = op.env /\ Deployed(op).pub = op.port
      /\ Deployed(op).blind = op.blind /\ Deployed(op).st = "created"
  BY <1>1, DeployedIs
<1>3. CASE op.kind = "provision"
  BY <1>2, <1>3 DEF IInv, PortsKnown, At, Fits
<1>4. CASE op.kind = "upgrade"
  BY <1>2, <1>4 DEF IInv, PortsKnown, At, Fits, Aside
<1> QED BY <1>1, <1>2, <1>3, <1>4

\* Every command keeps containers and volume suited to each other.
LEMMA HostKept ==
    ASSUME IInv, op # Idle, op.link, op.pc # "save", NEW out, HostTable(op, host', out)
    PROVE  HostOK'
<1>1. /\ OperationOK(op) /\ host \in Host /\ host' \in Host /\ HostOK
      /\ op.bak \in Names /\ Main \in Names
      /\ host.ctr \in [Names -> Container \cup {None}] /\ host'.ctr \in [Names -> Container \cup {None}]
  BY HostParts DEF IInv, TypeOK, HostTable, OperationOK, Operations, Names, Host
<1>2. CASE Unmoved(host')
  BY <1>1, <1>2 DEF HostOK, Unmoved
<1>3. ASSUME NEW n \in Names, Placed(host', n, None)
      PROVE  HostOK'
  BY <1>1, <1>3 DEF HostOK, Placed
<1>4. CASE op.pc = "run"
  <2>1. CASE Placed(host', Main, Deployed(op))
    <3>1. Deployed(op).st = "created"
      BY <1>1, DeployedIs
    <3> QED BY <1>1, <1>4, <2>1, <3>1, DeployFits DEF HostOK, Placed
  <2>2. CASE Started(host', Main, Deployed(op))
    BY <1>1, <1>4, <2>2, DeployFits, StartFits
  <2> QED BY <1>2, <1>4, <2>1, <2>2 DEF HostTable
<1>5. CASE op.pc = "rename"
  <2>1. CASE Moved(host', Main, op.bak)
    BY <1>1, <2>1 DEF HostOK, Moved
  <2> QED BY <1>2, <1>5, <2>1 DEF HostTable
<1>6. CASE op.pc = "restore"
  <2>1. Fits(host.ctr[op.bak], host.vol)
    BY <1>1, <1>6, KindOf DEF IInv, PortsKnown, At, Aside
  <2>2. CASE Moved(host', op.bak, Main)
    BY <1>1, <2>1, <2>2 DEF HostOK, Moved
  <2> QED BY <1>2, <1>6, <2>2 DEF HostTable
<1>7. CASE op.pc = "stop"
  <2>1. CASE Up(host.ctr[op.bak]) /\ Placed(host', op.bak, Halted(host.ctr[op.bak]))
    <3>1. host.ctr[op.bak] \in Container
      BY <1>1, <2>1 DEF Up
    <3>2. Fits(host.ctr[op.bak], host.vol) /\ host.ctr[op.bak].st # "created"
      BY <1>1, <2>1 DEF HostOK, Up
    <3>3. Fits(Halted(host.ctr[op.bak]), host.vol)
      BY <3>1, <3>2, HaltedIs DEF Fits
    <3> QED BY <1>1, <2>1, <3>1, <3>3, HaltedIs DEF HostOK, Placed
  <2> QED BY <1>2, <1>7, <2>1 DEF HostTable, Halted
<1>8. CASE op.pc \in {"start", "restart"}
  <2>1. CASE host.ctr[Main] # None /\ Started(host', Main, host.ctr[Main])
    <3>1. host.ctr[Main] \in Container /\ Fits(host.ctr[Main], host.vol)
      BY <1>1, <2>1 DEF HostOK
    <3> QED BY <1>1, <2>1, <3>1, StartFits
  <2> QED BY <1>2, <1>8, <2>1 DEF HostTable
<1>9. CASE op.pc \in {"issue", "add", "delete", "enable"}
  <2>1. CASE /\ host'.ctr = host.ctr /\ Ready(host.ctr[Main])
             /\ host'.vol \in Volume /\ host'.vol.port = host.vol.port
    <3>1. host.vol # None /\ host'.vol # None
      BY <1>1, <2>1, ReadyVolume, ProvisionAssumption
    <3> QED BY <1>1, <2>1, <3>1 DEF HostOK, Fits
  <2> QED BY <1>2, <1>9, <2>1 DEF HostTable
<1>10. CASE op.pc = "volume"
  BY <1>1, <1>10 DEF HostTable, HostOK
<1> QED
  <2>1. op.pc \in Steps(op.kind) /\ op.kind \in Kinds
    BY <1>1 DEF OperationOK, Operations
  <2>2. CASE op.pc \in Quiet
    BY <1>2, <2>2 DEF HostTable
  <2>3. CASE op.pc \in {"rm", "undo", "remove", "cleanup"}
    BY <1>1, <1>3, <2>3 DEF HostTable
  <2> QED
    BY <1>4, <1>5, <1>6, <1>7, <1>8, <1>9, <1>10, <2>1, <2>2, <2>3, StepsOf DEF Kinds, Quiet

-----------------------------------------------------------------------------
(* The tables together, and what they say of any step of any operation.    *)

\* The table of the operation's kind.
Table(o, out, p) ==
    /\ o.kind = "provision" => ProvisionTable(o, out, p)
    /\ o.kind = "upgrade" => UpgradeTable(o, out, p)
    /\ o.kind \notin {"provision", "upgrade"} => DayTwoTable(o, out, p)

\* The engine follows it.
LEMMA Moves ==
    ASSUME NEW o, OperationOK(o), o.pc # "save", host \in Host, NEW out, Readable(o, out)
    PROVE  Table(o, out, Continue(o, out))
<1>1. o.kind \in Kinds
  BY DEF OperationOK, Operations
<1> QED BY <1>1, ProvisionMoves, UpgradeMoves, DayTwoMoves DEF Table, Kinds

\* The next command belongs to the same operation, and the record in hand
\* stays until it is changed to be saved.
LEMMA GoesOn ==
    ASSUME NEW o, OperationOK(o), o.pc # "save", NEW out, NEW p, Table(o, out, p)
    PROVE  \/ p = Idle
           \/ /\ Same(o, p)
              /\ o.kind = "provision" /\ p.pc = "save" => p.rec # None
              /\ o.kind \notin {"provision", "mtproxy"} /\ p.pc # "save" => p.rec = o.rec
<1>1. o.pc \in Steps(o.kind) /\ o.kind \in Kinds
  BY DEF OperationOK, Operations
<1>2. CASE o.kind = "provision"
  <2>1. CASE o.pc \in {"connect", "probe", "install"}
    BY <1>2, <2>1 DEF Table, ProvisionTable, Kept
  <2>2. CASE o.pc \in {"ports", "firewall", "ps", "pull", "dns", "rm", "run", "issue"}
    BY <1>2, <2>2 DEF Table, ProvisionTable, Kept
  <2> QED BY <1>1, <1>2, <2>1, <2>2, StepsOf
<1>3. CASE o.kind = "upgrade"
  BY <1>1, <1>3, StepsOf DEF Table, UpgradeTable, Kept
<1>4. CASE o.kind \in {"teardown", "adduser", "rmuser", "mtproxy"}
  BY <1>1, <1>4, StepsOf DEF Table, DayTwoTable, Kept
<1> QED BY <1>1, <1>2, <1>3, <1>4 DEF Kinds

\* A failure that is only noted moves the operation like any other.
LEMMA FailureNoted ==
    ASSUME NEW q, OperationOK(q), NEW o, o = [q EXCEPT !.failed = TRUE]
    PROVE  /\ OperationOK(o) /\ o.pc = q.pc /\ o.kind = q.kind
           /\ \A out, p : Table(o, out, p) => Table(q, out, p)
<1>1. /\ o \in Operations /\ o.by = q.by /\ o.kind = q.kind /\ o.bak = q.bak /\ o.user = q.user
      /\ o.img = q.img /\ o.link = q.link /\ o.pc = q.pc /\ o.env = q.env /\ o.rec = q.rec
      /\ o.port = q.port /\ o.blind = q.blind /\ o.reused = q.reused
  BY DEF OperationOK, Operations
<1>2. OperationOK(o)
  BY <1>1 DEF OperationOK
<1>3. ASSUME NEW p PROVE /\ Same(o, p) = Same(q, p)
                         /\ \A pc : Kept(o, p, pc) = Kept(q, p, pc)
  BY <1>1 DEF Same, Kept
<1>4. ASSUME NEW out, NEW p, Table(o, out, p) PROVE Table(q, out, p)
  <2>1. CASE q.kind = "provision"
    BY <1>1, <1>3, <1>4, <2>1, ZenonT(40) DEF Table, ProvisionTable
  <2>2. CASE q.kind = "upgrade"
    <3>1. UpgradeTable(o, out, p)
      BY <1>1, <1>4, <2>2 DEF Table
    <3>5. UpgradeTable(q, out, p)
      <4>2. CASE q.pc \in {"connect", "inspect", "pull", "rename", "stop", "rm", "run"}
        BY <1>1, <1>3, <3>1, <4>2, ZenonT(40) DEF UpgradeTable
      <4>3. CASE q.pc = "ports"
        BY <1>1, <1>3, <3>1, <4>3 DEF UpgradeTable
      <4>4. CASE q.pc \notin {"connect", "inspect", "ports", "pull", "rename", "stop", "rm", "run"}
        BY <1>1, <1>3, <3>1, <4>4, ZenonT(40) DEF UpgradeTable
      <4> QED BY <4>2, <4>3, <4>4
    <3> QED BY <2>2, <3>5 DEF Table
  <2>3. CASE q.kind \notin {"provision", "upgrade"}
    BY <1>1, <1>3, <1>4, <2>3 DEF Table, DayTwoTable
  <2> QED BY <2>1, <2>2, <2>3
<1> QED BY <1>1, <1>2, <1>4

\* The connection is lost under an operation.
LEMMA LinkLost ==
    ASSUME NEW q, OperationOK(q), NEW o, o = [q EXCEPT !.link = FALSE]
    PROVE  /\ OperationOK(o) /\ o.by = q.by /\ o.pc = q.pc /\ o.kind = q.kind /\ o.rec = q.rec
           /\ o.blind = q.blind /\ o.reused = q.reused /\ o.link = FALSE
<1>1. /\ o \in Operations /\ o.by = q.by /\ o.kind = q.kind /\ o.bak = q.bak /\ o.user = q.user
      /\ o.link = FALSE /\ o.pc = q.pc /\ o.rec = q.rec /\ o.blind = q.blind
      /\ o.reused = q.reused
  BY DEF OperationOK, Operations
<1> QED BY <1>1 DEF OperationOK

-----------------------------------------------------------------------------
(* The server is not lost, whatever becomes of the answer.                 *)

\* Unless a provision gives it up, a working container survives each command.
LEMMA ServerStays ==
    ASSUME IInv, op # Idle, op.link, op.pc # "save", NEW out, HostTable(op, host', out),
           live, ~GivesUp
    PROVE  \E n \in Names : Good(host'.ctr[n])
<1>1. /\ OperationOK(op) /\ host \in Host /\ op.bak \in Names /\ Main \in Names
      /\ host.ctr \in [Names -> Container \cup {None}]
  BY HostParts DEF IInv, TypeOK, OperationOK, Operations, Names
<1>2. PICK n \in Names : Good(host.ctr[n])
  BY DEF IInv, ServerKept
<1>3. CASE host'.ctr = host.ctr
  BY <1>2, <1>3
<1>4. ASSUME NEW m \in Names, NEW c, host'.ctr = [host.ctr EXCEPT ![m] = c],
             c.img = host.ctr[m].img, c # None
      PROVE  Good(host'.ctr[n])
  BY <1>1, <1>2, <1>4 DEF Good
<1>5. CASE op.pc \in {"rm", "run", "undo"}
  <2>1. op.kind = "upgrade"
    <3>1. op.kind = "provision" => op.pc # "run"
      BY DEF IInv, ServerKept, At
    <3> QED BY <1>1, <1>5, <3>1, KindOf DEF GivesUp
  <2>2. PICK b \in Backups : Good(host.ctr[b])
    BY <1>5, <2>1 DEF IInv, ServerKept, At, Aside
  <2>3. b \in Names /\ b # Main
    BY ProvisionAssumption DEF Names
  <2>4. host'.ctr[b] = host.ctr[b]
    BY <1>1, <1>5, <2>3 DEF HostTable, Placed, Started, Unmoved
  <2> QED BY <2>2, <2>3, <2>4
<1>6. CASE op.pc = "cleanup"
  <2>1. op.kind = "upgrade" /\ Good(host.ctr[Main])
    BY <1>1, <1>6, KindOf DEF IInv, ServerKept, At
  <2>2. op.bak # Main
    BY <1>1, <2>1, ProvisionAssumption DEF OperationOK
  <2> QED BY <1>1, <1>6, <2>1, <2>2 DEF HostTable, Placed
<1>7. CASE op.pc \in {"rename", "restore"}
  BY <1>1, <1>2, <1>7 DEF HostTable, Moved, Unmoved, Good
<1>8. CASE op.pc = "stop"
  <2>1. CASE Up(host.ctr[op.bak]) /\ Placed(host', op.bak, Halted(host.ctr[op.bak]))
    <3>1. host.ctr[op.bak] \in Container
      BY <1>1, <2>1 DEF Up
    <3> QED BY <1>1, <1>4, <2>1, <3>1, HaltedIs DEF Placed
  <2> QED BY <1>3, <1>8, <2>1 DEF HostTable, Halted, Unmoved
<1>9. CASE op.pc \in {"start", "restart"}
  <2>1. CASE host.ctr[Main] # None /\ Started(host', Main, host.ctr[Main])
    <3>1. host.ctr[Main] \in Container
      BY <1>1, <2>1
    <3> QED BY <1>1, <1>4, <2>1, <3>1, BootedIs DEF Started
  <2> QED BY <1>3, <1>9, <2>1 DEF HostTable, Unmoved
<1>10. op.pc # "remove"
  BY <1>1, KindOf DEF IInv, ServerKept
<1> QED
  <2>1. op.pc \in Steps(op.kind) /\ op.kind \in Kinds
    BY <1>1 DEF OperationOK, Operations
  <2>2. CASE op.pc \in Quiet \cup {"issue", "add", "delete", "enable", "volume"}
    BY <1>3, <2>2 DEF HostTable, Unmoved
  <2> QED BY <1>5, <1>6, <1>7, <1>8, <1>9, <1>10, <2>1, <2>2, StepsOf DEF Kinds, Quiet
-----------------------------------------------------------------------------
(* A command that is answered.                                             *)

\* The answer of a command that failed.
Refused(o, out) == out = "fail" \/ (out = "none" /\ o.pc \in {"probe", "ports"})

\* The command at op.pc ran, or failed without effect, and answered out.
Answered(out) ==
    /\ op # Idle /\ op.link /\ op.pc # "save" /\ Table(op, out, op')
    /\ HostTable(op, host', out) \/ (host' = host /\ Refused(op, out))
    /\ truthful' = Vouched(out) /\ live' = (live /\ ~GivesUp) /\ vault' = vault

\* What an answered command leaves of the host and of what is vouched for.
LEMMA AnsweredHost ==
    ASSUME IInv, NEW out, Answered(out)
    PROVE  /\ host' \in Host /\ HostOK' /\ (live' => \E n \in Names : Good(host'.ctr[n]))
           /\ truthful' \subseteq truthful /\ (live' => live)
<1>1. CASE HostTable(op, host', out)
  BY <1>1, HostKept, ServerStays DEF Answered, HostTable, Vouched
<1>2. CASE host' = host
  BY <1>2 DEF Answered, IInv, TypeOK, HostOK, ServerKept, Vouched
<1> QED BY <1>1, <1>2 DEF Answered

\* The parts of the invariant about the operation under way.
Rest == PortsKnown /\ ServerKept /\ RecordKept /\ RecordBuilt

\* An operation that ends leaves the host and the records as they should be.
LEMMA EndKeeps ==
    ASSUME op' = Idle, (live => \E n \in Names : Good(host.ctr[n]))',
           \A m \in truthful' : vault'[m] # None /\ Describes(host.ctr[Main], vault[m])'
    PROVE  Rest'
BY DEF Rest, PortsKnown, ServerKept, RecordKept, RecordBuilt, At

\* An upgrade: the old container is moved aside with all that is needed to
\* take it back, and goes only once the new one answered.
LEMMA UpgradeKeeps ==
    ASSUME IInv, NEW out, Answered(out), op.kind = "upgrade"
    PROVE  Rest'
<1>1. /\ OperationOK(op) /\ host \in Host /\ host' \in Host /\ HostOK /\ HostOK'
      /\ op.bak \in Backups /\ op.bak \in Names /\ Main \in Names /\ op.bak # Main
      /\ host.ctr \in [Names -> Container \cup {None}] /\ op # Idle /\ op.link
      /\ host'.ctr \in [Names -> Container \cup {None}]
  BY AnsweredHost, HostParts, ProvisionAssumption
     DEF IInv, TypeOK, OperationOK, Operations, Names, Answered, Host
<1>2. /\ op.kind = "upgrade" /\ vault' = vault /\ live' = live /\ truthful' = Vouched(out)
      /\ truthful' \subseteq truthful
      /\ live => \E n \in Names : Good(host'.ctr[n])
      /\ \A m \in truthful : vault[m] # None
  <2>1. ~GivesUp
    BY DEF GivesUp
  <2>2. live \in BOOLEAN
    BY DEF IInv, TypeOK
  <2> QED BY <2>1, <2>2, AnsweredHost DEF Answered, IInv, RecordKept
<1>3. op.rec = vault[op.by] /\ ~op.reused
  BY DEF IInv, RecordBuilt, Answered
<1>4. UpgradeTable(op, out, op') /\ op.pc # "save"
  BY DEF Answered, Table
<1>5. HostTable(op, host', out) \/ (host' = host /\ Refused(op, out))
  BY DEF Answered
<1>6. ASSUME Unmoved(host'), \A m \in truthful : Describes(host.ctr[Main], vault[m])
      PROVE  \A m \in truthful' : vault'[m] # None /\ Describes(host.ctr[Main], vault[m])'
  BY <1>2, <1>6 DEF Unmoved, Describes, Knows
<1>7. CASE op.pc \in {"connect", "inspect", "ports", "pull"}
  <2>1. Unmoved(host')
    BY <1>5, <1>7 DEF HostTable, Quiet, Unmoved
  <2>2. \A m \in truthful : Describes(host.ctr[Main], vault[m])
    BY <1>2, <1>7 DEF IInv, RecordKept, At, Aside
  <2>3. CASE op' = Idle
    BY <1>2, <1>6, <2>1, <2>2, <2>3, EndKeeps
  <2>4. CASE op' # Idle
    <3>1. Same(op, op') /\ op'.rec = op.rec /\ op'.pc \in {"inspect", "ports", "pull", "rename"}
      BY <1>4, <1>7, <2>4 DEF UpgradeTable, Kept
    <3>2. PortsKnown'
      <4>1. op'.pc \in {"ports", "pull", "rename"} =>
              host.ctr[Main] # None /\ op'.env = host.ctr[Main].env
        BY <1>1, <1>2, <1>4, <1>5, <1>7, <2>4 DEF UpgradeTable, Kept, HostTable, IInv, PortsKnown, At, Refused
      <4>2. op'.pc \in {"pull", "rename"} =>
              op'.blind \/ (host.vol # None /\ op'.port = host.vol.port)
        BY <1>1, <1>2, <1>4, <1>5, <1>7, <2>4 DEF UpgradeTable, Kept, HostTable, IInv, PortsKnown, At, Refused
      <4> QED BY <1>2, <2>1, <3>1, <4>1, <4>2 DEF PortsKnown, At, Same, Unmoved, Aside
    <3>3. ServerKept'
      BY <1>2, <3>1 DEF ServerKept, At, Same, Aside
    <3>4. RecordKept'
      BY <1>1, <1>2, <1>6, <2>1, <2>2, <3>1 DEF RecordKept, At, Same, Aside
    <3>5. RecordBuilt'
      BY <1>2, <1>3, <3>1 DEF RecordBuilt, At, Same
    <3> QED BY <3>2, <3>3, <3>4, <3>5 DEF Rest
  <2> QED BY <2>3, <2>4
<1>8. CASE op.pc = "rename"
  <2>1. /\ \A m \in truthful : Describes(host.ctr[Main], vault[m])
        /\ truthful' = truthful
    BY <1>2, <1>8 DEF IInv, RecordKept, At, Aside, Vouched, GivesUp
  <2>2. CASE Unmoved(host') /\ op' = Idle
    BY <1>2, <1>6, <2>1, <2>2, EndKeeps
  <2>3. CASE Moved(host', Main, op.bak) /\ Kept(op, op', "stop")
    <3>1. /\ host'.ctr[op.bak] = host.ctr[Main] /\ host.ctr[op.bak] = None
          /\ host'.ctr[Main] = None /\ host'.vol = host.vol
          /\ \A n \in Names \ {Main, op.bak} : host'.ctr[n] = host.ctr[n]
      BY <1>1, <2>3 DEF Moved
    <3>2. PortsKnown'
      <4>1. Fits(host.ctr[Main], host.vol) /\ host.ctr[Main] # None
        BY <1>1, <2>3 DEF Moved, HostOK
      <4>2. /\ op.env = host.ctr[Main].env
            /\ op.blind \/ (host.vol # None /\ op.port = host.vol.port)
        BY <1>1, <1>8 DEF IInv, PortsKnown, At
      <4> QED BY <1>1, <1>2, <2>3, <3>1, <4>1, <4>2 DEF PortsKnown, At, Kept, Same, Aside
    <3>3. ServerKept'
      <4>1. live => \E n \in Backups : Good(host'.ctr[n])
        BY <1>1, <1>2, <3>1 DEF Good, Names
      <4> QED BY <1>2, <2>3, <4>1 DEF ServerKept, At, Kept, Same, Aside
    <3>4. RecordKept'
      BY <1>1, <1>2, <2>1, <2>3, <3>1 DEF RecordKept, At, Kept, Same, Aside, Describes, Knows
    <3>5. RecordBuilt'
      BY <1>2, <1>3, <2>3 DEF RecordBuilt, At, Kept, Same
    <3> QED BY <3>2, <3>3, <3>4, <3>5 DEF Rest
  <2> QED BY <1>4, <1>5, <1>8, <2>2, <2>3 DEF HostTable, UpgradeTable, Succeeded, Unmoved, Refused
<1>9. CASE op.pc \in {"stop", "rm", "run", "ready", "undo"} /\ op' # Idle /\ op'.pc # "cleanup"
  <2>1. /\ \E pc \in Aside : Kept(op, op', pc)
        /\ op'.pc \in {"rm", "run"} => op.pc \in {"stop", "rm", "run"}
        /\ op'.pc # "stop"
    BY <1>4, <1>9 DEF UpgradeTable, Aside, Kept, Same
  <2>2. /\ host.ctr[op.bak] # None /\ Fits(host.ctr[op.bak], host.vol)
        /\ op.pc \in {"stop", "rm", "run"} =>
             /\ op.env = host.ctr[op.bak].env
             /\ op.blind \/ (host.vol # None /\ op.port = host.vol.port)
    BY <1>1, <1>9 DEF IInv, PortsKnown, At, Aside
  <2>3. /\ host'.ctr[op.bak] # None /\ Fits(host'.ctr[op.bak], host'.vol)
        /\ host'.ctr[op.bak].img = host.ctr[op.bak].img
        /\ host'.ctr[op.bak].env = host.ctr[op.bak].env
        /\ host.vol # None => host'.vol = host.vol
        /\ \A n \in Names \ {Main, op.bak} : host'.ctr[n] = host.ctr[n]
    <3>1. CASE Unmoved(host')
      BY <2>2, <3>1 DEF Unmoved
    <3>2. CASE op.pc = "stop" /\ ~Unmoved(host')
      <4>1. Up(host.ctr[op.bak]) /\ Placed(host', op.bak, Halted(host.ctr[op.bak]))
        BY <1>5, <3>2 DEF HostTable, Halted, Unmoved
      <4>2. host.ctr[op.bak] \in Container
        BY <1>1, <2>2
      <4>3. host.ctr[op.bak].st # "created"
        BY <4>1 DEF Up
      <4>4. Fits(Halted(host.ctr[op.bak]), host.vol)
        BY <2>2, <4>2, <4>3, HaltedIs DEF Fits
      <4> QED BY <1>1, <4>1, <4>2, <4>4, HaltedIs DEF Placed
    <3>3. CASE \E c : Placed(host', Main, c)
      BY <1>1, <2>2, <3>3 DEF Placed
    <3>4. CASE op.pc = "run" /\ Started(host', Main, Deployed(op))
      <4>1. Deployed(op) \in Container /\ Fits(Deployed(op), host.vol)
        BY <1>1, <3>4, DeployFits
      <4>2. /\ \A n \in Names \ {Main} : host'.ctr[n] = host.ctr[n]
            /\ \A d : Fits(d, host.vol) /\ d.env = Deployed(op).env => Fits(d, host'.vol)
        BY <1>1, <3>4, <4>1, StartFits
      <4>3. Deployed(op).env = host.ctr[op.bak].env
        BY <1>1, <2>2, <3>4, DeployedIs
      <4> QED BY <1>1, <2>2, <3>4, <4>2, <4>3 DEF Started
    <3>5. CASE op.pc = "ready"
      BY <1>5, <3>1, <3>5 DEF HostTable, Quiet, Unmoved
    <3> QED BY <1>5, <1>9, <3>1, <3>2, <3>3, <3>4, <3>5 DEF HostTable, Unmoved
  <2>4. PortsKnown'
    <3>1. op'.pc \in {"rm", "run"} =>
            op.blind \/ (host'.vol # None /\ op.port = host'.vol.port)
      BY <2>1, <2>2, <2>3
    <3> QED BY <1>1, <1>2, <2>1, <2>2, <2>3, <3>1 DEF PortsKnown, At, Kept, Same, Aside
  <2>5. ServerKept'
    <3>1. live => \E n \in Backups : Good(host'.ctr[n])
      <4>1. live => \E n \in Backups : Good(host.ctr[n])
        BY <1>1, <1>2, <1>9 DEF IInv, ServerKept, At, Aside
      <4> QED BY <1>1, <2>3, <4>1, ProvisionAssumption DEF Good, Names
    <3> QED BY <1>2, <2>1, <3>1 DEF ServerKept, At, Kept, Same, Aside
  <2>6. RecordKept'
    <3>1. \A m \in truthful : host.ctr[op.bak].img = vault[m].img /\ Knows(vault[m].clients)
      BY <1>1, <1>9 DEF IInv, RecordKept, At, Aside
    <3> QED BY <1>1, <1>2, <2>1, <2>3, <3>1 DEF RecordKept, At, Kept, Same, Aside, Knows
  <2>7. RecordBuilt'
    <3>1. op'.pc = "ready" => host'.ctr[Main] # None /\ host'.ctr[Main].img = op.img
      <4>1. CASE op.pc = "run" /\ op'.pc = "ready"
        <5>1. Started(host', Main, Deployed(op))
          BY <1>4, <1>5, <4>1 DEF HostTable, UpgradeTable, Kept, Succeeded, Refused
        <5> QED BY <1>1, <5>1, DeployedIs, BootedIs DEF Started
      <4>2. CASE op.pc = "ready"
        BY <1>1, <1>5, <4>2 DEF HostTable, Quiet, Unmoved, IInv, RecordBuilt, At
      <4> QED BY <1>4, <1>9, <4>1, <4>2 DEF UpgradeTable, Kept
    <3> QED BY <1>1, <1>2, <1>3, <2>1, <3>1 DEF RecordBuilt, At, Kept, Same, Aside
  <2> QED BY <2>4, <2>5, <2>6, <2>7 DEF Rest
<1>10. CASE op.pc = "ready" /\ op' # Idle /\ op'.pc = "cleanup"
  <2>1. Kept(op, op', "cleanup") /\ Succeeded(out)
    BY <1>4, <1>10 DEF UpgradeTable, Kept
  <2>2. Unmoved(host') /\ Ready(host.ctr[Main])
    BY <1>5, <1>10, <2>1 DEF HostTable, Quiet, Unmoved, Succeeded, Refused
  <2>3. Good(host.ctr[Main]) /\ Up(host.ctr[Main]) /\ host.ctr[Main].img = op.img
    BY <1>1, <1>10, <2>2 DEF Ready, Up, HostOK, IInv, RecordBuilt, At
  <2>4. PortsKnown'
    BY <1>2, <2>1 DEF PortsKnown, At, Kept, Same, Aside
  <2>5. ServerKept'
    BY <1>2, <2>1, <2>2, <2>3 DEF ServerKept, At, Kept, Same, Aside, Unmoved
  <2>6. RecordKept'
    <3>1. \A m \in truthful : Knows(vault[m].clients)
      BY <1>1, <1>10 DEF IInv, RecordKept, At, Aside
    <3> QED BY <1>1, <1>2, <2>1, <2>2, <3>1 DEF RecordKept, At, Kept, Same, Aside, Knows, Unmoved
  <2>7. RecordBuilt'
    BY <1>2, <1>3, <2>1, <2>2, <2>3 DEF RecordBuilt, At, Kept, Same, Unmoved
  <2> QED BY <2>4, <2>5, <2>6, <2>7 DEF Rest
<1>11. CASE op.pc \in {"stop", "rm", "run", "ready", "undo"} /\ op' = Idle
  <2>1. op.pc = "undo" /\ out \notin {"ok", "absent"}
    BY <1>4, <1>11 DEF UpgradeTable, Kept, Same, Succeeded
  <2>2. truthful' = {}
    BY <1>2, <2>1 DEF Vouched
  <2> QED BY <1>2, <1>11, <2>2, EndKeeps
<1>12. CASE op.pc = "cleanup"
  <2>1. /\ Same(op, op') /\ op'.pc = "save"
        /\ op'.rec.img = op.img /\ op'.rec.clients = op.rec.clients
    BY <1>4, <1>12 DEF UpgradeTable
  <2>2. host'.ctr[Main] = host.ctr[Main] /\ host'.vol = host.vol
    BY <1>1, <1>5, <1>12 DEF HostTable, Placed
  <2>3. Good(host.ctr[Main]) /\ Up(host.ctr[Main]) /\ host.ctr[Main].img = op.img
    BY <1>1, <1>12 DEF IInv, RecordBuilt, ServerKept, At
  <2>4. PortsKnown'
    BY <1>2, <2>1 DEF PortsKnown, At, Same, Aside
  <2>5. ServerKept'
    BY <1>2, <2>1, <2>2, <2>3 DEF ServerKept, At, Same, Aside
  <2>6. RecordKept'
    <3>1. \A m \in truthful : Knows(vault[m].clients)
      BY <1>1, <1>12 DEF IInv, RecordKept, At
    <3> QED BY <1>1, <1>2, <2>1, <2>2, <3>1 DEF RecordKept, At, Same, Aside, Knows
  <2>7. RecordBuilt'
    BY <1>2, <1>3, <2>1, <2>2, <2>3 DEF RecordBuilt, At, Same
  <2> QED BY <2>4, <2>5, <2>6, <2>7 DEF Rest
<1>13. CASE op.pc = "restore"
  <2>1. CASE op' = Idle
    <3>1. truthful' = {}
      BY <1>2, <1>4, <1>5, <1>13, <2>1 DEF HostTable, Vouched, UpgradeTable, Kept, Same, Succeeded, Refused
    <3> QED BY <1>2, <2>1, <3>1, EndKeeps
  <2>2. CASE op' # Idle
    <3>1. Kept(op, op', "start") /\ Succeeded(out)
      BY <1>4, <1>13, <2>2 DEF UpgradeTable
    <3>2. Moved(host', op.bak, Main)
      BY <1>5, <1>13, <3>1 DEF HostTable, Succeeded, Refused
    <3>3. host'.ctr[Main] = host.ctr[op.bak] /\ host'.vol = host.vol
      BY <1>1, <3>2 DEF Moved
    <3>4. PortsKnown'
      BY <1>2, <3>1 DEF PortsKnown, At, Kept, Same, Aside
    <3>5. ServerKept'
      BY <1>2, <3>1 DEF ServerKept, At, Kept, Same, Aside
    <3>6. RecordKept'
      <4>1. \A m \in truthful : host.ctr[op.bak].img = vault[m].img /\ Knows(vault[m].clients)
        BY <1>1, <1>13 DEF IInv, RecordKept, At, Aside
      <4> QED BY <1>1, <1>2, <3>1, <3>3, <4>1 DEF RecordKept, At, Kept, Same, Aside, Knows
    <3>7. RecordBuilt'
      BY <1>2, <1>3, <3>1 DEF RecordBuilt, At, Kept, Same
    <3> QED BY <3>4, <3>5, <3>6, <3>7 DEF Rest
  <2> QED BY <2>1, <2>2
<1>14. CASE op.pc = "start"
  <2>1. CASE op' = Idle
    <3>1. truthful' = {}
      BY <1>2, <1>4, <1>5, <1>14, <2>1 DEF HostTable, Vouched, UpgradeTable, Kept, Same, Succeeded, Refused
    <3> QED BY <1>2, <2>1, <3>1, EndKeeps
  <2>2. CASE op' # Idle
    <3>1. Kept(op, op', "restored") /\ Succeeded(out)
      BY <1>4, <1>14, <2>2 DEF UpgradeTable
    <3>2. /\ Up(host'.ctr[Main]) /\ host'.ctr[Main].img = host.ctr[Main].img
          /\ host.vol # None => host'.vol = host.vol
      <4>1. CASE Unmoved(host') /\ Up(host.ctr[Main])
        BY <4>1 DEF Unmoved
      <4>2. CASE host.ctr[Main] # None /\ Started(host', Main, host.ctr[Main])
        <5>1. host.ctr[Main] \in Container /\ host'.ctr[Main] = Booted(host.ctr[Main])
          BY <1>1, <4>2 DEF Started
        <5> QED BY <4>2, <5>1, BootedIs DEF Started, Up
      <4> QED BY <1>5, <1>14, <3>1, <4>1, <4>2 DEF HostTable, Succeeded, Refused
    <3>3. PortsKnown'
      BY <1>2, <3>1 DEF PortsKnown, At, Kept, Same, Aside
    <3>4. ServerKept'
      BY <1>2, <3>1 DEF ServerKept, At, Kept, Same, Aside
    <3>5. RecordKept'
      <4>1. \A m \in truthful : host.ctr[Main].img = vault[m].img /\ Knows(vault[m].clients)
        BY <1>1, <1>14 DEF IInv, RecordKept, At
      <4>2. \A m \in truthful' : Describes(host.ctr[Main], vault[m])'
        BY <1>2, <3>2, <4>1 DEF Describes, Knows
      <4> QED BY <1>1, <1>2, <3>1, <4>2 DEF RecordKept, At, Kept, Same, Aside
    <3>6. RecordBuilt'
      BY <1>2, <1>3, <3>1 DEF RecordBuilt, At, Kept, Same
    <3> QED BY <3>3, <3>4, <3>5, <3>6 DEF Rest
  <2> QED BY <2>1, <2>2
<1>15. CASE op.pc = "restored"
  <2>1. Unmoved(host')
    BY <1>5, <1>15 DEF HostTable, Quiet, Unmoved
  <2>2. \A m \in truthful : Describes(host.ctr[Main], vault[m])
    BY <1>2, <1>15 DEF IInv, RecordKept, At, Aside
  <2>3. CASE op' = Idle
    BY <1>2, <1>6, <2>1, <2>2, <2>3, EndKeeps
  <2>4. CASE Kept(op, op', "restored")
    <3>1. PortsKnown'
      BY <1>2, <2>4 DEF PortsKnown, At, Kept, Same, Aside
    <3>2. ServerKept'
      BY <1>2, <2>4 DEF ServerKept, At, Kept, Same, Aside
    <3>3. RecordKept'
      BY <1>1, <1>2, <1>6, <2>1, <2>2, <2>4 DEF RecordKept, At, Kept, Same, Aside
    <3>4. RecordBuilt'
      BY <1>2, <1>3, <2>4 DEF RecordBuilt, At, Kept, Same
    <3> QED BY <3>1, <3>2, <3>3, <3>4 DEF Rest
  <2> QED BY <1>4, <1>15, <2>3, <2>4 DEF UpgradeTable
<1> QED
  <2>1. op.pc \in Steps("upgrade")
    BY <1>1, <1>2 DEF OperationOK
  <2>2. op.pc \in {"stop", "rm", "run", "undo"} => op' = Idle \/ op'.pc # "cleanup"
    BY <1>4 DEF UpgradeTable, Kept
  <2> QED BY <1>4, <1>7, <1>8, <1>9, <1>10, <1>11, <1>12, <1>13, <1>14, <1>15, <2>1, <2>2, StepsOf

\* Provisioning: nothing is vouched for from the moment the old container
\* goes until the record of the new one is saved.
LEMMA ProvisionKeeps ==
    ASSUME IInv, NEW out, Answered(out), op.kind = "provision"
    PROVE  Rest'
<1>1. /\ OperationOK(op) /\ host \in Host /\ host' \in Host /\ HostOK /\ HostOK'
      /\ Main \in Names
      /\ host.ctr \in [Names -> Container \cup {None}] /\ op # Idle /\ op.link
      /\ host'.ctr \in [Names -> Container \cup {None}]
  BY AnsweredHost, HostParts DEF IInv, TypeOK, OperationOK, Names, Answered, Host
<1>2. /\ op.kind = "provision" /\ vault' = vault /\ (live' => live) /\ truthful' \subseteq truthful
      /\ live' => \E n \in Names : Good(host'.ctr[n])
      /\ \A m \in truthful : vault[m] # None
  BY AnsweredHost DEF Answered, IInv, RecordKept, PortsKnown
<1>3. ProvisionTable(op, out, op') /\ op.pc # "save"
  BY DEF Answered, Table
<1>4. HostTable(op, host', out) \/ (host' = host /\ Refused(op, out))
  BY DEF Answered
<1>5. \A m \in truthful : Describes(host.ctr[Main], vault[m])
  BY <1>2 DEF IInv, RecordKept, At
<1>6. ASSUME Unmoved(host')
      PROVE  \A m \in truthful' : Describes(host.ctr[Main], vault[m])'
  BY <1>2, <1>5, <1>6 DEF Unmoved, Describes, Knows
<1>7. CASE op.pc \in {"connect", "probe", "install", "ports", "firewall", "ps", "pull", "dns"}
  <2>1. Unmoved(host')
    BY <1>4, <1>7 DEF HostTable, Quiet, Unmoved
  <2>2. CASE op' = Idle
    BY <1>2, <1>6, <2>1, <2>2, EndKeeps
  <2>3. CASE op' # Idle
    <3>1. /\ Same(op, op')
          /\ op'.pc \in {"probe", "install", "ports", "firewall", "ps", "pull", "dns", "rm", "issue"}
          /\ op'.pc = "issue" => op'.reused
          /\ op'.pc \in {"ps", "pull", "dns", "rm"} =>
               /\ op.pc \in {"firewall", "ps", "pull", "dns"}
               /\ op'.port = op.port /\ op'.env = op.env /\ op'.blind = op.blind
          /\ op'.pc = "firewall" => op.pc = "ports"
      <4>1. CASE op.pc \in {"connect", "probe", "install"}
        BY <1>3, <2>3, <4>1 DEF ProvisionTable, Kept
      <4>2. CASE op.pc \in {"ports", "firewall", "ps", "pull", "dns"}
        BY <1>3, <2>3, <4>2 DEF ProvisionTable, Kept
      <4> QED BY <1>7, <4>1, <4>2
    <3>2. PortsKnown'
      <4>1. op'.pc \in {"firewall", "ps", "pull", "dns", "rm"} =>
              op'.env.listen = op'.port /\ (host.vol # None => op'.blind \/ op'.port = host.vol.port)
        <5>1. CASE op'.pc = "firewall"
          BY <1>3, <1>4, <3>1, <5>1 DEF ProvisionTable, HostTable
        <5>2. CASE op'.pc \in {"ps", "pull", "dns", "rm"}
          BY <1>1, <1>2, <3>1, <5>2 DEF IInv, PortsKnown, At
        <5> QED BY <5>1, <5>2
      <4> QED BY <1>2, <2>1, <3>1, <4>1 DEF PortsKnown, At, Same, Unmoved
    <3>3. ServerKept'
      BY <1>2, <3>1 DEF ServerKept, At, Same
    <3>4. RecordKept'
      BY <1>1, <1>2, <1>6, <2>1, <3>1 DEF RecordKept, At, Same
    <3>5. RecordBuilt'
      BY <1>2, <3>1 DEF RecordBuilt, At, Same
    <3> QED BY <3>2, <3>3, <3>4, <3>5 DEF Rest
  <2> QED BY <2>2, <2>3
<1>8. CASE op.pc = "rm"
  <2>1. Kept(op, op', "run") /\ host'.vol = host.vol
    BY <1>3, <1>4, <1>8 DEF ProvisionTable, HostTable, Placed
  <2>2. live' = FALSE /\ truthful' = {}
    BY <1>2, <1>8 DEF Answered, Vouched, GivesUp
  <2>3. PortsKnown'
    BY <1>1, <1>2, <1>8, <2>1 DEF IInv, PortsKnown, At, Kept, Same
  <2>4. ServerKept'
    BY <1>2, <2>1, <2>2 DEF ServerKept, At, Kept, Same
  <2>5. RecordKept'
    BY <2>2 DEF RecordKept
  <2>6. RecordBuilt'
    BY <1>2, <2>1 DEF RecordBuilt, At, Kept, Same
  <2> QED BY <2>3, <2>4, <2>5, <2>6 DEF Rest
<1>9. CASE op.pc = "run"
  <2>1. live' = FALSE /\ truthful' = {}
    <3>1. ~live /\ truthful = {}
      BY <1>1, <1>2, <1>9 DEF IInv, ServerKept, RecordKept, At
    <3> QED BY <1>2, <3>1 DEF Answered
  <2>2. CASE op' = Idle
    BY <2>1, <2>2, EndKeeps
  <2>3. CASE Kept(op, op', "rm") /\ ~Succeeded(out)
    <3>1. host'.vol = host.vol
      BY <1>4, <1>9, <2>3 DEF HostTable, Placed, Unmoved, Succeeded
    <3>2. PortsKnown'
      BY <1>1, <1>2, <1>9, <2>3, <3>1 DEF IInv, PortsKnown, At, Kept, Same
    <3>3. ServerKept'
      BY <1>2, <2>1, <2>3 DEF ServerKept, At, Kept, Same
    <3>4. RecordKept'
      BY <2>1 DEF RecordKept
    <3>5. RecordBuilt'
      BY <1>2, <2>3 DEF RecordBuilt, At, Kept, Same
    <3> QED BY <3>2, <3>3, <3>4, <3>5 DEF Rest
  <2>4. CASE Kept(op, op', "issue") /\ Succeeded(out)
    <3>1. Started(host', Main, Deployed(op))
      BY <1>4, <1>9, <2>4 DEF HostTable, Succeeded, Refused
    <3>2. host'.ctr[Main] # None /\ host'.ctr[Main].img = op.img
      BY <1>1, <3>1, DeployedIs, BootedIs DEF Started
    <3>3. PortsKnown'
      BY <1>2, <2>4 DEF PortsKnown, At, Kept, Same
    <3>4. ServerKept'
      BY <1>2, <2>1, <2>4 DEF ServerKept, At, Kept, Same
    <3>5. RecordKept'
      BY <2>1 DEF RecordKept
    <3>6. RecordBuilt'
      BY <1>2, <2>4, <3>2 DEF RecordBuilt, At, Kept, Same
    <3> QED BY <3>3, <3>4, <3>5, <3>6 DEF Rest
  <2> QED BY <1>3, <1>9, <2>2, <2>3, <2>4 DEF ProvisionTable
<1>10. CASE op.pc = "issue"
  <2>1. /\ host'.ctr = host.ctr
        /\ host.vol # None => host'.vol # None /\ host.vol.users \subseteq host'.vol.users
        /\ out = "ok" => Ready(host.ctr[Main]) /\ host'.vol # None /\ op.user \in host'.vol.users
    BY <1>4, <1>10, ProvisionAssumption DEF HostTable, Unmoved, Refused
  <2>2. \A m \in truthful' : Describes(host.ctr[Main], vault[m])'
    BY <1>2, <1>5, <2>1 DEF Describes, Knows
  <2>3. ~op.reused => truthful = {} /\ host.ctr[Main].img = op.img /\ host.ctr[Main] # None
    BY <1>1, <1>2, <1>10 DEF IInv, RecordKept, RecordBuilt, At
  <2>4. CASE op' = Idle
    BY <1>2, <2>2, <2>4, EndKeeps
  <2>5. CASE Kept(op, op', "issue")
    <3>1. PortsKnown'
      BY <1>2, <2>5 DEF PortsKnown, At, Kept, Same
    <3>2. ServerKept'
      BY <1>2, <2>5 DEF ServerKept, At, Kept, Same
    <3>3. RecordKept'
      BY <1>1, <1>2, <2>2, <2>3, <2>5 DEF RecordKept, At, Kept, Same
    <3>4. RecordBuilt'
      BY <1>2, <2>1, <2>3, <2>5 DEF RecordBuilt, At, Kept, Same
    <3> QED BY <3>1, <3>2, <3>3, <3>4 DEF Rest
  <2>6. CASE /\ out = "ok" /\ Same(op, op') /\ op'.pc = "save" /\ op'.reused = op.reused
             /\ op'.rec.img = op.img /\ op'.rec.clients = {op.user}
             /\ op'.rec # None
    <3>1. Good(host.ctr[Main]) /\ Up(host.ctr[Main])
      BY <1>1, <2>1, <2>6 DEF HostOK, Ready, Up
    <3>2. PortsKnown'
      BY <1>2, <2>6 DEF PortsKnown, At, Same
    <3>3. ServerKept'
      BY <1>2, <2>1, <2>6, <3>1 DEF ServerKept, At, Same
    <3>4. RecordKept'
      BY <1>1, <1>2, <2>2, <2>3, <2>6 DEF RecordKept, At, Same
    <3>5. RecordBuilt'
      BY <1>2, <2>1, <2>3, <2>6, <3>1 DEF RecordBuilt, At, Same, Describes, Knows
    <3> QED BY <3>2, <3>3, <3>4, <3>5 DEF Rest
  <2> QED BY <1>3, <1>10, <2>4, <2>5, <2>6 DEF ProvisionTable
<1> QED
  <2>1. op.pc \in Steps("provision")
    BY <1>1, <1>2 DEF OperationOK
  <2> QED BY <1>3, <1>7, <1>8, <1>9, <1>10, <2>1, StepsOf

\* The other operations: the record changes with what the server knows.
LEMMA DayTwoKeeps ==
    ASSUME IInv, NEW out, Answered(out), op.kind \notin {"provision", "upgrade"}
    PROVE  Rest'
<1>1. /\ OperationOK(op) /\ host \in Host /\ host' \in Host /\ HostOK /\ HostOK'
      /\ Main \in Names /\ op # Idle /\ op.link /\ op.kind \in Kinds
      /\ host.ctr \in [Names -> Container \cup {None}]
      /\ host'.ctr \in [Names -> Container \cup {None}]
  BY AnsweredHost, HostParts DEF IInv, TypeOK, OperationOK, Operations, Names, Answered, Host
<1>2. /\ vault' = vault /\ (live' => live) /\ truthful' \subseteq truthful
      /\ live' => \E n \in Names : Good(host'.ctr[n])
      /\ \A m \in truthful : vault[m] # None
      /\ op.kind \notin {"provision", "upgrade"}
  BY AnsweredHost DEF Answered, IInv, RecordKept
<1>3. DayTwoTable(op, out, op') /\ op.pc # "save" /\ op.pc \in Steps(op.kind)
  BY <1>1 DEF Answered, Table, OperationOK
<1>4. HostTable(op, host', out) \/ (host' = host /\ Refused(op, out))
  BY DEF Answered
<1>5. \A m \in truthful : Describes(host.ctr[Main], vault[m])
  BY <1>2, <1>3 DEF IInv, RecordKept, At
<1>6. CASE op.kind = "teardown"
  <2>1. truthful' = {} /\ live' = FALSE
    BY <1>1, <1>2, <1>6 DEF IInv, RecordKept, ServerKept, Answered
  <2>2. CASE op' = Idle
    BY <2>1, <2>2, EndKeeps
  <2>3. CASE Same(op, op') /\ op'.rec = op.rec
    <3>1. op.rec = vault[op.by]
      BY <1>1, <1>3, <1>6 DEF IInv, RecordBuilt
    <3> QED BY <1>2, <1>6, <2>1, <2>3, <3>1
            DEF Rest, PortsKnown, ServerKept, RecordKept, RecordBuilt, At, Same
  <2> QED BY <1>3, <1>6, <2>2, <2>3 DEF DayTwoTable
<1>7. CASE op.kind = "mtproxy"
  <2>1. \A m \in truthful' : Describes(host.ctr[Main], vault[m])'
    <3>1. CASE op.pc \in {"connect", "mtproxy", "enable"}
      BY <1>2, <1>4, <1>5, <3>1, ProvisionAssumption
         DEF HostTable, Quiet, Unmoved, Describes, Knows
    <3>2. CASE op.pc = "restart" /\ ~Unmoved(host')
      <4>1. host.ctr[Main] # None /\ Started(host', Main, host.ctr[Main])
        BY <1>4, <3>2 DEF HostTable, Unmoved
      <4>2. host.ctr[Main] \in Container /\ host'.ctr[Main] = Booted(host.ctr[Main])
        BY <1>1, <4>1 DEF Started
      <4>3. Up(host'.ctr[Main]) /\ host'.ctr[Main].img = host.ctr[Main].img
        BY <4>2, BootedIs DEF Up
      <4> QED BY <1>2, <1>5, <4>1, <4>3 DEF Started, Describes, Knows
    <3>3. CASE Unmoved(host')
      BY <1>2, <1>5, <3>3 DEF Unmoved, Describes, Knows
    <3> QED BY <1>3, <1>7, <3>1, <3>2, <3>3, StepsOf
  <2>2. CASE op' = Idle
    BY <1>2, <2>1, <2>2, EndKeeps
  <2>3. CASE Same(op, op') /\ op'.pc # "save"
    <3>1. PortsKnown' /\ ServerKept'
      BY <1>2, <1>7, <2>3 DEF PortsKnown, ServerKept, At, Same
    <3>2. RecordKept'
      BY <1>1, <1>2, <1>7, <2>1, <2>3 DEF RecordKept, At, Same
    <3>3. RecordBuilt'
      BY <1>2, <1>7, <2>3 DEF RecordBuilt, At, Same
    <3> QED BY <3>1, <3>2, <3>3 DEF Rest
  <2> QED BY <1>3, <1>7, <2>2, <2>3 DEF DayTwoTable
<1>8. CASE op.kind \in {"adduser", "rmuser"} /\ op.pc = "connect"
  <2>1. Unmoved(host')
    BY <1>4, <1>8 DEF HostTable, Quiet, Unmoved
  <2>2. \A m \in truthful' : Describes(host.ctr[Main], vault[m])'
    BY <1>2, <1>5, <2>1 DEF Unmoved, Describes, Knows
  <2>3. CASE op' = Idle
    BY <1>2, <2>2, <2>3, EndKeeps
  <2>4. CASE \E pc \in {"add", "delete"} : Kept(op, op', pc)
    <3>1. op.rec = vault[op.by] /\ (op.kind = "rmuser" => ~op.reused)
      BY <1>1, <1>3, <1>8 DEF IInv, RecordBuilt
    <3>2. PortsKnown' /\ ServerKept'
      BY <1>2, <1>8, <2>4 DEF PortsKnown, ServerKept, At, Same, Kept
    <3>3. RecordKept'
      BY <1>1, <1>2, <1>8, <2>2, <2>4 DEF RecordKept, At, Same, Kept
    <3>4. RecordBuilt'
      BY <1>2, <1>8, <2>4, <3>1 DEF RecordBuilt, At, Same, Kept
    <3> QED BY <3>2, <3>3, <3>4 DEF Rest
  <2> QED BY <1>3, <1>8, <2>3, <2>4 DEF DayTwoTable
<1>9. CASE op.kind = "adduser" /\ op.pc = "add"
  <2>1. /\ host'.ctr = host.ctr
        /\ host.vol # None => host'.vol # None /\ host.vol.users \subseteq host'.vol.users
        /\ out = "ok" => host'.vol # None /\ op.user \in host'.vol.users
    BY <1>4, <1>9, ProvisionAssumption DEF HostTable, Unmoved, Refused
  <2>2. \A m \in truthful' : Describes(host.ctr[Main], vault[m])'
    BY <1>2, <1>5, <2>1 DEF Describes, Knows
  <2>3. CASE op' = Idle
    BY <1>2, <2>2, <2>3, EndKeeps
  <2>4. CASE /\ out = "ok" /\ Same(op, op') /\ op'.pc = "save"
             /\ op'.rec.img = op.rec.img /\ op'.rec.clients = op.rec.clients \cup {op.user}
    <3>1. op.rec = vault[op.by]
      BY <1>1, <1>3, <1>9 DEF IInv, RecordBuilt
    <3>2. PortsKnown' /\ ServerKept'
      BY <1>2, <1>9, <2>4 DEF PortsKnown, ServerKept, At, Same
    <3>3. RecordKept'
      BY <1>1, <1>2, <1>9, <2>2, <2>4 DEF RecordKept, At, Same
    <3>4. op.by \in truthful' => Describes(host.ctr[Main], op.rec)'
      BY <1>2, <1>5, <2>1, <2>4, <3>1 DEF Describes, Knows
    <3>5. RecordBuilt'
      BY <1>2, <1>9, <2>4, <3>4 DEF RecordBuilt, At, Same
    <3> QED BY <3>2, <3>3, <3>5 DEF Rest
  <2> QED BY <1>3, <1>9, <2>3, <2>4 DEF DayTwoTable
<1>10. CASE op.kind = "rmuser" /\ op.pc = "delete"
  <2>1. CASE op' = Idle
    <3>1. ~Succeeded(out)
      BY <1>3, <1>10, <2>1 DEF DayTwoTable, Same
    <3>2. Unmoved(host')
      BY <1>4, <1>10, <3>1 DEF HostTable, Unmoved, Succeeded
    <3>3. \A m \in truthful' : Describes(host.ctr[Main], vault[m])'
      BY <1>2, <1>5, <3>2 DEF Unmoved, Describes, Knows
    <3> QED BY <1>2, <2>1, <3>3, EndKeeps
  <2>2. CASE op' # Idle
    <3>1. /\ Same(op, op') /\ op'.pc = "save"
          /\ op'.rec.img = op.rec.img /\ op'.rec.clients = op.rec.clients \ {op.user}
      BY <1>3, <1>10, <2>2 DEF DayTwoTable
    <3>2. /\ host'.ctr = host.ctr
          /\ host.vol # None => host'.vol # None /\ host.vol.users \ {op.user} \subseteq host'.vol.users
      BY <1>4, <1>10, ProvisionAssumption DEF HostTable, Unmoved
    <3>3. op.rec = vault[op.by] /\ ~op.reused
      BY <1>1, <1>3, <1>10 DEF IInv, RecordBuilt
    <3>4. PortsKnown' /\ ServerKept'
      BY <1>2, <1>10, <3>1 DEF PortsKnown, ServerKept, At, Same
    <3>5. RecordKept'
      BY <1>1, <1>2, <1>10, <3>1 DEF RecordKept, At, Same
    <3>6. op.by \in truthful => Describes(host.ctr[Main], op.rec)'
      BY <1>5, <3>1, <3>2, <3>3 DEF Describes, Knows
    <3>7. RecordBuilt'
      BY <1>2, <1>10, <3>1, <3>3, <3>6 DEF RecordBuilt, At, Same
    <3> QED BY <3>4, <3>5, <3>7 DEF Rest
  <2> QED BY <2>1, <2>2
<1> QED
  BY <1>1, <1>2, <1>3, <1>6, <1>7, <1>8, <1>9, <1>10, StepsOf DEF Kinds
-----------------------------------------------------------------------------
(* Every action keeps the invariant.                                       *)

\* The three together.
LEMMA AnsweredKeeps ==
    ASSUME IInv, NEW out, Answered(out)
    PROVE  /\ host' \in Host /\ HostOK' /\ Rest' /\ (op' = Idle \/ OperationOK(op'))
           /\ truthful' \subseteq Managers /\ live' \in BOOLEAN
<1>1. OperationOK(op)
  BY DEF IInv, TypeOK, Answered
<1>2. op' = Idle \/ OperationOK(op')
  BY <1>1, GoesOn DEF Answered, Same
<1>3. truthful' \subseteq Managers
  BY AnsweredHost DEF IInv, TypeOK
<1>4. live' \in BOOLEAN
  BY DEF Answered
<1> QED BY <1>2, <1>3, <1>4, AnsweredHost, UpgradeKeeps, ProvisionKeeps, DayTwoKeeps

\* A command runs and its answer arrives.
LEMMA CommandKeeps == IInv /\ Command => IInv'
<1> SUFFICES ASSUME IInv, Command PROVE IInv'
  OBVIOUS
<1>1. PICK r \in Effect(host, op) : host' = r.h /\ op' = Continue(op, r.out) /\ truthful' = Vouched(r.out)
  BY DEF Command
<1>2. OperationOK(op) /\ op.pc # "save" /\ op # Idle /\ op.link /\ host \in Host /\ HostOK
  BY DEF Command, IInv, TypeOK
<1>3. HostTable(op, host', r.out)
  BY <1>1, <1>2, HostMoves
<1>4. Table(op, r.out, op')
  <2>1. Readable(op, r.out)
    BY <1>3 DEF HostTable, Readable
  <2> QED BY <1>1, <1>2, <2>1, Moves
<1>5. Answered(r.out)
  BY <1>1, <1>2, <1>3, <1>4 DEF Command, Answered
<1> QED BY <1>5, AnsweredKeeps DEF Command, IInv, TypeOK, Rest

\* A command fails without an effect.
LEMMA CommandFailsKeeps == IInv /\ CommandFails => IInv'
<1> SUFFICES ASSUME IInv, CommandFails PROVE IInv'
  OBVIOUS
<1>1. OperationOK(op) /\ op.pc # "save" /\ op # Idle /\ op.link /\ host \in Host
  BY DEF CommandFails, IInv, TypeOK
<1>2. PICK o : o = [op EXCEPT !.failed = TRUE]
  OBVIOUS
<1>3. PICK out : out = Failure(op) /\ Refused(op, out)
  BY DEF Failure, Refused
<1>4. op' = Continue(o, out)
  BY <1>2, <1>3 DEF CommandFails
<1>5. /\ OperationOK(o) /\ o.pc = op.pc
      /\ \A x, p : Table(o, x, p) => Table(op, x, p)
  BY <1>1, <1>2, FailureNoted
<1>6. Table(op, out, op')
  <2>1. Readable(o, out)
    BY <1>3 DEF Readable, Refused
  <2>2. Table(o, out, Continue(o, out))
    BY <1>1, <1>5, <2>1, Moves
  <2> QED BY <1>4, <1>5, <2>2
<1>7. Answered(out)
  BY <1>1, <1>3, <1>6 DEF CommandFails, Answered
<1> QED BY <1>7, AnsweredKeeps DEF CommandFails, IInv, TypeOK, Rest

\* Without its connection an operation knows nothing any more, and nothing
\* vouches for the records.
LEMMA UnlinkedKeeps ==
    ASSUME IInv, op # Idle, op.pc # "save", NEW o, OperationOK(o),
           o.by = op.by, o.pc = op.pc, o.kind = op.kind, o.rec = op.rec, o.blind = op.blind,
           o.reused = op.reused, ~o.link, NEW out, Table(o, out, op'),
           truthful' = {}, vault' = vault, live' => live,
           live' => \E n \in Names : Good(host'.ctr[n])
    PROVE  Rest' /\ (op' = Idle \/ OperationOK(op'))
<1>1. CASE op' = Idle
  BY <1>1, EndKeeps
<1>2. CASE op' # Idle
  <2>1. /\ Same(o, op')
        /\ o.kind = "provision" /\ op'.pc = "save" => op'.rec # None
        /\ o.kind # "provision" => op'.reused = o.reused
        /\ o.kind \notin {"provision", "mtproxy"} /\ op'.pc # "save" => op'.rec = o.rec
    BY <1>2, GoesOn DEF Same
  <2>2. /\ op'.link = o.link /\ op'.kind = op.kind /\ op'.by = op.by /\ OperationOK(op')
    BY <2>1 DEF Same
  <2>3. PortsKnown'
    BY <2>1, <2>2 DEF IInv, PortsKnown, At
  <2>4. ServerKept'
    BY <2>2 DEF IInv, ServerKept, At
  <2>5. RecordKept'
    BY DEF RecordKept
  <2>6. RecordBuilt'
    BY <2>1, <2>2 DEF IInv, RecordBuilt, At
  <2> QED BY <2>2, <2>3, <2>4, <2>5, <2>6 DEF Rest
<1> QED BY <1>1, <1>2

\* The connection breaks while a command runs, whether or not it took effect.
LEMMA LinkBreaksKeeps == IInv /\ LinkBreaks => IInv'
<1> SUFFICES ASSUME IInv, LinkBreaks PROVE IInv'
  OBVIOUS
<1>1. /\ OperationOK(op) /\ op.pc # "save" /\ op # Idle /\ op.link /\ host \in Host /\ HostOK
      /\ losses < MaxLosses /\ losses \in 0..MaxLosses /\ losses' = losses + 1
      /\ truthful' = {} /\ vault' = vault
  BY DEF LinkBreaks, IInv, TypeOK
<1>2. PICK o : o = [op EXCEPT !.link = FALSE]
  OBVIOUS
<1>3. PICK r \in Effect(host, op) \cup {Result(host, "none")} :
        host' = r.h /\ op' = Continue(o, "none")
  BY <1>2 DEF LinkBreaks, LostStatus
<1>4. /\ OperationOK(o) /\ o.by = op.by /\ o.pc = op.pc /\ o.kind = op.kind /\ o.rec = op.rec
      /\ o.blind = op.blind /\ o.reused = op.reused /\ ~o.link
  BY <1>1, <1>2, LinkLost
<1>5. host' \in Host /\ HostOK' /\ (live /\ ~GivesUp => \E n \in Names : Good(host'.ctr[n]))
  <2>1. CASE r \in Effect(host, op)
    <3>1. HostTable(op, host', r.out)
      BY <1>1, <1>3, <2>1, HostMoves
    <3> QED BY <1>1, <3>1, HostKept, ServerStays DEF HostTable
  <2>2. CASE r = Result(host, "none")
    <3>1. host' = host
      BY <1>3, <2>2 DEF Result
    <3> QED BY <1>1, <3>1 DEF HostOK, IInv, ServerKept
  <2> QED BY <1>3, <2>1, <2>2
<1>6. Table(o, "none", op')
  <2>1. Readable(o, "none")
    BY DEF Readable
  <2> QED BY <1>1, <1>3, <1>4, <2>1, Moves
<1>7. /\ live' \in BOOLEAN /\ (live' => live)
      /\ live' => \E n \in Names : Good(host'.ctr[n])
  <2>1. live' = (live /\ ~GivesUp)
    BY DEF LinkBreaks
  <2> QED BY <1>5, <2>1
<1>8. Rest' /\ (op' = Idle \/ OperationOK(op'))
  BY <1>1, <1>4, <1>6, <1>7, UnlinkedKeeps
<1>9. losses' \in 0..MaxLosses
  BY <1>1, ProvisionAssumption
<1> QED BY <1>1, <1>5, <1>7, <1>8, <1>9 DEF LinkBreaks, IInv, TypeOK, Rest

\* Commands on a broken connection fail.
LEMMA LinkDownKeeps == IInv /\ LinkDown => IInv'
<1> SUFFICES ASSUME IInv, LinkDown PROVE IInv'
  OBVIOUS
<1>1. OperationOK(op) /\ op.pc # "save" /\ op # Idle /\ ~op.link /\ host \in Host
  BY DEF LinkDown, IInv, TypeOK
<1>2. Table(op, "err", op')
  <2>1. Readable(op, "err")
    BY DEF Readable
  <2> QED BY <1>1, <2>1, Moves DEF LinkDown
<1>3. /\ truthful' = {} /\ vault' = vault /\ (live' => live)
      /\ live' => \E n \in Names : Good(host'.ctr[n])
  BY <1>1 DEF LinkDown, IInv, RecordKept, ServerKept
<1>4. Rest' /\ (op' = Idle \/ OperationOK(op'))
  BY <1>1, <1>2, <1>3, UnlinkedKeeps
<1> QED BY <1>4 DEF LinkDown, IInv, TypeOK, HostOK, Rest

\* The operator's process is killed between any two commands.
LEMMA KilledKeeps == IInv /\ Killed => IInv'
<1> SUFFICES ASSUME IInv, Killed PROVE IInv'
  OBVIOUS
<1>1. Rest'
  BY EndKeeps DEF Killed, IInv, ServerKept
<1>2. losses' \in 0..MaxLosses
  BY ProvisionAssumption DEF Killed, IInv, TypeOK
<1> QED BY <1>1, <1>2 DEF Killed, IInv, TypeOK, HostOK, Rest

\* After the save the operation is over, or goes on to enable the proxy.
Proxying(q) == [Goto(q, "mtproxy") EXCEPT !.kind = "mtproxy"]

\* The proxy step is an operation of its own kind with the same connection.
LEMMA ProxyingOK ==
    ASSUME NEW q, OperationOK(q), q.rec # None
    PROVE  /\ OperationOK(Proxying(q)) /\ Proxying(q).kind = "mtproxy" /\ Proxying(q).pc = "mtproxy"
           /\ Proxying(q).link = q.link
<1> DEFINE p == [q EXCEPT !.pc = "mtproxy", !.n = 0, !.kind = "mtproxy"]
<1>1. "mtproxy" \in Steps("mtproxy") /\ "mtproxy" \in Kinds
  BY StepsOf DEF Kinds
<1>2. "mtproxy" \in UNION {Steps(x) : x \in Kinds}
  BY <1>1
<1>3. /\ p \in Operations /\ p.kind = "mtproxy" /\ p.pc = "mtproxy" /\ p.link = q.link
      /\ p.rec = q.rec
  BY <1>1, <1>2 DEF OperationOK, Operations
<1>4. Proxying(q) = p
  BY DEF Proxying, Goto, Step, OperationOK, Operations
<1> HIDE DEF p
<1>5. OperationOK(p)
  BY <1>1, <1>3 DEF OperationOK
<1> QED BY <1>3, <1>4, <1>5

\* The record that is saved describes what runs.
LEMMA SaveKeeps == IInv /\ Save => IInv'
<1> SUFFICES ASSUME IInv, Save PROVE IInv'
  OBVIOUS
<1> DEFINE saved == IF op.kind = "teardown" THEN None ELSE op.rec
<1>1. /\ OperationOK(op) /\ op # Idle /\ op.pc = "save" /\ op.by \in Managers /\ op.kind \in Kinds
      /\ op.rec \in Record \cup {None} /\ op.user \in Users \cup {None}
      /\ host' = host /\ host \in Host /\ HostOK
  BY DEF Save, IInv, TypeOK, OperationOK, Operations
<1>2. vault' \in [Managers -> Record \cup {None}] /\ vault'[op.by] = saved
      /\ \A m \in Managers \ {op.by} : vault'[m] = vault[m]
  BY <1>1 DEF Save, IInv, TypeOK
<1>3. op.rec # None
  BY <1>1 DEF IInv, RecordBuilt, OperationOK
<1>4. op' = Idle \/ (op' = Proxying(op))
  BY DEF Save, Proxying
<1>5. /\ op' = Idle \/ OperationOK(op')
      /\ op' # Idle => op'.kind = "mtproxy" /\ op'.pc = "mtproxy" /\ op'.link = op.link
  BY <1>1, <1>3, <1>4, ProxyingOK
<1>6. truthful' = IF op.reused THEN truthful \ {op.by}
                  ELSE IF op.kind = "provision" /\ op.link THEN {op.by}
                  ELSE IF op.kind \in {"upgrade", "rmuser"} THEN truthful \cap {op.by}
                  ELSE truthful
  BY DEF Save
<1>7. ~op.link => truthful' = {}
  <2>1. ~op.link => truthful = {}
    BY <1>1 DEF IInv, RecordKept
  <2> QED BY <1>6, <2>1
<1>8. /\ truthful' \subseteq Managers /\ truthful \subseteq Managers
      /\ \A m \in truthful : vault[m] # None
  BY <1>1, <1>6 DEF IInv, TypeOK, RecordKept
<1>9. \A m \in truthful' : vault'[m] # None /\ Describes(host.ctr[Main], vault[m])'
  <2> SUFFICES ASSUME NEW m \in truthful', op.link
               PROVE  vault'[m] # None /\ Describes(host.ctr[Main], vault'[m])
    BY <1>1, <1>7 DEF Describes, Knows
  <2>1. op.kind # "teardown"
    <3>1. op.kind = "teardown" => truthful = {}
      BY <1>1 DEF IInv, RecordKept
    <3> QED BY <1>6, <3>1
  <2>2. m \in Managers /\ vault'[op.by] = op.rec
    BY <1>2, <1>8, <2>1
  <2>3. CASE op.kind = "provision"
    <3>1. CASE op.reused
      <4>1. m \in truthful /\ m # op.by /\ vault'[m] = vault[m]
        BY <1>2, <1>6, <2>2, <3>1
      <4> QED BY <1>8, <2>3, <4>1 DEF IInv, RecordKept, At
    <3>2. CASE ~op.reused
      <4>1. m = op.by
        BY <1>6, <2>3, <3>2
      <4>2. Describes(host.ctr[Main], op.rec)
        BY <1>1, <2>3, <3>2 DEF IInv, RecordBuilt, At
      <4> QED BY <1>3, <2>2, <4>1, <4>2
    <3> QED BY <3>1, <3>2
  <2>4. CASE op.kind = "upgrade"
    <3>1. m = op.by /\ m \in truthful
      BY <1>1, <1>6, <2>4 DEF IInv, RecordBuilt
    <3>2. /\ Up(host.ctr[Main]) /\ host.ctr[Main].img = op.rec.img
          /\ op.rec.clients = vault[op.by].clients /\ Knows(vault[op.by].clients)
      BY <1>1, <2>4, <3>1 DEF IInv, RecordBuilt, RecordKept, At
    <3> QED BY <1>3, <2>2, <3>1, <3>2 DEF Describes
  <2>5. CASE op.kind = "rmuser"
    <3>1. m = op.by /\ m \in truthful
      BY <1>1, <1>6, <2>5 DEF IInv, RecordBuilt
    <3>2. Describes(host.ctr[Main], op.rec)
      BY <1>1, <2>5, <3>1 DEF IInv, RecordBuilt, At
    <3> QED BY <1>3, <2>2, <3>1, <3>2
  <2>6. CASE op.kind \in {"adduser", "mtproxy"}
    <3>1. op.kind = "adduser"
      BY <1>1, <2>6, StepsOf DEF OperationOK
    <3>2. m \in truthful
      BY <1>6, <3>1
    <3>3. CASE m = op.by
      BY <1>1, <1>3, <2>2, <3>1, <3>2, <3>3 DEF IInv, RecordBuilt, At
    <3>4. CASE m # op.by
      BY <1>2, <1>8, <2>2, <3>1, <3>2, <3>4 DEF IInv, RecordKept, At
    <3> QED BY <3>3, <3>4
  <2> QED BY <1>1, <2>1, <2>3, <2>4, <2>5, <2>6 DEF Kinds
<1>10. live' => \E n \in Names : Good(host'.ctr[n])
  <2>1. Main \in Names
    BY DEF Names
  <2>2. op.link /\ op.kind \in {"provision", "upgrade"} => Good(host.ctr[Main])
    BY <1>1 DEF IInv, ServerKept, At
  <2>3. live' = (live \/ (op.link /\ op.kind \in {"provision", "upgrade"}))
    BY DEF Save
  <2> QED BY <1>1, <2>1, <2>2, <2>3 DEF IInv, ServerKept
<1>11. Rest'
  <2>1. CASE op' = Idle
    BY <1>9, <1>10, <2>1, EndKeeps
  <2>2. CASE op' # Idle
    <3>1. PortsKnown' /\ ServerKept'
      BY <1>5, <1>10, <2>2 DEF PortsKnown, ServerKept, At
    <3>2. RecordKept'
      BY <1>5, <1>7, <1>9, <2>2 DEF RecordKept, At
    <3>3. RecordBuilt'
      BY <1>5, <2>2 DEF RecordBuilt, At
    <3> QED BY <3>1, <3>2, <3>3 DEF Rest
  <2> QED BY <2>1, <2>2
<1>12. TypeOK'
  <2>1. deleted' \subseteq Users
    <3>1. op.kind = "rmuser" => op.user \in Users
      BY <1>1 DEF OperationOK
    <3> QED BY <3>1 DEF Save, IInv, TypeOK
  <2>2. live' \in BOOLEAN
    BY DEF Save
  <2> QED BY <1>1, <1>2, <1>5, <1>8, <2>1, <2>2 DEF Save, IInv, TypeOK
<1> QED BY <1>1, <1>11, <1>12 DEF IInv, HostOK, Rest

-----------------------------------------------------------------------------

\* An operation begins at its connect, with the record it loaded.
LEMMA TransactionKeeps ==
    ASSUME IInv, NEW o, Transaction(o), OperationOK(o), o.pc = "connect", o.link, ~o.blind,
           ~o.reused, o.rec = vault[o.by],
           \/ o.kind # "teardown" /\ truthful' = truthful /\ live' = live
           \/ truthful' = {} /\ live' = FALSE
    PROVE  IInv'
<1>1. /\ op = Idle /\ op' = o /\ op' # Idle /\ host' = host /\ vault' = vault
      /\ truthful' \subseteq truthful /\ (live' => live)
  BY NotIdle DEF Transaction
<1>2. \A m \in truthful : vault[m] # None /\ Describes(host.ctr[Main], vault[m])
  BY <1>1 DEF IInv, RecordKept, At
<1>3. PortsKnown' /\ ServerKept'
  BY <1>1 DEF IInv, PortsKnown, ServerKept, At, Aside
<1>4. RecordKept'
  <2>1. \A m \in truthful' : vault'[m] # None /\ Describes(host.ctr[Main], vault[m])'
    BY <1>1, <1>2 DEF Describes, Knows
  <2> QED BY <1>1, <2>1 DEF RecordKept, At, Aside
<1>5. RecordBuilt'
  BY <1>1 DEF RecordBuilt, At
<1>6. TypeOK'
  <2>1. ops' \in 0..MaxOps
    BY ProvisionAssumption DEF Transaction, IInv, TypeOK
  <2> QED BY <1>1, <2>1 DEF Transaction, IInv, TypeOK
<1> QED BY <1>1, <1>3, <1>4, <1>5, <1>6 DEF IInv, HostOK

\* The fields of a fresh operation.
LEMMA OperationIs ==
    ASSUME TypeOK, NEW m \in Managers, NEW kind \in Kinds, NEW img \in Images, NEW port \in Ports,
           NEW o, o = Operation(m, kind, img, port)
    PROVE  /\ o \in Operations /\ o.by = m /\ o.kind = kind /\ o.pc = "connect" /\ o.rec = vault[m]
           /\ o.link /\ ~o.blind /\ ~o.reused /\ "connect" \in Steps(kind)
<1>1. "connect" \in Steps(kind)
  BY StepsOf DEF Kinds
<1>2. "connect" \in UNION {Steps(x) : x \in Kinds}
  BY <1>1
<1>3. vault[m] \in Record \cup {None}
  BY DEF TypeOK
<1>4. [listen |-> port, mtproxy |-> FALSE] \in Env
  BY DEF Env
<1>5. Main \in Names
  BY DEF Names
<1> QED BY <1>1, <1>2, <1>3, <1>4, <1>5 DEF Operation, Operations

\* Each kind of operation begins so.
LEMMA ProvisionOpKeeps ==
    ASSUME IInv, NEW m \in Managers, NEW img \in Images, NEW port \in Ports, NEW u \in Users,
           NEW telegram \in BOOLEAN, ProvisionOp(m, img, port, u, telegram)
    PROVE  IInv'
<1>1. PICK q : q = Operation(m, "provision", img, port)
  OBVIOUS
<1>2. /\ q \in Operations /\ q.by = m /\ q.kind = "provision" /\ q.pc = "connect"
      /\ q.rec = vault[m] /\ q.link /\ ~q.blind /\ ~q.reused /\ "connect" \in Steps("provision")
  BY <1>1, OperationIs DEF IInv, TypeOK, Kinds
<1>3. PICK o : o = [q EXCEPT !.user = u, !.telegram = telegram, !.env.mtproxy = telegram]
  OBVIOUS
<1>4. /\ o \in Operations /\ o.by = m /\ o.kind = "provision" /\ o.pc = "connect"
      /\ o.rec = vault[m] /\ o.link /\ ~o.blind /\ ~o.reused /\ o.user = u
  BY <1>2, <1>3 DEF Operations, Env
<1>5. OperationOK(o)
  BY <1>2, <1>4 DEF OperationOK
<1>6. Transaction(o) /\ truthful' = truthful /\ live' = live
  BY <1>1, <1>3 DEF ProvisionOp
<1> QED BY <1>4, <1>5, <1>6, TransactionKeeps

\* An upgrade starts.
LEMMA UpgradeOpKeeps ==
    ASSUME IInv, NEW m \in Managers, NEW img \in Images, NEW b \in Backups,
           NEW telegram \in BOOLEAN, UpgradeOp(m, img, b, telegram)
    PROVE  IInv'
<1>1. PICK q : q = Operation(m, "upgrade", img, vault[m].port)
  OBVIOUS
<1>2. vault[m] # None /\ vault[m].port \in Ports
  BY DEF UpgradeOp, IInv, TypeOK, Record
<1>3. /\ q \in Operations /\ q.by = m /\ q.kind = "upgrade" /\ q.pc = "connect"
      /\ q.rec = vault[m] /\ q.link /\ ~q.blind /\ ~q.reused /\ "connect" \in Steps("upgrade")
  BY <1>1, <1>2, OperationIs DEF IInv, TypeOK, Kinds
<1>4. PICK o : o = [q EXCEPT !.bak = b, !.telegram = telegram]
  OBVIOUS
<1>5. /\ o \in Operations /\ o.by = m /\ o.kind = "upgrade" /\ o.pc = "connect"
      /\ o.rec = vault[m] /\ o.link /\ ~o.blind /\ ~o.reused /\ o.bak = b
  BY <1>3, <1>4 DEF Operations, Names
<1>6. OperationOK(o)
  BY <1>2, <1>3, <1>5 DEF OperationOK
<1>7. Transaction(o) /\ truthful' = truthful /\ live' = live
  BY <1>1, <1>4 DEF UpgradeOp, Saved
<1> QED BY <1>5, <1>6, <1>7, TransactionKeeps

\* A teardown starts.
LEMMA TeardownOpKeeps ==
    ASSUME IInv, NEW m \in Managers, NEW purge \in BOOLEAN, TeardownOp(m, purge)
    PROVE  IInv'
<1>1. PICK q : q = Operation(m, "teardown", vault[m].img, vault[m].port)
  OBVIOUS
<1>2. vault[m] # None /\ vault[m].port \in Ports /\ vault[m].img \in Images
  BY DEF TeardownOp, IInv, TypeOK, Record
<1>3. /\ q \in Operations /\ q.by = m /\ q.kind = "teardown" /\ q.pc = "connect"
      /\ q.rec = vault[m] /\ q.link /\ ~q.blind /\ ~q.reused /\ "connect" \in Steps("teardown")
  BY <1>1, <1>2, OperationIs DEF IInv, TypeOK, Kinds
<1>4. PICK o : o = [q EXCEPT !.purge = purge]
  OBVIOUS
<1>5. /\ o \in Operations /\ o.by = m /\ o.kind = "teardown" /\ o.pc = "connect"
      /\ o.rec = vault[m] /\ o.link /\ ~o.blind /\ ~o.reused
  BY <1>3, <1>4 DEF Operations
<1>6. OperationOK(o)
  BY <1>2, <1>3, <1>5 DEF OperationOK
<1>7. Transaction(o) /\ truthful' = {} /\ live' = FALSE
  BY <1>1, <1>4 DEF TeardownOp, Saved
<1> QED BY <1>5, <1>6, <1>7, TransactionKeeps

\* An operation on users, or on the proxy, starts.
LEMMA UserOpKeeps ==
    ASSUME IInv, NEW m \in Managers, NEW kind \in {"adduser", "rmuser", "mtproxy"},
           NEW u \in Users \cup {None}, kind # "mtproxy" => u \in Users, UserOp(m, kind, u)
    PROVE  IInv'
<1>1. PICK q : q = Operation(m, kind, vault[m].img, vault[m].port)
  OBVIOUS
<1>2. /\ vault[m] # None /\ vault[m].port \in Ports /\ vault[m].img \in Images
      /\ kind \in Kinds
  BY DEF UserOp, IInv, TypeOK, Record, Kinds
<1>3. /\ q \in Operations /\ q.by = m /\ q.kind = kind /\ q.pc = "connect"
      /\ q.rec = vault[m] /\ q.link /\ ~q.blind /\ ~q.reused /\ "connect" \in Steps(kind)
  BY <1>1, <1>2, OperationIs DEF IInv
<1>4. PICK o : o = [q EXCEPT !.user = u]
  OBVIOUS
<1>5. /\ o \in Operations /\ o.by = m /\ o.kind = kind /\ o.pc = "connect"
      /\ o.rec = vault[m] /\ o.link /\ ~o.blind /\ ~o.reused /\ o.user = u
  BY <1>3, <1>4 DEF Operations
<1>6. OperationOK(o)
  BY <1>2, <1>3, <1>5 DEF OperationOK
<1>7. Transaction(o) /\ truthful' = truthful /\ live' = live
  BY <1>1, <1>4 DEF UserOp, Saved
<1> QED BY <1>5, <1>6, <1>7, TransactionKeeps

-----------------------------------------------------------------------------

\* Records change only between operations; a changed record is no longer
\* vouched for unless it still describes the same.
LEMMA RecordsKeep ==
    ASSUME IInv, op = Idle, op' = Idle, host' = host, live' = live, truthful' \subseteq truthful,
           vault' \in [Managers -> Record \cup {None}], backup' \in Record \cup {None},
           ops' \in 0..MaxOps, losses' = losses, deleted' = deleted,
           \A m \in truthful' : /\ vault'[m] # None /\ vault'[m].img = vault[m].img
                                /\ vault'[m].clients = vault[m].clients
    PROVE  IInv'
<1>1. \A m \in truthful : Describes(host.ctr[Main], vault[m])
  BY DEF IInv, RecordKept, At
<1>2. \A m \in truthful' : vault'[m] # None /\ Describes(host.ctr[Main], vault[m])'
  BY <1>1 DEF Describes, Knows
<1>3. Rest'
  BY <1>2, EndKeeps DEF IInv, ServerKept
<1> QED BY <1>3 DEF IInv, TypeOK, HostOK, Rest

\* Backups change no record.
LEMMA BackupKeeps ==
    ASSUME IInv, CliBackup(TRUE) \/ CliBackup(FALSE) \/ ExportBackup
    PROVE  IInv'
<1>1. backup' \in Record \cup {None}
  <2>1. ASSUME NEW only \in BOOLEAN, CliBackup(only)
        PROVE  backup' \in Record
    <3>1. vault["cli"] \in Record
      BY <2>1 DEF CliBackup, IInv, TypeOK, Managers
    <3> QED BY <2>1, <3>1 DEF CliBackup, Record
  <2>2. CASE ExportBackup
    BY <2>2 DEF ExportBackup, IInv, TypeOK, Managers
  <2> QED BY <2>1, <2>2
<1>2. /\ op = Idle /\ op' = op /\ host' = host /\ live' = live /\ truthful' = truthful
      /\ vault' = vault /\ ops' = ops /\ losses' = losses /\ deleted' = deleted
  BY DEF CliBackup, ExportBackup
<1> QED BY <1>1, <1>2, RecordsKeep DEF IInv, TypeOK, RecordKept

\* An imported record is not vouched for.
LEMMA ImportKeeps ==
    ASSUME IInv, NEW m \in Managers, ImportRecords(m)
    PROVE  IInv'
<1>1. vault' \in [Managers -> Record \cup {None}] /\ \A k \in Managers \ {m} : vault'[k] = vault[k]
  BY DEF ImportRecords, IInv, TypeOK
<1>2. ops' \in 0..MaxOps
  BY ProvisionAssumption DEF ImportRecords, IInv, TypeOK
<1> QED BY <1>1, <1>2, RecordsKeep DEF ImportRecords, IInv, TypeOK, RecordKept

\* New credentials leave what the record describes.
LEMMA CredentialsKeep == ASSUME IInv, Credentials PROVE IInv'
<1>1. "cli" \in Managers /\ vault["cli"] \in Record /\ vault \in [Managers -> Record \cup {None}]
  BY DEF Credentials, IInv, TypeOK, Managers
<1>2. PICK r : r = [vault["cli"] EXCEPT !.cred = TRUE]
  OBVIOUS
<1>3. r \in Record /\ r.img = vault["cli"].img /\ r.clients = vault["cli"].clients
  BY <1>1, <1>2 DEF Record
<1>4. vault' = [vault EXCEPT !["cli"] = r]
  BY <1>2 DEF Credentials
<1>5. vault' \in [Managers -> Record \cup {None}]
      /\ \A m \in truthful : /\ vault'[m] # None /\ vault'[m].img = vault[m].img
                             /\ vault'[m].clients = vault[m].clients
  BY <1>1, <1>3, <1>4, ProvisionAssumption DEF IInv, TypeOK, RecordKept
<1> QED BY <1>5, RecordsKeep DEF Credentials, IInv, TypeOK

\* A server that gets ready is what it was, and was up before.
Readied(c) == [c EXCEPT !.st = "ready"]

\* A server gets ready while any operation is under way.
LEMMA ReadyKeeps ==
    ASSUME IInv, NEW n \in Names, HostReady(n)
    PROVE  IInv'
<1> DEFINE c == host.ctr[n]
<1>1. /\ c \in Container /\ host \in Host /\ c.st = "boot" /\ c.img \notin Broken
      /\ host.ctr \in [Names -> Container \cup {None}]
  BY HostParts DEF HostReady, IInv, TypeOK
<1>2. /\ Readied(c) \in Container /\ Readied(c).st = "ready" /\ Readied(c).img = c.img
      /\ Readied(c).env = c.env /\ Readied(c).pub = c.pub /\ Readied(c).blind = c.blind
  BY <1>1 DEF Readied, Container
<1>3. Readied(c) # None
  BY <1>2, ProvisionAssumption
<1>4. host' \in Host /\ host'.ctr = [host.ctr EXCEPT ![n] = Readied(c)] /\ host'.vol = host.vol
  <2>1. host' = [host EXCEPT !.ctr = [host.ctr EXCEPT ![n] = Readied(c)]]
    BY <1>1 DEF HostReady, Readied, Host
  <2>2. PICK f : f = [host.ctr EXCEPT ![n] = Readied(c)]
    OBVIOUS
  <2>3. f \in [Names -> Container \cup {None}]
    BY <1>1, <1>2, <2>2
  <2>4. host' = [host EXCEPT !.ctr = f]
    BY <2>1, <2>2
  <2>5. host' \in Host /\ host'.ctr = f /\ host'.vol = host.vol
    BY <1>1, <2>3, <2>4 DEF Host
  <2> QED BY <2>2, <2>5
<1> HIDE DEF c
<1>5. host.vol # None /\ Fits(c, host.vol)
  <2>1. c # None /\ c = host.ctr[n]
    BY <1>1, ProvisionAssumption DEF c
  <2>2. Fits(c, host.vol)
    BY <1>1, <2>1 DEF IInv, HostOK
  <2> QED BY <1>1, <2>2 DEF Fits
<1>6. \A m \in Names : /\ host'.ctr[m] # None <=> host.ctr[m] # None
                       /\ host'.ctr[m].img = host.ctr[m].img /\ host'.ctr[m].env = host.ctr[m].env
                       /\ Good(host'.ctr[m]) <=> Good(host.ctr[m])
                       /\ Up(host'.ctr[m]) <=> Up(host.ctr[m])
                       /\ Fits(host.ctr[m], host.vol) => Fits(host'.ctr[m], host.vol)
  <2>1. ASSUME NEW m \in Names, m # n PROVE host'.ctr[m] = host.ctr[m]
    BY <1>1, <1>4, <2>1
  <2>2. host'.ctr[n] = Readied(c) /\ host.ctr[n] = c /\ c # None
    BY <1>1, <1>4, ProvisionAssumption DEF c
  <2>3. Good(Readied(c)) <=> Good(c)
    BY <1>2, <1>3, <2>2 DEF Good
  <2>4. Up(Readied(c)) /\ Up(c)
    BY <1>1, <1>2, <1>3, <2>2 DEF Up
  <2>5. Fits(Readied(c), host.vol)
    BY <1>2, <1>5 DEF Fits
  <2> QED BY <1>2, <1>3, <2>1, <2>2, <2>3, <2>4, <2>5
<1>7. HostOK'
  <2>1. ASSUME NEW m \in Names, host'.ctr[m] # None
        PROVE  /\ m = Main \/ host'.ctr[m].st # "created" => Fits(host'.ctr[m], host'.vol)
               /\ host'.ctr[m].st = "ready" => Good(host'.ctr[m])
    <3>1. CASE m = n
      BY <1>1, <1>2, <1>3, <1>4, <1>5, <1>6, <3>1 DEF Good, c
    <3>2. CASE m # n
      BY <1>1, <1>4, <2>1, <3>2 DEF IInv, HostOK
    <3> QED BY <3>1, <3>2
  <2> QED BY <2>1 DEF HostOK
<1>8. /\ op' = op /\ vault' = vault /\ truthful' = truthful /\ live' = live
      /\ Main \in Names /\ Backups \subseteq Names /\ (op # Idle => op.bak \in Names)
  BY DEF HostReady, IInv, TypeOK, OperationOK, Operations, Names
<1>9. PortsKnown'
  BY <1>4, <1>6, <1>8 DEF IInv, PortsKnown, At
<1>10. ServerKept'
  BY <1>6, <1>8 DEF IInv, ServerKept, At
<1>11. \A m \in truthful : Describes(host.ctr[Main], vault[m]) => Describes(host.ctr[Main], vault[m])'
  BY <1>4, <1>6, <1>8 DEF Describes, Knows
<1>12. RecordKept'
  BY <1>4, <1>6, <1>8, <1>11 DEF IInv, RecordKept, At, Aside, Knows
<1>13. RecordBuilt'
  BY <1>4, <1>6, <1>8 DEF IInv, RecordBuilt, At, Describes, Knows
<1> QED BY <1>4, <1>7, <1>9, <1>10, <1>12, <1>13 DEF HostReady, IInv, TypeOK

\* A late port is released.
LEMMA PortReleasedKeeps == ASSUME IInv, PortReleased PROVE IInv'
<1>1. host' \in Host /\ host'.ctr = host.ctr /\ host'.vol = host.vol
  BY DEF PortReleased, IInv, TypeOK, Host
<1>2. op' = op /\ vault' = vault /\ truthful' = truthful /\ live' = live
  BY DEF PortReleased
<1>3. HostOK'
  BY <1>1 DEF IInv, HostOK
<1>4. PortsKnown' /\ ServerKept'
  BY <1>1, <1>2 DEF IInv, PortsKnown, ServerKept, At
<1>5. RecordKept'
  BY <1>1, <1>2 DEF IInv, RecordKept, At, Describes, Knows
<1>6. RecordBuilt'
  BY <1>1, <1>2 DEF IInv, RecordBuilt, At, Describes, Knows
<1> QED BY <1>1, <1>3, <1>4, <1>5, <1>6 DEF PortReleased, IInv, TypeOK

\* A reinstalled machine has nothing left, and nothing is claimed of it.
LEMMA ReinstalledKeeps == ASSUME IInv, Reinstalled PROVE IInv'
<1>1. host' \in Host /\ \A n \in Names : host'.ctr[n] = None
  BY DEF Reinstalled, Host
<1>2. HostOK'
  BY <1>1 DEF HostOK
<1>3. Rest'
  BY EndKeeps DEF Reinstalled
<1> QED BY <1>1, <1>2, <1>3 DEF Reinstalled, IInv, TypeOK, Rest

-----------------------------------------------------------------------------

\* Every step keeps the invariant.
LEMMA Inductive == IInv /\ [Next]_vars => IInv'
<1> SUFFICES ASSUME IInv, [Next]_vars PROVE IInv'
  OBVIOUS
<1>1. "cli" \in Managers /\ "phone" \in Managers /\ FALSE \in BOOLEAN
  BY DEF Managers
<1>2. CASE \E img \in Images, port \in Ports, u \in Users :
             \/ PhoneProvision(img, port, u)
             \/ \E telegram \in BOOLEAN : CliProvision(img, port, u, telegram)
  BY <1>1, <1>2, ProvisionOpKeeps DEF PhoneProvision, CliProvision
<1>3. CASE \E img \in Images, b \in Backups :
             CliUpgrade(img, b) \/ \E telegram \in BOOLEAN : PhoneUpgrade(img, b, telegram)
  BY <1>1, <1>3, UpgradeOpKeeps DEF CliUpgrade, PhoneUpgrade
<1>4. CASE \E purge \in BOOLEAN : CliTeardown(purge) \/ PhoneTeardown(purge)
  BY <1>1, <1>4, TeardownOpKeeps DEF CliTeardown, PhoneTeardown
<1>5. CASE \E u \in Users : CliUserAdd(u) \/ CliUserRm(u) \/ PhoneAddUser(u) \/ PhoneDeleteUser(u)
  BY <1>1, <1>5, UserOpKeeps DEF CliUserAdd, CliUserRm, PhoneAddUser, PhoneDeleteUser
<1>6. CASE CliMtProxy
  BY <1>1, <1>6, UserOpKeeps DEF CliMtProxy
<1>7. CASE Command \/ CommandFails \/ LinkBreaks \/ LinkDown \/ Killed \/ Save
  BY <1>7, CommandKeeps, CommandFailsKeeps, LinkBreaksKeeps, LinkDownKeeps, KilledKeeps, SaveKeeps
<1>8. CASE (\E only \in BOOLEAN : CliBackup(only)) \/ ExportBackup
  BY <1>8, BackupKeeps
<1>9. CASE CliRestore \/ ImportBackup \/ Credentials
  BY <1>1, <1>9, ImportKeeps, CredentialsKeep DEF CliRestore, ImportBackup
<1>10. CASE (\E n \in Names : HostReady(n)) \/ PortReleased \/ Reinstalled
  BY <1>10, ReadyKeeps, PortReleasedKeeps, ReinstalledKeeps
<1>11. CASE UNCHANGED vars
  <2>1. /\ host' = host /\ vault' = vault /\ backup' = backup /\ op' = op /\ ops' = ops
        /\ losses' = losses /\ truthful' = truthful /\ live' = live /\ deleted' = deleted
    BY <1>11 DEF vars
  <2> QED BY <2>1 DEF IInv, TypeOK, HostOK, PortsKnown, ServerKept, RecordKept, RecordBuilt, At,
                      Describes, Knows
<1> QED
  BY <1>2, <1>3, <1>4, <1>5, <1>6, <1>7, <1>8, <1>9, <1>10, <1>11 DEF Next

\* It holds of a new host and empty vaults.
LEMMA Initial == Init => IInv
<1> SUFFICES ASSUME Init PROVE IInv
  OBVIOUS
<1>1. TypeOK
  <2>1. host \in Host
    BY DEF Init, Host
  <2>2. vault \in [Managers -> Record \cup {None}] /\ backup \in Record \cup {None}
    BY DEF Init
  <2>3. ops \in 0..MaxOps /\ losses \in 0..MaxLosses
    BY ProvisionAssumption DEF Init
  <2> QED BY <2>1, <2>2, <2>3 DEF Init, TypeOK
<1>2. HostOK
  BY DEF Init, HostOK
<1> QED BY <1>1, <1>2 DEF Init, IInv, PortsKnown, ServerKept, RecordKept, RecordBuilt, At

\* So it always holds.
LEMMA Invariance == Spec => []IInv
BY Initial, Inductive, PTL DEF Spec

\* Whatever the managers do and wherever it is cut, the host, the vaults and
\* the operation under way are of the declared shape: every operation stands
\* at a command of its kind and has the record and the names it needs.
THEOREM ProvisionTypeCorrect == Spec => []TypeOK
<1>1. IInv => TypeOK
  BY DEF IInv
<1> QED BY <1>1, Invariance, PTL

\* A running container publishes the port its config binds (provision_inner
\* and upgrade read the volume's config before docker run), for any ports,
\* any number of redeploys, and any cut of an upgrade or rollback.
THEOREM PublishedPortBound == Spec => []PublishedIsBound
<1>1. IInv => PublishedIsBound
  BY DEF IInv, HostOK, PublishedIsBound, Up, Fits
<1> QED BY <1>1, Invariance, PTL

\* Between operations a record nothing made stale describes what really runs
\* (engine.rs upgrade and its rollback, Vault::save): the image of a running
\* container and only clients the server knows.
THEOREM RecordsTruthful == Spec => []RecordTruthful
<1>1. IInv => RecordTruthful
  BY DEF IInv, RecordKept, RecordTruthful, Describes, Knows, At
<1> QED BY <1>1, Invariance, PTL

\* An upgrade never destroys the only working server (engine.rs upgrade moves
\* it aside before it deploys, and removes it only once the new one answers),
\* for any images, any number of attempts and any cut.
THEOREM ServerNeverLost == Spec => []NeverLostServer
<1>1. IInv => NeverLostServer
  BY DEF IInv, ServerKept, NeverLostServer, Good
<1> QED BY <1>1, Invariance, PTL
=============================================================================
