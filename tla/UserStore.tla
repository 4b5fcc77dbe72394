----------------------------- MODULE UserStore ------------------------------
(***************************************************************************)
(* The server's users: the in-memory store of the datapath (user.rs), its  *)
(* sqlite copy (sqlite_store.rs) and the control socket's requests         *)
(* (control.rs).  Every request runs on a thread of the blocking pool: it  *)
(* changes memory first and writes the row afterwards under the database   *)
(* lock, and nothing orders two requests, also on the same user.  A        *)
(* flusher copies the usage counters; the process may be killed between    *)
(* any two steps.                                                          *)
(***************************************************************************)
EXTENDS Naturals, FiniteSets

CONSTANTS
    Users,        \* short ids
    Reqs,         \* control requests that may run at the same time
    Limits,       \* caps, expiry and rates of a definition, as one value
    MaxReqs,      \* bound: requests of one behaviour
    MaxUsage,     \* bound: units of traffic per user
    MaxFailures,  \* bound: failing sqlite statements
    MaxRestarts   \* bound: restarts of the server

ASSUME StoreAssumption ==
    /\ Limits # {}
    /\ \A b \in {MaxReqs, MaxUsage, MaxFailures, MaxRestarts} : b \in Nat

VARIABLES
    mem,      \* InMemoryUserStore: the row of each user
    db,       \* the users table
    req,      \* per request: what it still has to do
    snap,     \* flush_now: the snapshot it took
    todo,     \* flush_now: rows still to write
    flushing, \* flush_now holds the database lock
    behind,   \* history: per request, the statements of its user that were
              \* pending when it changed memory and still are
    astray,   \* history: users of whom, since the start of the process, a
              \* statement failed or overtook an earlier one
    bans,     \* history: running Disable and Remove requests, nothing undid yet
    banned,   \* history: a Disable or Remove was answered, nothing undid it
    total,    \* history: traffic of each user
    reqs, failures, restarts   \* bounds

vars == <<mem, db, req, snap, todo, flushing, behind, astray, bans, banned, total,
          reqs, failures, restarts>>
flusher == <<snap, todo, flushing>>
history == <<behind, astray, bans, banned>>
bounds  == <<reqs, failures, restarts>>

States == {"on", "off"}
Row    == [st : States \cup {"absent"}, lim : Limits, used : Nat]
Ops    == {"upsert", "remove", "enable", "disable", "reset"}
NoLim  == CHOOSE l \in Limits : TRUE
NoRow  == [st |-> "absent", lim |-> NoLim, used |-> 0]
Idle   == [phase |-> "idle"]
Task   == {Idle} \cup [phase : {"upsert", "db"}, op : Ops, u : Users, st : States, lim : Limits]

Known(t, u)       == t[u].st # "absent"
WithUsed(row, n)  == [st |-> row.st, lim |-> row.lim, used |-> n]
WithState(row, s) == [st |-> s, lim |-> row.lim, used |-> row.used]

TypeOK ==
    /\ mem \in [Users -> Row] /\ db \in [Users -> Row]
    /\ req \in [Reqs -> Task]
    /\ snap \in [Users -> Nat] /\ todo \subseteq Users /\ flushing \in BOOLEAN
    /\ behind \in [Reqs -> SUBSET Reqs] /\ astray \subseteq Users
    /\ bans \subseteq Reqs /\ banned \subseteq Users
    /\ total \in [Users -> Nat]

\* A fresh database: the first user is added through the store as well.
Init ==
    /\ mem = [u \in Users |-> NoRow] /\ db = [u \in Users |-> NoRow]
    /\ req = [r \in Reqs |-> Idle]
    /\ snap = [u \in Users |-> 0] /\ todo = {} /\ flushing = FALSE
    /\ behind = [r \in Reqs |-> {}] /\ astray = {} /\ bans = {} /\ banned = {}
    /\ total = [u \in Users |-> 0]
    /\ reqs = 0 /\ failures = 0 /\ restarts = 0

-----------------------------------------------------------------------------
(* InMemoryUserStore                                                       *)

\* upsert: a known user keeps its usage, a new one starts at zero.
Upserted(t, u, st, lim) ==
    [t EXCEPT ![u] = [st |-> st, lim |-> lim, used |-> IF Known(t, u) THEN t[u].used ELSE 0]]

\* add_usage, from the relays; usage of an unknown user is dropped.
AddUsage(u) ==
    /\ total[u] < MaxUsage
    /\ total' = [total EXCEPT ![u] = @ + 1]
    /\ mem' = IF Known(mem, u) THEN [mem EXCEPT ![u] = WithUsed(mem[u], mem[u].used + 1)] ELSE mem
    /\ UNCHANGED <<db, req>> /\ UNCHANGED history /\ UNCHANGED flusher /\ UNCHANGED bounds

-----------------------------------------------------------------------------
(* Control requests: dispatch(), then the SqliteUserStore method.          *)

Begin(r) == req[r] = Idle /\ reqs < MaxReqs /\ reqs' = reqs + 1

Pending(op, u, st, lim) ==
    [phase |-> "db", op |-> op, u |-> u, st |-> st, lim |-> lim]

\* The requests whose statement on user u is pending.
Queue(u) == {q \in Reqs : req[q].phase = "db" /\ req[q].u = u}

\* Request r has changed memory and goes on to statement t; `lifts': it turns
\* the user on.
Changed(r, t, lifts) ==
    /\ req' = [req EXCEPT ![r] = t]
    /\ behind' = [behind EXCEPT ![r] = Queue(t.u)]
    /\ bans' = (IF lifts THEN bans \ Queue(t.u) ELSE bans)
                 \cup (IF t.op \in {"disable", "remove"} THEN {r} ELSE {})
    /\ banned' = IF lifts THEN banned \ {t.u} ELSE banned
    /\ UNCHANGED astray

\* Req::Add: upsert with a given or default enabled flag.
Add(r, u, st, lim) ==
    /\ Begin(r)
    /\ mem' = Upserted(mem, u, st, lim)
    /\ Changed(r, Pending("upsert", u, st, lim), st = "on")
    /\ UNCHANGED <<db, total, failures, restarts>> /\ UNCHANGED flusher

\* Req::Update, first half: read the enabled flag out of a snapshot; an
\* unknown user is an error answer.
UpdateRead(r, u, lim) ==
    /\ Begin(r)
    /\ Known(mem, u)
    /\ req' = [req EXCEPT ![r] = [phase |-> "upsert", op |-> "upsert", u |-> u,
                                  st |-> mem[u].st, lim |-> lim]]
    /\ UNCHANGED <<mem, db, total, failures, restarts>> /\ UNCHANGED history /\ UNCHANGED flusher

\* Mutant: an update enables the user.
UpdateUpsertOn(r) ==
    /\ req[r].phase = "upsert"
    /\ mem' = Upserted(mem, req[r].u, "on", req[r].lim)
    /\ Changed(r, Pending("upsert", req[r].u, "on", req[r].lim), req[r].st = "on")
    /\ UNCHANGED <<db, total>> /\ UNCHANGED flusher /\ UNCHANGED bounds

\* Req::Update, second half: upsert with what was read, so a flag that was
\* "on" turns the user on again whatever ran in between.
UpdateUpsert(r) ==
    /\ req[r].phase = "upsert"
    /\ mem' = Upserted(mem, req[r].u, req[r].st, req[r].lim)
    /\ Changed(r, Pending("upsert", req[r].u, req[r].st, req[r].lim), req[r].st = "on")
    /\ UNCHANGED <<db, total>> /\ UNCHANGED flusher /\ UNCHANGED bounds

\* Req::Enable / Req::Disable; an unknown user is an error answer.
SetEnabled(r, u, op) ==
    /\ Begin(r)
    /\ Known(mem, u)
    /\ LET st == IF op = "enable" THEN "on" ELSE "off" IN
         /\ mem' = [mem EXCEPT ![u] = WithState(mem[u], st)]
         /\ Changed(r, Pending(op, u, st, mem[u].lim), op = "enable")
    /\ UNCHANGED <<db, total, failures, restarts>> /\ UNCHANGED flusher

\* Req::Remove.
Remove(r, u) ==
    /\ Begin(r)
    /\ Known(mem, u)
    /\ mem' = [mem EXCEPT ![u] = NoRow]
    /\ Changed(r, Pending("remove", u, "off", mem[u].lim), FALSE)
    /\ UNCHANGED <<db, total, failures, restarts>> /\ UNCHANGED flusher

\* Req::ResetUsage.
ResetUsage(r, u) ==
    /\ Begin(r)
    /\ Known(mem, u)
    /\ mem' = [mem EXCEPT ![u] = WithUsed(mem[u], 0)]
    /\ Changed(r, Pending("reset", u, mem[u].st, mem[u].lim), FALSE)
    /\ UNCHANGED <<db, total, failures, restarts>> /\ UNCHANGED flusher

\* Mutant: only the enabled column of a new row is written through.
DbAppliedNoUpdate(t) ==
    LET u == t.u IN
      IF t.op = "upsert" THEN Upserted(db, u, t.st, t.lim)
      ELSE IF t.op = "remove" THEN [db EXCEPT ![u] = NoRow]
      ELSE IF t.op = "reset" /\ Known(db, u) THEN [db EXCEPT ![u] = WithUsed(db[u], 0)]
      ELSE db

\* The SQL statements: INSERT .. ON CONFLICT, DELETE, and UPDATEs that touch
\* no row when there is none.
DbApplied(t) ==
    LET u == t.u IN
      IF t.op = "upsert" THEN Upserted(db, u, t.st, t.lim)
      ELSE IF t.op = "remove" THEN [db EXCEPT ![u] = NoRow]
      ELSE IF ~Known(db, u) THEN db
      ELSE IF t.op = "reset" THEN [db EXCEPT ![u] = WithUsed(db[u], 0)]
      ELSE [db EXCEPT ![u] = WithState(db[u], t.st)]

\* The {"ok":true} answer.
Answer(r) ==
    /\ req' = [req EXCEPT ![r] = Idle]
    /\ behind' = [q \in Reqs |-> IF q = r THEN {} ELSE behind[q] \ {r}]
    /\ bans' = bans \ {r}
    /\ banned' = IF r \in bans THEN banned \cup {req[r].u} ELSE banned

\* Write-through under the database lock, then the answer.  Whichever request
\* gets the lock first writes first.
DbWrite(r) ==
    /\ req[r].phase = "db" /\ ~flushing
    /\ db' = DbApplied(req[r])
    /\ astray' = IF behind[r] = {} THEN astray ELSE astray \cup {req[r].u}
    /\ Answer(r)
    /\ UNCHANGED <<mem, total>> /\ UNCHANGED flusher /\ UNCHANGED bounds

\* A failing statement is logged; the answer is the same.
DbWriteFails(r) ==
    /\ req[r].phase = "db" /\ ~flushing /\ failures < MaxFailures
    /\ failures' = failures + 1
    /\ astray' = astray \cup {req[r].u}
    /\ Answer(r)
    /\ UNCHANGED <<mem, db, total, reqs, restarts>> /\ UNCHANGED flusher

-----------------------------------------------------------------------------
(* flush_now, every 10 seconds, one at a time; and the process.            *)

Present == {u \in Users : Known(mem, u)}

\* Mutant: disabled users are skipped.
FlushSnapshotEnabled ==
    /\ todo = {} /\ {u \in Users : mem[u].st = "on"} # {}
    /\ snap' = [u \in Users |-> mem[u].used]
    /\ todo' = {u \in Users : mem[u].st = "on"}
    /\ UNCHANGED <<mem, db, req, flushing, total>> /\ UNCHANGED history /\ UNCHANGED bounds

\* The snapshot is taken before the database lock.
FlushSnapshot ==
    /\ todo = {} /\ Present # {}
    /\ snap' = [u \in Users |-> mem[u].used]
    /\ todo' = Present
    /\ UNCHANGED <<mem, db, req, flushing, total>> /\ UNCHANGED history /\ UNCHANGED bounds

\* UPDATE users SET used_up, used_down WHERE short_id.
Flushed(u) == IF Known(db, u) THEN [db EXCEPT ![u] = WithUsed(db[u], snap[u])] ELSE db

\* One UPDATE per row, the lock held from the first to the last.
FlushRow(u) ==
    /\ u \in todo
    /\ db' = Flushed(u)
    /\ todo' = todo \ {u}
    /\ flushing' = (todo' # {})
    /\ UNCHANGED <<mem, req, snap, total>> /\ UNCHANGED history /\ UNCHANGED bounds

\* A failing UPDATE ends the flush; the next tick retries.
FlushFails ==
    /\ todo # {} /\ failures < MaxFailures
    /\ failures' = failures + 1
    /\ todo' = {} /\ flushing' = FALSE
    /\ UNCHANGED <<mem, db, req, snap, total, reqs, restarts>> /\ UNCHANGED history

\* The process ends (there is no flush on the way out) and open() loads the
\* table; requests in flight are never answered.
Restart ==
    /\ restarts < MaxRestarts
    /\ restarts' = restarts + 1
    /\ mem' = db
    /\ req' = [r \in Reqs |-> Idle]
    /\ todo' = {} /\ flushing' = FALSE
    /\ behind' = [r \in Reqs |-> {}] /\ astray' = {} /\ bans' = {}
    /\ banned' = banned \ astray
    /\ UNCHANGED <<db, snap, total, reqs, failures>>

Request(r) ==
    \E u \in Users :
      \/ \E l \in Limits : (\E st \in States : Add(r, u, st, l)) \/ UpdateRead(r, u, l)
      \/ \E op \in {"enable", "disable"} : SetEnabled(r, u, op)
      \/ Remove(r, u) \/ ResetUsage(r, u)

Next ==
    \/ \E r \in Reqs : Request(r) \/ UpdateUpsert(r) \/ DbWrite(r) \/ DbWriteFails(r)
    \/ \E u \in Users : AddUsage(u) \/ FlushRow(u)
    \/ FlushSnapshot \/ FlushFails \/ Restart

\* Blocking-pool threads run to their end; the flusher's ticker never stops.
Fairness ==
    /\ \A r \in Reqs : WF_vars(UpdateUpsert(r)) /\ SF_vars(DbWrite(r))
    /\ WF_vars(FlushSnapshot) /\ \A u \in Users : WF_vars(FlushRow(u))

Spec     == Init /\ [][Next]_vars
FairSpec == Spec /\ Fairness

-----------------------------------------------------------------------------
(* Properties.                                                             *)

Definition(t, u) == IF Known(t, u) THEN <<t[u].st, t[u].lim>> ELSE <<"absent">>

\* "write-through, no flush needed": with any number of requests at once, also
\* on the same user, and statements failing for others, memory and the table
\* hold the same definition of every user none of whose statements is
\* pending, unless one of his failed or two of his reached the table in the
\* other order (nothing in the code excludes that).  A restart mends both.
WriteThrough ==
    \A u \in Users \ astray : Queue(u) = {} => Definition(mem, u) = Definition(db, u)

\* "`user disable <id>` (cuts access instantly)": once a Disable or Remove was
\* answered and no Enable, no Add and no Update that had read the older flag
\* came after it, the datapath does not authorize the user, and neither does
\* a restarted server unless the statement failed or was overtaken.
BanHolds ==
    \A u \in banned : mem[u].st # "on" /\ (u \notin astray => db[u].st # "on")

\* No counter ever exceeds the traffic there was, through flushes, restarts
\* and re-adds: a user is never charged twice.
UsageNeverInvented ==
    \A u \in Users : mem[u].used <= total[u] /\ db[u].used <= total[u]

\* A flush that took its snapshot before a reset may write the old value
\* back, but every row ends up with the counters of memory, through failing
\* flushes and restarts.
UsageConverges ==
    \A u \in Users : <>[](Known(mem, u) /\ Known(db, u) => db[u].used = mem[u].used)
=============================================================================
