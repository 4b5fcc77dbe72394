--------------------------- MODULE UserStoreProofs --------------------------
(***************************************************************************)
(* Usage accounting of the user store, for every set of users, limits and  *)
(* concurrent requests, every number of failures and restarts.             *)
(***************************************************************************)
EXTENDS UserStore, TLAPS

\* A stale snapshot is still a count of real traffic.
SnapBound == \A u \in Users : snap[u] <= total[u]

IInv == TypeOK /\ UsageNeverInvented /\ SnapBound

\* CHOOSE picks a limit.
LEMMA NoRowType == NoRow \in Row /\ NoRow.used = 0 /\ Idle \in Task
BY StoreAssumption DEF NoRow, Row, NoLim, Idle, Task

\* upsert keeps the counter of a known user and types every column.
LEMMA UpsertedType ==
    ASSUME NEW t \in [Users -> Row], NEW u \in Users, NEW st \in States, NEW l \in Limits
    PROVE  /\ Upserted(t, u, st, l) \in [Users -> Row]
           /\ \A v \in Users : Upserted(t, u, st, l)[v].used <= t[v].used
BY DEF Upserted, Known, Row, States

\* The write-through statements never raise a counter.
LEMMA DbAppliedType ==
    ASSUME db \in [Users -> Row], NEW t \in Task, t # Idle
    PROVE  /\ DbApplied(t) \in [Users -> Row]
           /\ \A v \in Users : DbApplied(t)[v].used <= db[v].used
<1>1. /\ t.u \in Users /\ t.st \in States /\ t.lim \in Limits
  BY DEF Task, Idle
<1>2. CASE t.op = "upsert"
  BY <1>1, <1>2, UpsertedType DEF DbApplied
<1>3. CASE t.op = "remove"
  BY <1>1, <1>3, NoRowType DEF DbApplied, Row
<1>4. CASE t.op \notin {"upsert", "remove"}
  BY <1>1, <1>4 DEF DbApplied, Row, States, WithUsed, WithState
<1> QED BY <1>2, <1>3, <1>4

\* The bookkeeping of a memory change and of an answer is typed.
LEMMA ChangedType ==
    ASSUME TypeOK, NEW r \in Reqs, NEW t \in Task, NEW lifts, Changed(r, t, lifts)
    PROVE  /\ req' \in [Reqs -> Task] /\ behind' \in [Reqs -> SUBSET Reqs]
           /\ astray' \subseteq Users /\ bans' \subseteq Reqs /\ banned' \subseteq Users
BY DEF Changed, Queue, TypeOK

\* A fresh store has charged nobody.
LEMMA InitIInv == Init => IInv
<1> SUFFICES ASSUME Init PROVE IInv
  OBVIOUS
<1>1. flushing \in BOOLEAN
  BY DEF Init
<1>2. TypeOK
  BY <1>1, NoRowType DEF Init, TypeOK
<1>3. UsageNeverInvented
  BY NoRowType DEF Init, UsageNeverInvented
<1>4. SnapBound
  BY DEF Init, SnapBound
<1> QED BY <1>2, <1>3, <1>4 DEF IInv

\* No step raises a counter above the traffic.
LEMMA NextIInv == IInv /\ [Next]_vars => IInv'
<1> SUFFICES ASSUME IInv, [Next]_vars PROVE IInv'
  OBVIOUS
<1>t. /\ mem \in [Users -> Row] /\ db \in [Users -> Row] /\ req \in [Reqs -> Task]
      /\ snap \in [Users -> Nat] /\ todo \subseteq Users /\ flushing \in BOOLEAN
      /\ behind \in [Reqs -> SUBSET Reqs] /\ astray \subseteq Users /\ bans \subseteq Reqs
      /\ banned \subseteq Users /\ total \in [Users -> Nat]
  BY DEF IInv, TypeOK
<1>ty. TypeOK
  BY DEF IInv
<1>n. \A t \in Task : t.phase # "idle" => t # Idle
  BY DEF Idle
<1>p. \A op \in Ops, u \in Users, st \in States, l \in Limits : Pending(op, u, st, l) \in Task
  BY DEF Pending, Task
<1>m. \A u \in Users : mem[u].lim \in Limits /\ mem[u].used \in Nat
  BY <1>t DEF Row
<1>d. \A u \in Users : db[u].used \in Nat
  BY <1>t DEF Row
\* A step that leaves snapshots and traffic alone and raises no counter.
<1>s. ASSUME mem' \in [Users -> Row], db' \in [Users -> Row], req' \in [Reqs -> Task],
             behind' \in [Reqs -> SUBSET Reqs], astray' \subseteq Users, bans' \subseteq Reqs,
             banned' \subseteq Users, todo' \subseteq Users, flushing' \in BOOLEAN,
             UNCHANGED <<snap, total>>,
             \A v \in Users : mem'[v].used <= mem[v].used \/ mem'[v].used <= db[v].used,
             \A v \in Users : db'[v].used <= db[v].used \/ db'[v].used <= snap[v]
      PROVE  IInv'
  <2>1. TypeOK'
    BY <1>s, <1>t DEF TypeOK
  <2>2. SnapBound'
    BY <1>s DEF IInv, SnapBound
  <2>3. ASSUME NEW v \in Users PROVE mem'[v].used <= total[v] /\ db'[v].used <= total[v]
    <3>1. /\ mem'[v].used \in Nat /\ db'[v].used \in Nat
      BY <1>s DEF Row
    <3> QED BY <3>1, <1>s, <1>t, <1>m, <1>d DEF IInv, UsageNeverInvented, SnapBound
  <2>4. UsageNeverInvented'
    BY <2>3, <1>s DEF UsageNeverInvented
  <2> QED BY <2>1, <2>2, <2>4 DEF IInv
<1>i. \A v \in Users : mem[v].used <= mem[v].used /\ db[v].used <= db[v].used
  BY <1>m, <1>d
<1>1. ASSUME NEW r \in Reqs, NEW u \in Users, NEW st \in States, NEW l \in Limits, Add(r, u, st, l)
      PROVE  IInv'
  <2>1. mem' \in [Users -> Row] /\ \A v \in Users : mem'[v].used <= mem[v].used
    BY <1>1, <1>t, UpsertedType DEF Add
  <2>2. Pending("upsert", u, st, l) \in Task
    BY <1>p DEF Ops
  <2>3. Changed(r, Pending("upsert", u, st, l), st = "on")
    BY <1>1 DEF Add
  <2> QED BY <2>1, <2>2, <2>3, <1>1, <1>t, <1>ty, <1>i, <1>s, ChangedType DEF Add, flusher
<1>2. ASSUME NEW r \in Reqs, NEW u \in Users, NEW l \in Limits, UpdateRead(r, u, l) PROVE IInv'
  <2>0. mem[u].st \in States
    BY <1>2, <1>t DEF UpdateRead, Known, Row
  <2>1. req' \in [Reqs -> Task]
    BY <2>0, <1>2, <1>t DEF UpdateRead, Task, Ops
  <2> QED BY <2>1, <1>2, <1>t, <1>i, <1>s DEF UpdateRead, flusher, history
<1>3. ASSUME NEW r \in Reqs, UpdateUpsert(r) PROVE IInv'
  <2>0. req[r] \in Task /\ req[r] # Idle
    BY <1>3, <1>t, <1>n DEF UpdateUpsert
  <2>1. req[r].u \in Users /\ req[r].st \in States /\ req[r].lim \in Limits
    BY <2>0 DEF Task, States
  <2>2. mem' \in [Users -> Row] /\ \A v \in Users : mem'[v].used <= mem[v].used
    BY <2>1, <1>3, <1>t, UpsertedType DEF UpdateUpsert
  <2>4. Pending("upsert", req[r].u, req[r].st, req[r].lim) \in Task
    BY <2>1, <1>p DEF Ops
  <2>5. Changed(r, Pending("upsert", req[r].u, req[r].st, req[r].lim), req[r].st = "on")
    BY <1>3 DEF UpdateUpsert
  <2> QED BY <2>2, <2>4, <2>5, <1>3, <1>t, <1>ty, <1>i, <1>s, ChangedType DEF UpdateUpsert, flusher
<1>4. ASSUME NEW r \in Reqs, NEW u \in Users, NEW op \in {"enable", "disable"}, SetEnabled(r, u, op)
      PROVE  IInv'
  <2>1. mem' \in [Users -> Row] /\ \A v \in Users : mem'[v].used = mem[v].used
    BY <1>4, <1>t DEF SetEnabled, Row, States, WithState
  <2> DEFINE t == Pending(op, u, IF op = "enable" THEN "on" ELSE "off", mem[u].lim)
  <2>2. t \in Task
    BY <1>p, <1>m DEF Ops, States
  <2>3. Changed(r, t, op = "enable")
    BY <1>4 DEF SetEnabled
  <2> HIDE DEF t
  <2> QED BY <2>1, <2>2, <2>3, <1>4, <1>t, <1>ty, <1>i, <1>s, ChangedType DEF SetEnabled, flusher
<1>5. ASSUME NEW r \in Reqs, NEW u \in Users, Remove(r, u) PROVE IInv'
  <2>1. mem' \in [Users -> Row] /\ \A v \in Users : mem'[v].used <= mem[v].used
    BY <1>5, <1>t, <1>m, NoRowType DEF Remove
  <2>2. Pending("remove", u, "off", mem[u].lim) \in Task
    BY <1>p, <1>m DEF Ops, States
  <2>3. Changed(r, Pending("remove", u, "off", mem[u].lim), FALSE)
    BY <1>5 DEF Remove
  <2> QED BY <2>1, <2>2, <2>3, <1>5, <1>t, <1>ty, <1>i, <1>s, ChangedType DEF Remove, flusher
<1>6. ASSUME NEW r \in Reqs, NEW u \in Users, ResetUsage(r, u) PROVE IInv'
  <2>1. mem' \in [Users -> Row] /\ \A v \in Users : mem'[v].used <= mem[v].used
    BY <1>6, <1>t, <1>m DEF ResetUsage, Row, WithUsed
  <2>0. mem[u].st \in States
    BY <1>6, <1>t DEF ResetUsage, Known, Row
  <2>2. Pending("reset", u, mem[u].st, mem[u].lim) \in Task
    BY <2>0, <1>p, <1>m DEF Ops
  <2>3. Changed(r, Pending("reset", u, mem[u].st, mem[u].lim), FALSE)
    BY <1>6 DEF ResetUsage
  <2> QED BY <2>1, <2>2, <2>3, <1>6, <1>t, <1>ty, <1>i, <1>s, ChangedType DEF ResetUsage, flusher
<1>a. ASSUME NEW r \in Reqs, req[r].phase = "db", Answer(r)
      PROVE  /\ req' \in [Reqs -> Task] /\ behind' \in [Reqs -> SUBSET Reqs]
             /\ bans' \subseteq Reqs /\ banned' \subseteq Users /\ req[r].u \in Users
  <2>1. req[r].u \in Users
    BY <1>a, <1>t, <1>n DEF Task
  <2> QED BY <2>1, <1>a, <1>t, NoRowType DEF Answer
<1>7. ASSUME NEW r \in Reqs, DbWrite(r) PROVE IInv'
  <2>1. db' \in [Users -> Row] /\ \A v \in Users : db'[v].used <= db[v].used
    BY <1>7, <1>t, <1>n, DbAppliedType DEF DbWrite
  <2> QED BY <2>1, <1>7, <1>a, <1>t, <1>i, <1>s DEF DbWrite, flusher
<1>8. ASSUME NEW r \in Reqs, DbWriteFails(r) PROVE IInv'
  BY <1>8, <1>a, <1>t, <1>i, <1>s DEF DbWriteFails, flusher
<1>9. ASSUME NEW u \in Users, AddUsage(u) PROVE IInv'
  <2>1. total' \in [Users -> Nat] /\ total[u] + 1 = total'[u] /\ \A v \in Users : total[v] <= total'[v]
    BY <1>9, <1>t DEF AddUsage
  <2>2. mem' \in [Users -> Row] /\ \A v \in Users : mem'[v].used <= mem[v].used + (total'[v] - total[v])
    BY <1>9, <1>t, <1>m DEF AddUsage, Row, WithUsed
  <2>3. TypeOK'
    BY <2>1, <2>2, <1>9, <1>t DEF AddUsage, TypeOK, flusher, history
  <2>4. SnapBound'
    BY <2>1, <1>9, <1>t DEF AddUsage, IInv, SnapBound, flusher
  <2>5. ASSUME NEW v \in Users PROVE mem'[v].used <= total'[v] /\ db'[v].used <= total'[v]
    <3>1. mem'[v].used \in Nat /\ total'[v] \in Nat /\ total[v] \in Nat /\ db' = db
      BY <2>1, <2>2, <1>9, <1>t DEF AddUsage, Row
    <3> QED BY <3>1, <2>1, <2>2, <1>m, <1>d DEF IInv, UsageNeverInvented
  <2>6. UsageNeverInvented'
    BY <2>5 DEF UsageNeverInvented
  <2> QED BY <2>3, <2>4, <2>6 DEF IInv
<1>10. ASSUME NEW u \in Users, FlushRow(u) PROVE IInv'
  <2>1. /\ db' \in [Users -> Row]
        /\ \A v \in Users : db'[v].used <= db[v].used \/ db'[v].used <= snap[v]
    BY <1>10, <1>t, <1>d DEF FlushRow, Flushed, Row, WithUsed
  <2>2. flushing' \in BOOLEAN
    BY <1>10 DEF FlushRow
  <2> QED BY <2>1, <2>2, <1>10, <1>t, <1>i, <1>s DEF FlushRow, history
<1>11. CASE FlushSnapshot
  <2>1. snap' \in [Users -> Nat] /\ todo' \subseteq Users
    BY <1>11, <1>m DEF FlushSnapshot, Present
  <2>2. TypeOK'
    BY <2>1, <1>11, <1>t DEF FlushSnapshot, TypeOK, history
  <2>3. SnapBound' /\ UsageNeverInvented'
    BY <1>11 DEF FlushSnapshot, IInv, UsageNeverInvented, SnapBound
  <2> QED BY <2>2, <2>3 DEF IInv
<1>12. CASE FlushFails
  BY <1>12, <1>t, <1>i, <1>s DEF FlushFails, history
<1>13. CASE Restart
  <2>1. req' \in [Reqs -> Task] /\ behind' \in [Reqs -> SUBSET Reqs]
    BY <1>13, NoRowType DEF Restart
  <2> QED BY <2>1, <1>13, <1>t, <1>i, <1>s DEF Restart
<1>14. CASE UNCHANGED vars
  BY <1>14, <1>t, <1>i, <1>s DEF vars
<1>15. ASSUME NEW r \in Reqs, Request(r) PROVE IInv'
  BY <1>15, <1>1, <1>2, <1>4, <1>5, <1>6 DEF Request
<1> QED BY <1>3, <1>7, <1>8, <1>9, <1>10, <1>11, <1>12, <1>13, <1>14, <1>15 DEF Next

\* Type correctness of memory, table, requests and flusher.
THEOREM StoreTypeCorrect == Spec => []TypeOK
<1>1. IInv => TypeOK
  BY DEF IInv
<1> QED BY <1>1, InitIInv, NextIInv, PTL DEF Spec

\* add_usage, flush_now, reset_usage, upsert and open() never charge a user
\* for more than its traffic, whatever runs concurrently or crashes.
THEOREM NeverOvercharged == Spec => []UsageNeverInvented
<1>1. IInv => UsageNeverInvented
  BY DEF IInv
<1> QED BY <1>1, InitIInv, NextIInv, PTL DEF Spec

-----------------------------------------------------------------------------
(* Write-through.  Nothing in the code orders two requests.  What their    *)
(* answers promise rests on the order in which statements reach the table: *)
(* the statements of a user that are pending form a queue, each to be      *)
(* applied to what the one before it leaves, and the last one leaves what  *)
(* memory holds.  A user whose queue was left out of order is astray.      *)

\* Two rows hold the same definition.
SameDef(a, b) == a.st = b.st /\ (a.st # "absent" => a.lim = b.lim)

\* What memory held when statement t was issued.
Made(t) == [st |-> IF t.op = "remove" THEN "absent" ELSE t.st, lim |-> t.lim]

\* Statement t makes Made(t) of the definition of row.
Follows(t, row) ==
    /\ t.op \in {"enable", "disable"} => row.st # "absent" /\ row.lim = t.lim
    /\ t.op = "reset" => SameDef(row, Made(t))

\* The pending statements of a user are in line.
InLine ==
    /\ \A r \in Reqs : \A q \in behind[r] :
         q # r /\ req[r].phase = "db" /\ req[q].phase = "db" /\ req[q].u = req[r].u
    /\ \A r, q \in Reqs : r # q /\ req[r].phase = "db" /\ req[q].phase = "db" /\ req[q].u = req[r].u
                            => q \in behind[r] \/ r \in behind[q]

\* q is the statement just before r.
JustBefore(q, r) == q \in behind[r] /\ ~\E p \in Reqs : q \in behind[p] /\ p \in behind[r]

\* Memory is where the line of pending statements leads from the table.
Mirrored ==
    /\ \A u \in Users \ astray : Queue(u) = {} => SameDef(mem[u], db[u])
    /\ \A r \in Reqs : req[r].phase = "db" /\ req[r].u \notin astray =>
         /\ (\E q \in Reqs : r \in behind[q]) \/ SameDef(mem[req[r].u], Made(req[r]))
         /\ behind[r] = {} => Follows(req[r], db[req[r].u])
         /\ \A q \in Reqs : JustBefore(q, r) => Follows(req[r], Made(req[q]))

\* A banned user is off in memory, a ban in progress has no enabling statement
\* after it, and a banned user none at all unless he is astray.
BanKept ==
    /\ BanHolds
    /\ \A r \in bans : /\ req[r].phase = "db" /\ Made(req[r]).st # "on" /\ mem[req[r].u].st # "on"
                       /\ \A q \in Reqs : r \in behind[q] => Made(req[q]).st # "on"
    /\ \A u \in banned \ astray : \A q \in Queue(u) : Made(req[q]).st # "on"

WInv == InLine /\ Mirrored /\ BanKept

\* The fields of a request in flight.
LEMMA TaskFields ==
    ASSUME TypeOK, NEW r \in Reqs, req[r].phase # "idle"
    PROVE  /\ req[r] \in Task /\ req[r] # Idle /\ req[r].u \in Users /\ req[r].st \in States
           /\ req[r].lim \in Limits /\ req[r].op \in Ops
           /\ req[r].phase \in {"upsert", "db"}
BY DEF TypeOK, Task, Idle

\* A request changes memory and joins the end of the line of its user.
LEMMA ChangeWInv ==
    ASSUME WInv, TypeOK, NEW r \in Reqs, NEW t \in Task, NEW lifts \in BOOLEAN,
           t.phase = "db", req[r].phase # "db", Changed(r, t, lifts),
           mem' \in [Users -> Row], UNCHANGED db,
           \A v \in Users : v # t.u => mem'[v] = mem[v],
           SameDef(mem'[t.u], Made(t)),
           \A row : SameDef(mem[t.u], row) => Follows(t, row),
           Made(t).st = "on" => lifts \/ mem[t.u].st = "on",
           t.op \in {"disable", "remove"} => ~lifts /\ Made(t).st # "on"
    PROVE  WInv'
<1> DEFINE u == t.u
<1>0. InLine /\ Mirrored /\ BanKept
  BY DEF WInv
<1>ty. /\ req \in [Reqs -> Task] /\ behind \in [Reqs -> SUBSET Reqs] /\ bans \subseteq Reqs
       /\ banned \subseteq Users /\ astray \subseteq Users
  BY DEF TypeOK
<1>1. /\ req'[r] = t /\ \A q \in Reqs \ {r} : req'[q] = req[q]
      /\ behind'[r] = Queue(u) /\ \A q \in Reqs \ {r} : behind'[q] = behind[q]
      /\ astray' = astray
  BY <1>ty DEF Changed
<1>2. u \in Users
  BY DEF Task, Idle
<1>3. /\ behind[r] = {} /\ r \notin Queue(u) /\ r \notin bans /\ \A q \in Reqs : r \notin behind[q]
  BY <1>0, <1>ty DEF InLine, Queue, BanKept
<1>q. Queue(u) \subseteq Reqs \ {r} /\ \A q \in Queue(u) : req[q].phase = "db" /\ req[q].u = u
  BY <1>3 DEF Queue
<1>b. \A q \in Reqs : r \notin behind'[q]
  BY <1>1, <1>3
<1>c. \A q \in Reqs : (req'[q].phase = "db" /\ q # r) <=> (req[q].phase = "db" /\ q # r)
  BY <1>1
<1> HIDE DEF u
<1>4. InLine'
  <2>1. ASSUME NEW p \in Reqs, NEW q \in behind'[p]
        PROVE  q # p /\ req'[p].phase = "db" /\ req'[q].phase = "db" /\ req'[q].u = req'[p].u
    <3>1. q \in Reqs /\ q # r
      BY <1>ty, <1>1, <1>b, <1>q, <2>1
    <3>2. CASE p = r
      BY <1>1, <1>q, <3>1, <3>2, <2>1 DEF u
    <3>3. CASE p # r
      BY <1>0, <1>1, <3>1, <3>3, <2>1 DEF InLine
    <3> QED BY <3>2, <3>3
  <2>2. ASSUME NEW p \in Reqs, NEW q \in Reqs, p # q, req'[p].phase = "db", req'[q].phase = "db",
               req'[q].u = req'[p].u
        PROVE  q \in behind'[p] \/ p \in behind'[q]
    <3>1. CASE p = r
      BY <1>1, <2>2, <3>1 DEF Queue, u
    <3>2. CASE q = r
      BY <1>1, <2>2, <3>2 DEF Queue, u
    <3>3. CASE p # r /\ q # r
      BY <1>0, <1>1, <2>2, <3>3 DEF InLine
    <3> QED BY <3>1, <3>2, <3>3
  <2> QED BY <2>1, <2>2 DEF InLine
<1>5. ASSUME NEW v \in Users \ astray, Queue(v)' = {} PROVE SameDef(mem'[v], db'[v])
  <2>1. v # u
    BY <1>1, <1>5 DEF Queue, u
  <2>2. Queue(v) = {}
    BY <1>1, <1>5, <2>1 DEF Queue, u
  <2> QED BY <1>0, <2>1, <2>2 DEF Mirrored, u
<1>6. ASSUME NEW p \in Reqs, req'[p].phase = "db", req'[p].u \notin astray
      PROVE  /\ (\E q \in Reqs : p \in behind'[q]) \/ SameDef(mem'[req'[p].u], Made(req'[p]))
             /\ behind'[p] = {} => Follows(req'[p], db'[req'[p].u])
             /\ \A q \in Reqs : JustBefore(q, p)' => Follows(req'[p], Made(req'[q]))
  <2>1. CASE p = r
    <3>1. SameDef(mem'[req'[p].u], Made(req'[p]))
      BY <1>1, <2>1
    <3>2. behind'[p] = {} => Follows(req'[p], db'[req'[p].u])
      BY <1>0, <1>1, <1>2, <1>6, <2>1 DEF Mirrored, u
    <3>3. ASSUME NEW q \in Reqs, JustBefore(q, p)' PROVE Follows(req'[p], Made(req'[q]))
      <4>1. q \in Queue(u) /\ q # r /\ ~\E s \in Reqs : q \in behind'[s] /\ s \in Queue(u)
        BY <1>1, <1>q, <2>1, <3>3 DEF JustBefore
      <4>2. ~\E s \in Reqs : q \in behind[s]
        <5> SUFFICES ASSUME NEW s \in Reqs, q \in behind[s] PROVE FALSE
          OBVIOUS
        <5>1. req[s].phase = "db" /\ req[s].u = u
          BY <1>0, <1>q, <4>1 DEF InLine
        <5>2. s \in Queue(u) /\ s # r
          BY <1>3, <5>1 DEF Queue
        <5> QED BY <1>1, <4>1, <5>2
      <4>3. SameDef(mem[u], Made(req[q]))
        BY <1>0, <1>1, <1>q, <1>6, <2>1, <4>1, <4>2 DEF Mirrored, u
      <4> QED BY <1>1, <2>1, <4>1, <4>3 DEF u
    <3> QED BY <3>1, <3>2, <3>3
  <2>2. CASE p # r /\ req[p].u = u
    <3>1. p \in Queue(u) /\ req'[p] = req[p] /\ behind'[p] = behind[p] /\ req[p].phase = "db"
      BY <1>1, <1>6, <2>2 DEF Queue
    <3>2. p \in behind'[r]
      BY <1>1, <3>1
    <3>3. behind'[p] = {} => Follows(req'[p], db'[req'[p].u])
      BY <1>0, <1>6, <3>1 DEF Mirrored
    <3>4. ASSUME NEW q \in Reqs, JustBefore(q, p)' PROVE Follows(req'[p], Made(req'[q]))
      <4>1. q \in behind[p] /\ q # r
        BY <1>3, <3>1, <3>4 DEF JustBefore
      <4>2. JustBefore(q, p)
        BY <1>1, <1>3, <3>1, <3>4, <4>1 DEF JustBefore
      <4> QED BY <1>0, <1>1, <1>6, <3>1, <4>1, <4>2 DEF Mirrored
    <3> QED BY <3>2, <3>3, <3>4
  <2>3. CASE p # r /\ req[p].u # u
    <3>1. req'[p] = req[p] /\ behind'[p] = behind[p] /\ req[p].phase = "db" /\ req[p].u \in Users
      BY <1>1, <1>6, <2>3, TaskFields
    <3>2. mem'[req[p].u] = mem[req[p].u]
      BY <3>1, <2>3 DEF u
    <3>3. (\E q \in Reqs : p \in behind[q]) => (\E q \in Reqs : p \in behind'[q])
      BY <1>1, <1>3
    <3>4. ASSUME NEW q \in Reqs, JustBefore(q, p)' PROVE Follows(req'[p], Made(req'[q]))
      <4>1. q \in behind[p] /\ q # r
        BY <1>3, <3>1, <3>4 DEF JustBefore
      <4>2. JustBefore(q, p)
        BY <1>1, <1>3, <3>1, <3>4, <4>1 DEF JustBefore
      <4> QED BY <1>0, <1>1, <1>6, <3>1, <4>1, <4>2 DEF Mirrored
    <3> QED BY <1>0, <1>6, <3>1, <3>2, <3>3, <3>4 DEF Mirrored
  <2> QED BY <2>1, <2>2, <2>3
<1>7. Mirrored'
  BY <1>1, <1>5, <1>6 DEF Mirrored
<1>m. mem'[u].st = Made(t).st
  BY DEF SameDef, u
<1>n. /\ banned' = IF lifts THEN banned \ {u} ELSE banned
      /\ bans' = (IF lifts THEN bans \ Queue(u) ELSE bans)
                   \cup (IF t.op \in {"disable", "remove"} THEN {r} ELSE {})
  BY DEF Changed, u
<1>8. BanHolds'
  <2> SUFFICES ASSUME NEW v \in banned' PROVE mem'[v].st # "on" /\ (v \notin astray' => db'[v].st # "on")
    BY DEF BanHolds
  <2>1. v \in banned /\ v \in Users /\ mem[v].st # "on" /\ (v = u => ~lifts)
    BY <1>0, <1>n, <1>ty DEF BanKept, BanHolds
  <2>2. mem'[v].st # "on"
    BY <1>m, <2>1 DEF u
  <2> QED BY <1>0, <1>1, <2>1, <2>2 DEF BanKept, BanHolds
<1>9. ASSUME NEW p \in bans'
      PROVE  /\ req'[p].phase = "db" /\ Made(req'[p]).st # "on" /\ mem'[req'[p].u].st # "on"
             /\ \A q \in Reqs : p \in behind'[q] => Made(req'[q]).st # "on"
  <2>1. CASE p = r
    <3>1. t.op \in {"disable", "remove"}
      BY <1>3, <1>9, <1>n, <2>1
    <3> QED BY <1>1, <1>b, <1>m, <2>1, <3>1 DEF u
  <2>2. CASE p # r
    <3>1. p \in bans /\ p \in Reqs /\ (p \in Queue(u) => ~lifts)
      BY <1>9, <1>n, <1>ty, <2>2
    <3>2. /\ req'[p] = req[p] /\ req[p].phase = "db" /\ Made(req[p]).st # "on" /\ mem[req[p].u].st # "on"
          /\ req[p].u \in Users /\ (req[p].u = u => ~lifts)
      BY <1>0, <1>1, <2>2, <3>1, TaskFields DEF BanKept, Queue
    <3>3. mem'[req[p].u].st # "on"
      BY <1>m, <3>2 DEF u
    <3>4. ASSUME NEW q \in Reqs, p \in behind'[q] PROVE Made(req'[q]).st # "on"
      <4>1. CASE q = r
        <5>1. req[p].u = u
          BY <1>1, <1>q, <3>4, <4>1
        <5> QED BY <1>1, <3>2, <4>1, <5>1 DEF u
      <4>2. CASE q # r
        BY <1>0, <1>1, <3>1, <3>4, <4>2 DEF BanKept
      <4> QED BY <4>1, <4>2
    <3> QED BY <3>2, <3>3, <3>4
  <2> QED BY <2>1, <2>2
<1>10. ASSUME NEW v \in banned' \ astray', NEW q \in Queue(v)' PROVE Made(req'[q]).st # "on"
  <2>1. v \in banned \ astray /\ v \in Users /\ mem[v].st # "on" /\ (v = u => ~lifts)
    BY <1>0, <1>1, <1>10, <1>n, <1>ty DEF BanKept, BanHolds
  <2>2. q \in Reqs /\ req'[q].phase = "db" /\ req'[q].u = v
    BY <1>10 DEF Queue
  <2>3. CASE q = r
    BY <1>1, <2>1, <2>2, <2>3 DEF u
  <2>4. CASE q # r
    BY <1>0, <1>1, <2>1, <2>2, <2>4 DEF BanKept, Queue
  <2> QED BY <2>3, <2>4
<1>11. BanKept'
  BY <1>8, <1>9, <1>10 DEF BanKept
<1> QED BY <1>4, <1>7, <1>11 DEF WInv

\* The statement of request r makes of the row of its user what it follows.
LEMMA AppliedIsMade ==
    ASSUME TypeOK, NEW t \in Task, t # Idle, Follows(t, db[t.u])
    PROVE  SameDef(DbApplied(t)[t.u], Made(t))
<1>t. db \in [Users -> Row] /\ t.u \in Users /\ t.st \in States /\ t.lim \in Limits /\ t.op \in Ops
  BY DEF Task, Idle, TypeOK
<1>1. t.op \in {"upsert", "remove", "enable", "disable", "reset"}
  BY <1>t DEF Ops
<1>2. CASE t.op = "upsert"
  BY <1>2, <1>t DEF DbApplied, Upserted, SameDef, Made
<1>3. CASE t.op = "remove"
  BY <1>3, <1>t DEF DbApplied, NoRow, SameDef, Made
<1>4. CASE t.op = "reset"
  BY <1>4, <1>t DEF DbApplied, Follows, Known, WithUsed, SameDef, Made
<1>5. CASE t.op \in {"enable", "disable"}
  BY <1>5, <1>t DEF DbApplied, Follows, Known, WithState, SameDef, Made
<1> QED BY <1>1, <1>2, <1>3, <1>4, <1>5

\* A statement leaves the line: written by the first in it, or with its user
\* astray.
LEMMA AnswerWInv ==
    ASSUME WInv, TypeOK, NEW r \in Reqs, req[r].phase = "db", Answer(r), UNCHANGED mem,
           db' \in [Users -> Row], \A v \in Users : v # req[r].u => db'[v] = db[v],
           astray' = astray \/ astray' = astray \cup {req[r].u},
           req[r].u \notin astray' => behind[r] = {} /\ db' = DbApplied(req[r])
    PROVE  WInv'
<1> DEFINE u == req[r].u
<1>0. InLine /\ Mirrored /\ BanKept
  BY DEF WInv
<1>ty. /\ req \in [Reqs -> Task] /\ behind \in [Reqs -> SUBSET Reqs] /\ bans \subseteq Reqs
       /\ banned \subseteq Users /\ astray \subseteq Users /\ mem \in [Users -> Row]
  BY DEF TypeOK
<1>1. /\ req'[r].phase = "idle" /\ \A q \in Reqs \ {r} : req'[q] = req[q]
      /\ behind'[r] = {} /\ \A q \in Reqs \ {r} : behind'[q] = behind[q] \ {r}
      /\ bans' = bans \ {r} /\ banned' = IF r \in bans THEN banned \cup {u} ELSE banned
  BY <1>ty DEF Answer, Idle
<1>2. u \in Users /\ req[r] \in Task /\ req[r] # Idle
  BY TaskFields
<1>3. astray \subseteq astray' /\ \A v \in Users : v # u /\ v \notin astray' => v \notin astray
  OBVIOUS
<1>a. \A q \in Reqs : behind'[q] \subseteq behind[q] /\ r \notin behind'[q]
  BY <1>1
<1>d. ASSUME u \notin astray'
      PROVE  u \notin astray /\ behind[r] = {} /\ SameDef(db'[u], Made(req[r]))
  <2>1. u \notin astray /\ behind[r] = {} /\ db' = DbApplied(req[r])
    BY <1>d, <1>3
  <2>2. Follows(req[r], db[u])
    BY <1>0, <2>1 DEF Mirrored
  <2> QED BY <1>2, <2>1, <2>2, AppliedIsMade
<1> HIDE DEF u
<1>e. req[r].u = u
  BY DEF u
<1>4. InLine'
  <2>1. ASSUME NEW p \in Reqs, NEW q \in behind'[p]
        PROVE  q # p /\ req'[p].phase = "db" /\ req'[q].phase = "db" /\ req'[q].u = req'[p].u
    <3>1. p # r /\ q # r /\ q \in behind[p] /\ q \in Reqs
      BY <1>1, <1>a, <1>ty, <2>1
    <3> QED BY <1>0, <1>1, <3>1 DEF InLine
  <2>2. ASSUME NEW p \in Reqs, NEW q \in Reqs, p # q, req'[p].phase = "db", req'[q].phase = "db",
               req'[q].u = req'[p].u
        PROVE  q \in behind'[p] \/ p \in behind'[q]
    <3>1. p # r /\ q # r
      BY <1>1, <2>2
    <3> QED BY <1>0, <1>1, <2>2, <3>1 DEF InLine
  <2> QED BY <2>1, <2>2 DEF InLine
<1>5. ASSUME NEW v \in Users \ astray', Queue(v)' = {} PROVE SameDef(mem'[v], db'[v])
  <2>1. CASE v = u
    <3>1. ~\E q \in Reqs : r \in behind[q]
      <4> SUFFICES ASSUME NEW q \in Reqs, r \in behind[q] PROVE FALSE
        OBVIOUS
      <4>1. q # r /\ req[q].phase = "db" /\ req[q].u = u
        BY <1>0, <1>e DEF InLine
      <4> QED BY <1>1, <1>5, <2>1, <4>1 DEF Queue
    <3>2. SameDef(mem[u], Made(req[r]))
      BY <1>0, <1>d, <1>e, <1>5, <2>1, <3>1 DEF Mirrored
    <3> QED BY <1>d, <1>5, <2>1, <3>2 DEF SameDef
  <2>2. CASE v # u
    <3>1. Queue(v) = {}
      BY <1>1, <1>5, <1>e, <2>2 DEF Queue
    <3> QED BY <1>0, <1>3, <1>5, <1>e, <2>2, <3>1 DEF Mirrored
  <2> QED BY <2>1, <2>2
<1>6. ASSUME NEW p \in Reqs, req'[p].phase = "db", req'[p].u \notin astray'
      PROVE  /\ (\E q \in Reqs : p \in behind'[q]) \/ SameDef(mem'[req'[p].u], Made(req'[p]))
             /\ behind'[p] = {} => Follows(req'[p], db'[req'[p].u])
             /\ \A q \in Reqs : JustBefore(q, p)' => Follows(req'[p], Made(req'[q]))
  <2>1. p # r /\ req'[p] = req[p] /\ req[p].phase = "db" /\ behind'[p] = behind[p] \ {r}
    BY <1>1, <1>6
  <2>2. req[p].u \in Users /\ req[p].u \notin astray
    BY <1>3, <1>6, <2>1, TaskFields
  \* Nothing on the user of p is behind r.
  <2>3. ASSUME NEW q \in Reqs, q \in behind[r], req[q].u = req[p].u PROVE FALSE
    BY <1>0, <1>d, <1>e, <1>6, <2>1, <2>3 DEF InLine
  <2>4. (\E q \in Reqs : p \in behind[q]) => (\E q \in Reqs : p \in behind'[q])
    <3> SUFFICES ASSUME NEW q \in Reqs, p \in behind[q] PROVE p \in behind'[q]
      OBVIOUS
    <3>1. q # r
      BY <2>3
    <3> QED BY <1>1, <2>1, <3>1
  <2>5. (\E q \in Reqs : p \in behind'[q]) \/ SameDef(mem'[req'[p].u], Made(req'[p]))
    BY <1>0, <2>1, <2>2, <2>4 DEF Mirrored
  <2>6. ASSUME behind'[p] = {} PROVE Follows(req'[p], db'[req'[p].u])
    <3>1. CASE r \in behind[p]
      <4>1. req[p].u = u /\ behind[p] = {r} /\ behind[r] = {}
        BY <1>0, <1>d, <1>e, <1>6, <2>1, <2>6, <3>1 DEF InLine
      <4>2. JustBefore(r, p)
        BY <4>1 DEF JustBefore
      <4>3. Follows(req[p], Made(req[r]))
        BY <1>0, <2>1, <2>2, <4>2 DEF Mirrored
      <4> QED BY <1>d, <1>6, <2>1, <4>1, <4>3 DEF Follows, SameDef, Made
    <3>2. CASE r \notin behind[p]
      <4>1. behind[p] = {}
        BY <2>1, <2>6, <3>2
      <4>2. req[p].u # u
        BY <1>0, <1>d, <1>e, <1>6, <2>1, <3>2 DEF InLine
      <4> QED BY <1>0, <1>e, <2>1, <2>2, <4>1, <4>2 DEF Mirrored
    <3> QED BY <3>1, <3>2
  <2>7. ASSUME NEW q \in Reqs, JustBefore(q, p)' PROVE Follows(req'[p], Made(req'[q]))
    <3>1. q \in behind[p] /\ q # r /\ ~\E s \in Reqs : q \in behind'[s] /\ s \in behind'[p]
      BY <1>a, <2>7 DEF JustBefore
    <3>2. req[q].u = req[p].u /\ req'[q] = req[q]
      BY <1>0, <1>1, <3>1 DEF InLine
    <3>3. ASSUME NEW s \in Reqs, q \in behind[s], s \in behind[p] PROVE FALSE
      <4>1. s # r
        BY <2>3, <3>2, <3>3
      <4> QED BY <1>1, <2>1, <3>1, <3>3, <4>1
    <3>4. JustBefore(q, p)
      BY <3>1, <3>3 DEF JustBefore
    <3> QED BY <1>0, <2>1, <2>2, <3>2, <3>4 DEF Mirrored
  <2> QED BY <2>5, <2>6, <2>7
<1>7. Mirrored'
  BY <1>5, <1>6 DEF Mirrored
<1>8. BanHolds'
  <2> SUFFICES ASSUME NEW v \in banned' PROVE mem'[v].st # "on" /\ (v \notin astray' => db'[v].st # "on")
    BY DEF BanHolds
  <2>1. mem'[v].st # "on"
    BY <1>0, <1>1, <1>e DEF BanKept, BanHolds
  <2>2. ASSUME v \notin astray' PROVE db'[v].st # "on"
    <3>1. v \in Users
      BY <1>1, <1>2, <1>ty
    <3>2. CASE v # u
      BY <1>0, <1>1, <1>3, <1>e, <2>2, <3>1, <3>2 DEF BanKept, BanHolds
    <3>3. CASE v = u
      <4>1. db'[v].st = Made(req[r]).st
        BY <1>d, <2>2, <3>3 DEF SameDef
      <4>2. r \in Queue(u)
        BY <1>e DEF Queue
      <4>3. Made(req[r]).st # "on"
        BY <1>0, <1>1, <1>d, <2>2, <3>3, <4>2 DEF BanKept
      <4> QED BY <4>1, <4>3
    <3> QED BY <3>2, <3>3
  <2> QED BY <2>1, <2>2
<1>9. ASSUME NEW p \in bans'
      PROVE  /\ req'[p].phase = "db" /\ Made(req'[p]).st # "on" /\ mem'[req'[p].u].st # "on"
             /\ \A q \in Reqs : p \in behind'[q] => Made(req'[q]).st # "on"
  <2>1. p \in bans /\ p # r /\ p \in Reqs /\ req'[p] = req[p]
    BY <1>1, <1>9, <1>ty
  <2>2. ASSUME NEW q \in Reqs, p \in behind'[q] PROVE Made(req'[q]).st # "on"
    <3>1. q # r /\ p \in behind[q]
      BY <1>1, <1>a, <2>2
    <3> QED BY <1>0, <1>1, <2>1, <3>1 DEF BanKept
  <2> QED BY <1>0, <2>1, <2>2 DEF BanKept
<1>10. ASSUME NEW v \in banned' \ astray', NEW q \in Queue(v)' PROVE Made(req'[q]).st # "on"
  <2>1. q \in Reqs /\ q # r /\ req'[q] = req[q] /\ req[q].phase = "db" /\ req[q].u = v
    BY <1>1, <1>10 DEF Queue
  <2>2. v \in Users
    BY <1>1, <1>2, <1>10, <1>ty
  <2>3. CASE v \in banned
    BY <1>0, <1>3, <1>10, <2>1, <2>3 DEF BanKept, Queue
  <2>4. CASE v \notin banned
    <3>1. v = u /\ r \in bans
      BY <1>1, <1>10, <2>4
    <3>2. r \in behind[q]
      BY <1>0, <1>d, <1>e, <1>10, <2>1, <3>1 DEF InLine
    <3> QED BY <1>0, <2>1, <3>1, <3>2 DEF BanKept
  <2> QED BY <2>3, <2>4
<1>11. BanKept'
  BY <1>8, <1>9, <1>10 DEF BanKept
<1> QED BY <1>4, <1>7, <1>11 DEF WInv

\* A step that changes no statement in flight and no definition.
LEMMA QuietWInv ==
    ASSUME WInv, TypeOK, UNCHANGED history,
           \A q \in Reqs : req'[q] = req[q] \/ (req[q].phase # "db" /\ req'[q].phase # "db"),
           \A u \in Users : /\ mem'[u].st = mem[u].st /\ mem'[u].lim = mem[u].lim
                            /\ db'[u].st = db[u].st /\ db'[u].lim = db[u].lim
    PROVE  WInv'
<1>0. InLine /\ Mirrored /\ BanKept
  BY DEF WInv
<1>ty. behind \in [Reqs -> SUBSET Reqs] /\ bans \subseteq Reqs /\ banned \subseteq Users
  BY DEF TypeOK
<1>1. /\ \A q \in Reqs : req'[q].phase = "db" <=> req[q].phase = "db"
      /\ \A q \in Reqs : req[q].phase = "db" => req'[q] = req[q] /\ req[q].u \in Users
  BY TaskFields
<1>2. /\ behind' = behind /\ astray' = astray /\ bans' = bans /\ banned' = banned
      /\ \A u \in Users : Queue(u)' = Queue(u)
  BY <1>1 DEF history, Queue
<1>3. InLine'
  BY <1>0, <1>1, <1>2, <1>ty DEF InLine
<1>4. \A p, q \in Reqs : JustBefore(p, q)' <=> JustBefore(p, q)
  BY <1>2 DEF JustBefore
<1>5. ASSUME NEW p \in Reqs, req'[p].phase = "db", req'[p].u \notin astray'
      PROVE  /\ (\E q \in Reqs : p \in behind'[q]) \/ SameDef(mem'[req'[p].u], Made(req'[p]))
             /\ behind'[p] = {} => Follows(req'[p], db'[req'[p].u])
             /\ \A q \in Reqs : JustBefore(q, p)' => Follows(req'[p], Made(req'[q]))
  <2>1. req[p].phase = "db" /\ req'[p] = req[p] /\ req[p].u \in Users /\ req[p].u \notin astray
    BY <1>1, <1>2, <1>5
  <2>2. (\E q \in Reqs : p \in behind'[q]) \/ SameDef(mem'[req'[p].u], Made(req'[p]))
    BY <1>0, <1>2, <2>1 DEF Mirrored, SameDef
  <2>3. behind'[p] = {} => Follows(req'[p], db'[req'[p].u])
    BY <1>0, <1>2, <2>1 DEF Mirrored, Follows, SameDef
  <2>4. ASSUME NEW q \in Reqs, JustBefore(q, p)' PROVE Follows(req'[p], Made(req'[q]))
    <3>1. JustBefore(q, p)
      BY <1>4, <2>4
    <3>2. req[q].phase = "db"
      BY <1>0, <3>1 DEF InLine, JustBefore
    <3> QED BY <1>0, <1>1, <2>1, <3>1, <3>2 DEF Mirrored
  <2> QED BY <2>2, <2>3, <2>4
<1>6. \A u \in Users \ astray' : Queue(u)' = {} => SameDef(mem'[u], db'[u])
  BY <1>0, <1>2 DEF Mirrored, SameDef
<1>7. Mirrored'
  BY <1>5, <1>6 DEF Mirrored
<1>8. BanHolds'
  BY <1>0, <1>2, <1>ty DEF BanKept, BanHolds
<1>9. ASSUME NEW p \in bans'
      PROVE  /\ req'[p].phase = "db" /\ Made(req'[p]).st # "on" /\ mem'[req'[p].u].st # "on"
             /\ \A q \in Reqs : p \in behind'[q] => Made(req'[q]).st # "on"
  <2>1. p \in bans /\ p \in Reqs /\ req[p].phase = "db"
    BY <1>0, <1>2, <1>9, <1>ty DEF BanKept
  <2>2. ASSUME NEW q \in Reqs, p \in behind'[q] PROVE Made(req'[q]).st # "on"
    <3>1. req[q].phase = "db" /\ p \in behind[q]
      BY <1>0, <1>2, <2>2 DEF InLine
    <3> QED BY <1>0, <1>1, <2>1, <3>1 DEF BanKept
  <2> QED BY <1>0, <1>1, <2>1, <2>2 DEF BanKept
<1>10. ASSUME NEW u \in banned' \ astray', NEW q \in Queue(u)' PROVE Made(req'[q]).st # "on"
  <2>1. u \in banned \ astray /\ u \in Users /\ q \in Queue(u)
    BY <1>2, <1>10, <1>ty
  <2>2. q \in Reqs /\ req'[q] = req[q]
    BY <1>1, <2>1 DEF Queue
  <2> QED BY <1>0, <2>1, <2>2 DEF BanKept
<1> QED BY <1>3, <1>7, <1>8, <1>9, <1>10 DEF WInv, BanKept

\* Every step keeps the line of each user leading from table to memory.
LEMMA NextWInv == WInv /\ IInv /\ IInv' /\ [Next]_vars => WInv'
<1> SUFFICES ASSUME WInv, IInv, IInv', [Next]_vars PROVE WInv'
  OBVIOUS
<1>t. TypeOK /\ TypeOK'
  BY DEF IInv
<1>m. /\ mem \in [Users -> Row] /\ mem' \in [Users -> Row] /\ db \in [Users -> Row] /\ db' \in [Users -> Row]
      /\ req \in [Reqs -> Task]
  BY <1>t DEF TypeOK
<1>i. \A r \in Reqs : req[r] = Idle => req[r].phase # "db"
  BY DEF Idle
<1>p. \A op \in Ops, u \in Users, st \in States, l \in Limits :
        /\ Pending(op, u, st, l) \in Task /\ Pending(op, u, st, l).phase = "db"
        /\ Pending(op, u, st, l).op = op /\ Pending(op, u, st, l).u = u
        /\ Pending(op, u, st, l).st = st /\ Pending(op, u, st, l).lim = l
  BY DEF Pending, Task
<1>l. \A u \in Users : mem[u].lim \in Limits
  BY <1>m DEF Row
<1>1. ASSUME NEW r \in Reqs, NEW u \in Users, NEW st \in States, NEW l \in Limits, Add(r, u, st, l)
      PROVE  WInv'
  <2> DEFINE t == Pending("upsert", u, st, l)
  <2>1. /\ t \in Task /\ t.phase = "db" /\ t.op = "upsert" /\ t.u = u /\ t.st = st /\ t.lim = l
    BY <1>p DEF Ops
  <2>2. req[r] = Idle /\ Changed(r, t, st = "on") /\ mem' = Upserted(mem, u, st, l) /\ UNCHANGED db
    BY <1>1 DEF Add, Begin
  <2> HIDE DEF t
  <2>3. mem'[u].st = st /\ mem'[u].lim = l /\ \A v \in Users : v # u => mem'[v] = mem[v]
    BY <1>m, <2>2 DEF Upserted
  <2>4. SameDef(mem'[u], Made(t)) /\ Made(t).st = st /\ \A row : Follows(t, row)
    BY <2>1, <2>3 DEF SameDef, Made, Follows
  <2> QED BY <1>t, <1>m, <1>i, <2>1, <2>2, <2>3, <2>4, ChangeWInv
<1>2. ASSUME NEW r \in Reqs, NEW u \in Users, NEW l \in Limits, UpdateRead(r, u, l) PROVE WInv'
  <2>1. /\ req[r] = Idle /\ req'[r].phase = "upsert" /\ \A q \in Reqs \ {r} : req'[q] = req[q]
        /\ UNCHANGED <<mem, db>> /\ UNCHANGED history
    BY <1>2, <1>m DEF UpdateRead, Begin
  <2> QED BY <1>t, <1>i, <2>1, QuietWInv
<1>3. ASSUME NEW r \in Reqs, UpdateUpsert(r) PROVE WInv'
  <2> DEFINE o == req[r]
             t == Pending("upsert", o.u, o.st, o.lim)
  <2>0. o.phase = "upsert" /\ o.u \in Users /\ o.st \in States /\ o.lim \in Limits
    BY <1>3, <1>t, TaskFields DEF UpdateUpsert
  <2>1. /\ t \in Task /\ t.phase = "db" /\ t.op = "upsert" /\ t.u = o.u /\ t.st = o.st /\ t.lim = o.lim
    BY <1>p, <2>0 DEF Ops
  <2>2. Changed(r, t, o.st = "on") /\ mem' = Upserted(mem, o.u, o.st, o.lim) /\ UNCHANGED db
    BY <1>3 DEF UpdateUpsert
  <2>n. req[r].phase # "db"
    BY <2>0
  <2> HIDE DEF t, o
  <2>3. mem'[o.u].st = o.st /\ mem'[o.u].lim = o.lim /\ \A v \in Users : v # o.u => mem'[v] = mem[v]
    BY <1>m, <2>0, <2>2 DEF Upserted
  <2>4. SameDef(mem'[o.u], Made(t)) /\ Made(t).st = o.st /\ \A row : Follows(t, row)
    BY <2>1, <2>3 DEF SameDef, Made, Follows
  <2> QED BY <1>t, <1>m, <2>0, <2>n, <2>1, <2>2, <2>3, <2>4, ChangeWInv
<1>4. ASSUME NEW r \in Reqs, NEW u \in Users, NEW op \in {"enable", "disable"}, SetEnabled(r, u, op)
      PROVE  WInv'
  <2> DEFINE st == IF op = "enable" THEN "on" ELSE "off"
             t == Pending(op, u, st, mem[u].lim)
  <2>1. /\ t \in Task /\ t.phase = "db" /\ t.op = op /\ t.u = u /\ t.st = st /\ t.lim = mem[u].lim
    BY <1>p, <1>l DEF Ops, States
  <2>2. /\ req[r] = Idle /\ Changed(r, t, op = "enable") /\ UNCHANGED db
        /\ mem' = [mem EXCEPT ![u] = WithState(mem[u], st)] /\ mem[u].st # "absent"
    BY <1>4 DEF SetEnabled, Begin, Known
  <2>5. (st = "on") <=> (op = "enable")
    OBVIOUS
  <2> HIDE DEF t, st
  <2>3. mem'[u].st = st /\ mem'[u].lim = mem[u].lim /\ \A v \in Users : v # u => mem'[v] = mem[v]
    BY <1>m, <2>2 DEF WithState
  <2>4. /\ SameDef(mem'[u], Made(t)) /\ Made(t).st = st
        /\ \A row : SameDef(mem[u], row) => Follows(t, row)
    BY <2>1, <2>2, <2>3 DEF SameDef, Made, Follows
  <2> QED BY <1>t, <1>m, <1>i, <2>1, <2>2, <2>3, <2>4, <2>5, ChangeWInv
<1>5. ASSUME NEW r \in Reqs, NEW u \in Users, Remove(r, u) PROVE WInv'
  <2> DEFINE t == Pending("remove", u, "off", mem[u].lim)
  <2>1. /\ t \in Task /\ t.phase = "db" /\ t.op = "remove" /\ t.u = u
    BY <1>p, <1>l DEF Ops, States
  <2>2. req[r] = Idle /\ Changed(r, t, FALSE) /\ mem' = [mem EXCEPT ![u] = NoRow] /\ UNCHANGED db
    BY <1>5 DEF Remove, Begin
  <2> HIDE DEF t
  <2>3. mem'[u].st = "absent" /\ \A v \in Users : v # u => mem'[v] = mem[v]
    BY <1>m, <2>2 DEF NoRow
  <2>4. SameDef(mem'[u], Made(t)) /\ Made(t).st = "absent" /\ \A row : Follows(t, row)
    BY <2>1, <2>3 DEF SameDef, Made, Follows
  <2> QED BY <1>t, <1>m, <1>i, <2>1, <2>2, <2>3, <2>4, ChangeWInv
<1>6. ASSUME NEW r \in Reqs, NEW u \in Users, ResetUsage(r, u) PROVE WInv'
  <2> DEFINE t == Pending("reset", u, mem[u].st, mem[u].lim)
  <2>0. mem[u].st \in States
    BY <1>6, <1>m DEF ResetUsage, Known, Row
  <2>1. /\ t \in Task /\ t.phase = "db" /\ t.op = "reset" /\ t.u = u /\ t.st = mem[u].st /\ t.lim = mem[u].lim
    BY <2>0, <1>p, <1>l DEF Ops
  <2>2. /\ req[r] = Idle /\ Changed(r, t, FALSE) /\ UNCHANGED db
        /\ mem' = [mem EXCEPT ![u] = WithUsed(mem[u], 0)]
    BY <1>6 DEF ResetUsage, Begin
  <2> HIDE DEF t
  <2>3. /\ mem'[u].st = mem[u].st /\ mem'[u].lim = mem[u].lim
        /\ \A v \in Users : v # u => mem'[v] = mem[v]
    BY <1>m, <2>2 DEF WithUsed
  <2>4. /\ SameDef(mem'[u], Made(t)) /\ Made(t).st = mem[u].st
        /\ \A row : SameDef(mem[u], row) => Follows(t, row)
    BY <2>1, <2>3 DEF SameDef, Made, Follows
  <2> QED BY <1>t, <1>m, <1>i, <2>1, <2>2, <2>3, <2>4, ChangeWInv
<1>d. ASSUME NEW r \in Reqs, req[r].phase = "db"
      PROVE  /\ req[r].u \in Users /\ DbApplied(req[r]) \in [Users -> Row]
             /\ \A v \in Users : v # req[r].u => DbApplied(req[r])[v] = db[v]
  <2>1. req[r].u \in Users /\ req[r] \in Task /\ req[r] # Idle
    BY <1>d, <1>t, TaskFields
  <2> QED BY <2>1, <1>m, DbAppliedType DEF DbApplied, Upserted
<1>7. ASSUME NEW r \in Reqs, DbWrite(r) PROVE WInv'
  <2>1. /\ req[r].phase = "db" /\ Answer(r) /\ UNCHANGED mem /\ db' = DbApplied(req[r])
        /\ astray' = IF behind[r] = {} THEN astray ELSE astray \cup {req[r].u}
    BY <1>7 DEF DbWrite
  <2>2. /\ astray' = astray \/ astray' = astray \cup {req[r].u}
        /\ req[r].u \notin astray' => behind[r] = {}
    BY <2>1
  <2> QED BY <1>t, <1>m, <1>d, <2>1, <2>2, AnswerWInv
<1>8. ASSUME NEW r \in Reqs, DbWriteFails(r) PROVE WInv'
  <2>1. /\ req[r].phase = "db" /\ Answer(r) /\ UNCHANGED <<mem, db>>
        /\ astray' = astray \cup {req[r].u}
    BY <1>8 DEF DbWriteFails
  <2> QED BY <1>t, <1>m, <2>1, AnswerWInv
<1>9. ASSUME NEW u \in Users, AddUsage(u) PROVE WInv'
  BY <1>9, <1>t, <1>m, QuietWInv DEF AddUsage, WithUsed
<1>10. ASSUME NEW u \in Users, FlushRow(u) PROVE WInv'
  BY <1>10, <1>t, <1>m, QuietWInv DEF FlushRow, Flushed, WithUsed
<1>11. CASE FlushSnapshot
  BY <1>11, <1>t, <1>m, QuietWInv DEF FlushSnapshot
<1>12. CASE FlushFails
  BY <1>12, <1>t, <1>m, QuietWInv DEF FlushFails
<1>13. CASE Restart
  <2>1. /\ mem' = db /\ db' = db /\ banned' = banned \ astray /\ astray' = {} /\ bans' = {}
        /\ \A r \in Reqs : req'[r].phase = "idle" /\ behind'[r] = {}
    BY <1>13 DEF Restart, Idle
  <2>2. InLine' /\ Mirrored'
    BY <2>1 DEF InLine, Mirrored, SameDef, Queue
  <2>3. BanKept'
    BY <2>1 DEF WInv, BanKept, BanHolds, Queue
  <2> QED BY <2>2, <2>3 DEF WInv
<1>14. CASE UNCHANGED vars
  BY <1>14, <1>t, <1>m, QuietWInv DEF vars, history
<1>15. ASSUME NEW r \in Reqs, Request(r) PROVE WInv'
  BY <1>15, <1>1, <1>2, <1>4, <1>5, <1>6 DEF Request
<1> QED BY <1>3, <1>7, <1>8, <1>9, <1>10, <1>11, <1>12, <1>13, <1>14, <1>15 DEF Next

\* The store starts with memory and table the same and nothing in line.
LEMMA InitWInv == Init => WInv
BY NoRowType DEF Init, WInv, InLine, Mirrored, BanKept, BanHolds, SameDef, Queue, Idle, NoRow

\* Memory and table agree for every user of whom nothing is pending.
LEMMA WInvWriteThrough == WInv => WriteThrough
<1> SUFFICES ASSUME WInv, NEW u \in Users \ astray, Queue(u) = {}
             PROVE  Definition(mem, u) = Definition(db, u)
  BY DEF WriteThrough
<1> QED BY DEF WInv, Mirrored, SameDef, Definition, Known

\* SqliteUserStore's write-through, with any number of control requests at the
\* same time, on the same user or on others, flushes, failing statements and
\* restarts between any two steps: memory and table hold the same definition
\* of every user of whom no statement is pending, unless one of his was lost
\* or overtook another.  That overtaking is the only way two concurrent
\* requests can break it is the content.
THEOREM WrittenThrough == Spec => []WriteThrough
BY InitIInv, NextIInv, InitWInv, NextWInv, WInvWriteThrough, PTL DEF Spec

\* An answered Disable or Remove holds against everything that runs
\* concurrently, in the datapath and, unless its statement was lost or
\* overtaken, across restarts, until somebody enables or adds the user or an
\* update writes back a flag it had read before.
THEOREM BansHold == Spec => []BanHolds
<1>1. WInv => BanHolds
  BY DEF WInv, BanKept
<1> QED BY <1>1, InitIInv, NextIInv, InitWInv, NextWInv, PTL DEF Spec
=============================================================================
