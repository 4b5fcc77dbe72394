------------------------- MODULE ReconnectingTunnel -------------------------
(***************************************************************************)
(* crates/leshiy-client/src/reconnect.rs: a tunnel that re-dials itself.    *)
(* One supervisor task watches the tunnel it dialed last and publishes the  *)
(* usable one, or none, on a watch channel; any number of opens read the    *)
(* channel, try the tunnel they found, and hold until their deadline for a  *)
(* replacement.  open, open_datagram and open_icmp are the same loop.       *)
(***************************************************************************)
CONSTANTS Tunnels,  \* identities of dialed tunnels, reused once unreferenced
          Openers,  \* flows that open streams, associations or echoes
          Seed,     \* the tunnel the caller dialed
          None      \* no tunnel is published

ASSUME SeedAssumption == Seed \in Tunnels
ASSUME NoneAssumption == None \notin Tunnels

VARIABLES sup,      \* where the supervise task is
          held,     \* its local `current`
          cur,      \* the value in the watch channel
          closed,   \* tunnels whose closed() has resolved
          kick,     \* permit of the kick Notify
          owed,     \* history: a kick came after the last dial began
          pc,       \* where each open is
          on,       \* the tunnel each open read from the channel
          changed,  \* the channel holds a version the open has not seen
          expired   \* the open's deadline has passed

supvars == <<sup, held, cur, closed, kick, owed>>
openvars == <<pc, on, changed, expired>>
vars == <<supvars, openvars>>

TypeOK ==
    /\ sup \in {"watch", "dial", "backoff", "gone"}
    /\ held \in Tunnels /\ cur \in Tunnels \cup {None}
    /\ closed \subseteq Tunnels
    /\ kick \in BOOLEAN
    /\ owed \in BOOLEAN
    /\ pc \in [Openers -> {"idle", "top", "opening", "polled", "hold", "ok"}]
    /\ on \in [Openers -> Tunnels \cup {None}]
    /\ changed \in [Openers -> BOOLEAN] /\ expired \in [Openers -> BOOLEAN]

Init ==
    /\ sup = "watch" /\ held = Seed /\ cur = Seed
    /\ closed = {} /\ kick = FALSE /\ owed = FALSE
    /\ pc = [o \in Openers |-> "idle"]
    /\ on = [o \in Openers |-> None]
    /\ changed = [o \in Openers |-> FALSE]
    /\ expired = [o \in Openers |-> FALSE]

-----------------------------------------------------------------------------
(* Outside the wrapper: the connection dies, the host reports a new network.*)

\* Identities the wrapper refers to; another may name a new tunnel.
InUse == {held} \cup {on[o] : o \in Openers}

TunnelDies(t) == /\ t \in InUse \ closed
                 /\ closed' = closed \cup {t}
                 /\ UNCHANGED <<sup, held, cur, kick, owed, openvars>>

\* Mutant: notify_waiters, which forgets a kick nobody waits for.
KickUnstored == /\ kick' = (sup = "watch")
                /\ owed' = TRUE
                /\ UNCHANGED <<sup, held, cur, closed, openvars>>

Kick == /\ kick' = TRUE
        /\ owed' = TRUE
        /\ UNCHANGED <<sup, held, cur, closed, openvars>>

-----------------------------------------------------------------------------
(* The supervise task.                                                      *)

Active(o) == pc[o] \in {"top", "opening", "polled", "hold"}

Publish(value) == /\ cur' = value
                  /\ changed' = [o \in Openers |-> TRUE]

(* An attempt started now also answers a kick that came before it.          *)
StartDial == /\ sup' = "dial"
             /\ owed' = FALSE

WakeClosed == /\ sup = "watch" /\ held \in closed
              /\ Publish(None) /\ StartDial
              /\ UNCHANGED <<held, closed, kick, pc, on, expired>>

WakeKick == /\ sup = "watch" /\ kick
            /\ kick' = FALSE
            /\ Publish(None) /\ StartDial
            /\ UNCHANGED <<held, closed, pc, on, expired>>

Fresh == Tunnels \ InUse

DialOk == /\ sup = "dial"
          /\ \E t \in Fresh : /\ held' = t
                              /\ closed' = closed \cap InUse
                              /\ Publish(t)
          /\ sup' = "watch"
          /\ UNCHANGED <<kick, owed, pc, on, expired>>

DialFails == /\ sup = "dial"
             /\ sup' = "backoff"
             /\ UNCHANGED <<held, cur, closed, kick, owed, openvars>>

Retry == /\ sup = "backoff"
         /\ StartDial
         /\ UNCHANGED <<held, cur, closed, kick, openvars>>

(* The engine releases the wrapper, no open borrows it: the task is aborted.*)
Drop == /\ sup # "gone"
        /\ \A o \in Openers : ~Active(o)
        /\ sup' = "gone"
        /\ UNCHANGED <<held, cur, closed, kick, owed, openvars>>

-----------------------------------------------------------------------------
(* An open.                                                                 *)

Open(o) == /\ sup # "gone" /\ ~Active(o)
           /\ pc' = [pc EXCEPT ![o] = "top"]
           /\ UNCHANGED <<supvars, on, changed, expired>>

Deadline(o) == /\ Active(o) /\ ~expired[o]
               /\ expired' = [expired EXCEPT ![o] = TRUE]
               /\ UNCHANGED <<supvars, pc, on, changed>>

Ends(o, at) == /\ pc' = [pc EXCEPT ![o] = at]
               /\ on' = [on EXCEPT ![o] = None]
               /\ expired' = [expired EXCEPT ![o] = FALSE]
               /\ UNCHANGED <<supvars, changed>>

Fail(o) == Ends(o, "idle")

TopExpired(o) == pc[o] = "top" /\ expired[o] /\ Fail(o)

\* Mutant: the value is read once, before the loop.
BorrowStale(o) == /\ pc[o] = "top" /\ ~expired[o]
                  /\ on' = [on EXCEPT ![o] = IF on[o] = None THEN cur ELSE on[o]]
                  /\ changed' = [changed EXCEPT ![o] = FALSE]
                  /\ pc' = [pc EXCEPT ![o] = IF on'[o] = None THEN "hold" ELSE "opening"]
                  /\ UNCHANGED <<supvars, expired>>

(* borrow_and_update: read the tunnel and mark its version seen.            *)
Borrow(o) == /\ pc[o] = "top" /\ ~expired[o]
             /\ on' = [on EXCEPT ![o] = cur]
             /\ changed' = [changed EXCEPT ![o] = FALSE]
             /\ pc' = [pc EXCEPT ![o] = IF cur = None THEN "hold" ELSE "opening"]
             /\ UNCHANGED <<supvars, expired>>

(* One poll of the biased select looks at the clock, then at the channel,   *)
(* then at the open; the task on another thread may publish in between.     *)
OpeningExpired(o) == pc[o] = "opening" /\ expired[o] /\ Fail(o)

Replaced(o) == /\ pc[o] = "opening" /\ changed[o]
               /\ pc' = [pc EXCEPT ![o] = "top"]
               /\ UNCHANGED <<supvars, on, changed, expired>>

\* Mutant: the select is not biased.
PollUnbiased(o) == /\ pc[o] = "opening"
                   /\ pc' = [pc EXCEPT ![o] = "polled"]
                   /\ UNCHANGED <<supvars, on, changed, expired>>

Poll(o) == /\ pc[o] = "opening" /\ ~expired[o] /\ ~changed[o]
           /\ pc' = [pc EXCEPT ![o] = "polled"]
           /\ UNCHANGED <<supvars, on, changed, expired>>

(* The open of the tunnel is ready, well or badly, or still under way.  A   *)
(* flow that is handed out is no longer the wrapper's.                      *)
OpenOk(o) == pc[o] = "polled" /\ on[o] \notin closed /\ Ends(o, "ok")

OpenFails(o) == /\ pc[o] = "polled"
                /\ pc' = [pc EXCEPT ![o] = "hold"]
                /\ UNCHANGED <<supvars, on, changed, expired>>

OpenPending(o) == /\ pc[o] = "polled"
                  /\ pc' = [pc EXCEPT ![o] = "opening"]
                  /\ UNCHANGED <<supvars, on, changed, expired>>

(* timeout_at: a publication in time, or the clock.                         *)
Republished(o) == /\ pc[o] = "hold" /\ changed[o]
                  /\ pc' = [pc EXCEPT ![o] = "top"]
                  /\ UNCHANGED <<supvars, on, changed, expired>>

HoldExpired(o) == pc[o] = "hold" /\ expired[o] /\ Fail(o)

-----------------------------------------------------------------------------
Supervise == WakeClosed \/ WakeKick \/ DialOk \/ DialFails \/ Retry

Step(o) == \/ TopExpired(o) \/ Borrow(o) \/ OpeningExpired(o) \/ Replaced(o)
           \/ Poll(o) \/ OpenOk(o) \/ OpenFails(o) \/ OpenPending(o)
           \/ Republished(o) \/ HoldExpired(o)

Next == \/ \E t \in Tunnels : TunnelDies(t)
        \/ Kick \/ Supervise \/ Drop
        \/ \E o \in Openers : Open(o) \/ Deadline(o) \/ Step(o)

Spec == Init /\ [][Next]_vars

-----------------------------------------------------------------------------
(* An open waiting for a replacement has tried exactly what is published    *)
(* now, or has a change to see: no publication slips between its read and   *)
(* its wait.                                                                *)
NoMissedPublish ==
    \A o \in Openers :
        pc[o] \in {"opening", "polled", "hold"} /\ ~changed[o] => on[o] = cur

(* What is published is the tunnel the task watches, and nothing is         *)
(* published exactly while it dials.                                        *)
PublishedIsWatched ==
    /\ sup = "watch" => cur = held
    /\ sup \in {"dial", "backoff"} => cur = None

(* The result of an open is looked at only while its tunnel is current, and *)
(* a flow is handed out only by such a look: an open on a tunnel that was   *)
(* replaced before is discarded even if it succeeded.                       *)
OpenReturnsCurrent ==
    [][\A o \in Openers :
          /\ pc[o] # "polled" /\ pc'[o] = "polled" => on[o] = cur
          /\ pc[o] # "ok" /\ pc'[o] = "ok" => pc[o] = "polled"]_vars

(* No kick is lost, even one that arrives during a dial or in the instant a *)
(* dial succeeds: a dial that began after it is made.                       *)
KickHonoured == owed ~> (~owed \/ sup = "gone")
=============================================================================
