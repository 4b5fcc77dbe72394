---------------------------- MODULE RelaySession ----------------------------
(***************************************************************************)
(* One authorized session of the REALITY server (server.rs): the mux's     *)
(* accepted streams are relayed to their targets, counted against the      *)
(* user and cut when the user is no longer allowed, while the admin        *)
(* changes the user at any time.  `used' and `st' are the user's entry in  *)
(* InMemoryUserStore (user.rs).                                            *)
(***************************************************************************)
EXTENDS Naturals, FiniteSets

CONSTANTS
    Tcp, Dgram,   \* streams the client may have open, by kind (UDP and ICMP)
    Flush,        \* FLUSH: bytes a TCP relay gathers before it reports
    MaxChunk,     \* the largest chunk
    Cap,          \* data_cap of the user
    MaxMoved      \* bound: bytes relayed in one behaviour

ASSUME RelayAssumption ==
    /\ Tcp \cap Dgram = {} /\ IsFiniteSet(Tcp)
    /\ Flush \in Nat \ {0} /\ MaxChunk \in Nat \ {0} /\ Cap \in Nat /\ MaxMoved \in Nat

Streams == Tcp \cup Dgram

VARIABLES
    st,       \* the user: "on", "off" or "absent"
    expired,  \* now > expires_at
    used,     \* used_up + used_down
    session,  \* "none", "live" or "closed"
    open,     \* streams whose relay task runs
    up, down, \* acc_up, acc_down of each TCP relay
    part,     \* bytes of the chunk in write_all that have gone out, per TCP relay
    moved,    \* history: bytes relayed since the entry exists
    lost,     \* history: those that a write cut off half-way had sent
    extra     \* history: bytes of each TCP relay since the user is not allowed

vars == <<st, expired, used, session, open, up, down, part, moved, lost, extra>>

TypeOK ==
    /\ st \in {"on", "off", "absent"} /\ expired \in BOOLEAN /\ used \in Nat
    /\ session \in {"none", "live", "closed"}
    /\ open \subseteq Streams
    /\ up \in [Tcp -> 0..(Flush - 1)] /\ down \in [Tcp -> 0..(Flush - 1)]
    /\ part \in [Tcp -> 0..(MaxChunk - 1)]
    /\ moved \in Nat /\ lost \in Nat /\ extra \in [Tcp -> Nat]

Init ==
    /\ st = "on" /\ expired = FALSE /\ used = 0
    /\ session = "none" /\ open = {}
    /\ up = [s \in Tcp |-> 0] /\ down = [s \in Tcp |-> 0]
    /\ part = [s \in Tcp |-> 0]
    /\ moved = 0 /\ lost = 0 /\ extra = [s \in Tcp |-> 0]

\* InMemoryUserStore::ok on an entry.
Ok(state, exp, n) == state = "on" /\ ~exp /\ n < Cap
StillAllowed == Ok(st, expired, used)

-----------------------------------------------------------------------------
(* The admin and the clock.                                                *)

\* add_usage reaches an existing entry only.
Counted(n) == IF st = "absent" THEN used ELSE used + n

Admin(state) ==
    /\ st # "absent" /\ state # st
    /\ st' = state
    /\ used' = IF state = "absent" THEN 0 ELSE used
    /\ moved' = IF state = "absent" THEN 0 ELSE moved
    /\ lost' = IF state = "absent" THEN 0 ELSE lost
    /\ extra' = IF Ok(state, expired, used') THEN [s \in Tcp |-> 0] ELSE extra
    /\ UNCHANGED <<expired, session, open, up, down, part>>

\* The clock passes expires_at.
Expire ==
    /\ ~expired /\ expired' = TRUE
    /\ UNCHANGED <<st, used, session, open, up, down, part, moved, lost, extra>>

-----------------------------------------------------------------------------
(* The session.                                                            *)

\* serve_connection: authorize, once, before the takeover.
Connect ==
    /\ session = "none" /\ StillAllowed
    /\ session' = "live"
    /\ UNCHANGED <<st, expired, used, open, up, down, part, moved, lost, extra>>

\* accept() and the spawned relay, whose egress connected.
OpenRelay(s) ==
    /\ session = "live" /\ s \notin open
    /\ open' = open \cup {s}
    /\ extra' = [t \in Tcp |-> IF t = s THEN 0 ELSE extra[t]]
    /\ UNCHANGED <<st, expired, used, session, up, down, part, moved, lost>>

\* Mutant: the final flush reports the upload only.
FinishedUpOnly(s, u, d, n, p) ==
    /\ open' = open \ {s}
    /\ used' = Counted(n + u)
    /\ lost' = IF st = "absent" THEN lost ELSE lost + p
    /\ up' = [up EXCEPT ![s] = 0] /\ down' = [down EXCEPT ![s] = 0] /\ part' = [part EXCEPT ![s] = 0]

\* The select! ended and dropped the other arms: final flush of both counters,
\* then stream.close().  Of a chunk whose write_all is dropped, or failed, the
\* p bytes that had gone out are in neither counter.
Finished(s, u, d, n, p) ==
    /\ open' = open \ {s}
    /\ used' = Counted(n + u + d)
    /\ lost' = IF st = "absent" THEN lost ELSE lost + p
    /\ up' = [up EXCEPT ![s] = 0] /\ down' = [down EXCEPT ![s] = 0] /\ part' = [part EXCEPT ![s] = 0]

\* n bytes relayed on s.
Moving(s, n) ==
    /\ s \in open /\ moved + n <= MaxMoved
    /\ moved' = IF st = "absent" THEN moved ELSE moved + n
    /\ extra' = [t \in Tcp |-> IF t # s THEN extra[t]
                              ELSE IF StillAllowed THEN 0 ELSE extra[t] + n]

\* Mutant: the relay reports every 64 KiB and does not look at the answer.
GatherNoCheck(s, u, d, p) ==
    LET u2 == IF u >= Flush THEN 0 ELSE u
        d2 == IF d >= Flush THEN 0 ELSE d
    IN  /\ used' = Counted((u - u2) + (d - d2))
        /\ up' = [up EXCEPT ![s] = u2] /\ down' = [down EXCEPT ![s] = d2] /\ part' = [part EXCEPT ![s] = p]
        /\ UNCHANGED <<open, lost>>

\* What the arm that has moved a whole chunk goes on to do, u and d gathered and p
\* bytes of a chunk gone out: below FLUSH gather; at FLUSH report that
\* direction, then go on or, if no longer allowed, end the relay.
Gather(s, u, d, p) ==
    \/ /\ u < Flush /\ d < Flush
       /\ up' = [up EXCEPT ![s] = u] /\ down' = [down EXCEPT ![s] = d] /\ part' = [part EXCEPT ![s] = p]
       /\ UNCHANGED <<open, used, lost>>
    \/ LET reported == IF u >= Flush THEN u ELSE d
           u2 == IF u >= Flush THEN 0 ELSE u
           d2 == IF u >= Flush THEN d ELSE 0
       IN  /\ u >= Flush \/ d >= Flush
           /\ \/ /\ Ok(st, expired, Counted(reported))
                 /\ used' = Counted(reported)
                 /\ up' = [up EXCEPT ![s] = u2] /\ down' = [down EXCEPT ![s] = d2]
                 /\ part' = [part EXCEPT ![s] = p]
                 /\ UNCHANGED <<open, lost>>
              \/ /\ ~Ok(st, expired, Counted(reported))
                 /\ Finished(s, u2, d2, reported, p)

\* upload: write_all has sent some of the chunk and waits for the target.
WritePart(s, n) ==
    /\ Moving(s, n) /\ part[s] + n < MaxChunk
    /\ part' = [part EXCEPT ![s] = @ + n]
    /\ UNCHANGED <<st, expired, used, session, open, up, down, lost>>

\* upload: write_all sends the rest, the whole chunk is counted.
WriteRest(s, n) ==
    /\ Moving(s, n) /\ part[s] + n <= MaxChunk
    /\ Gather(s, up[s] + part[s] + n, down[s], 0)
    /\ UNCHANGED <<st, expired, session>>

\* download: a chunk fits one frame, which the mux takes whole or not at all.
SendDown(s, n) ==
    /\ Moving(s, n)
    /\ Gather(s, up[s], down[s] + n, part[s])
    /\ UNCHANGED <<st, expired, session>>

\* relay_datagram, relay_icmp: every datagram is reported, none is checked.
MoveDgram(s, n) ==
    /\ Moving(s, n)
    /\ used' = Counted(n)
    /\ UNCHANGED <<st, expired, session, open, up, down, part, lost>>

\* How a relay ends, by kind.
End(s) ==
    /\ s \in open
    /\ \/ s \in Tcp /\ Finished(s, up[s], down[s], 0, part[s])
       \/ s \in Dgram /\ open' = open \ {s} /\ UNCHANGED <<used, up, down, part, lost>>
    /\ UNCHANGED <<st, expired, session, moved, extra>>

\* Mutant: the tick only looks at the enabled flag.
TickCutsFlag(s) == st = "off"

\* revoke_tick and datagram_expired: what makes the two-second tick cut.
TickCuts(s) == ~StillAllowed

\* The relay's tick found the user no longer allowed.
RevokeTick(s) == s \in open /\ TickCuts(s) /\ End(s)

\* Either peer closes, an I/O error, a datagram flow idles out.
PeerEnds(s) == End(s)

\* The mux died: every recv and send fails and accept() ends.
SessionEnds ==
    /\ session = "live"
    /\ session' = "closed"
    /\ UNCHANGED <<st, expired, used, open, up, down, part, moved, lost, extra>>

Next ==
    \/ \E state \in {"on", "off", "absent"} : Admin(state)
    \/ Expire \/ Connect \/ SessionEnds
    \/ \E s \in Streams : OpenRelay(s) \/ RevokeTick(s) \/ PeerEnds(s)
    \/ \E s \in Tcp, n \in 1..MaxChunk : WritePart(s, n) \/ WriteRest(s, n) \/ SendDown(s, n)
    \/ \E s \in Dgram, n \in 1..MaxChunk : MoveDgram(s, n)

\* Only the timers of the relays are fair: peers may stay for ever.
Fairness == \A s \in Streams : WF_vars(RevokeTick(s))

Spec     == Init /\ [][Next]_vars
FairSpec == Spec /\ Fairness

-----------------------------------------------------------------------------
(* Properties.                                                             *)

\* g[s] bytes of each stream s, one element per byte; and what the relays
\* hold unreported, a write under way included.
Bytes(g) == {b \in Tcp \X (1 .. 2 * (Flush - 1) + MaxChunk) : b[2] <= g[b[1]]}
Unreported == Cardinality(Bytes([s \in Tcp |-> up[s] + down[s] + part[s]]))

\* "report usage every ~64 KB", "final flush, including error exits": while
\* the user exists, what was relayed is what is reported, plus what the
\* running relays have gathered or are writing, plus what went out of a chunk
\* whose write the end of its relay cut off.  Nothing is counted twice, and
\* nothing but such a half-written chunk, one per relay, escapes the count.
EveryByteAccounted == st # "absent" => moved = used + Unreported + lost

\* A relay of a user who is no longer allowed (disabled, removed, expired or
\* over its cap) stops by itself within less than two flushes and two
\* chunks, even before its timer, the chunk that ended it and a write it cut
\* off included.
OverrunBounded ==
    \A s \in Tcp : extra[s] <= 2 * (Flush - 1) + 2 * MaxChunk - 1

\* The two-second tick: a relay never outlives the right to relay, whatever
\* the peers do.
RevokedCut ==
    \A s \in Streams : (s \in open /\ ~StillAllowed) ~> (s \notin open \/ StillAllowed)

=============================================================================
