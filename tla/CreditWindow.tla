---------------------------- MODULE CreditWindow ----------------------------
(***************************************************************************)
(* The promise of the mux's per-stream flow control (leshiy-core mux.rs),  *)
(* in bytes only: a sender spends credit, the receiver buffers, its        *)
(* consumer drains, and what was drained comes back as credit in           *)
(* WindowUpdates.  Frames, queues, tasks and the other streams are hidden. *)
(***************************************************************************)
EXTENDS WindowConstants

VARIABLES
    credit,       \* permits of the sender's semaphore
    inflight,     \* bytes spent and not yet at the receiver's sink
    buffered,     \* bytes in the receiver's channel
    consumed,     \* bytes drained since the last grant
    returning,    \* bytes granted and not yet credited
    open          \* both ends still have the stream in their maps

vars == <<credit, inflight, buffered, consumed, returning, open>>

TypeOK ==
    /\ credit \in Nat /\ inflight \in Nat /\ buffered \in Nat
    /\ consumed \in Nat /\ returning \in Nat /\ open \in BOOLEAN

Init ==
    /\ credit = InitWindow
    /\ inflight = 0 /\ buffered = 0 /\ consumed = 0 /\ returning = 0
    /\ open = TRUE

\* Stream::acquire_credit: permits are taken all at once or not at all.
Spend(n) ==
    /\ open /\ n <= credit
    /\ credit' = credit - n
    /\ inflight' = inflight + n
    /\ UNCHANGED <<buffered, consumed, returning, open>>

\* The reader moved a chunk into the stream's channel.
Arrive(n) ==
    /\ open /\ n <= inflight
    /\ inflight' = inflight - n
    /\ buffered' = buffered + n
    /\ UNCHANGED <<credit, consumed, returning, open>>

\* Stream::recv took a chunk; below the threshold it waits for more.
Drain(n) ==
    /\ open /\ n <= buffered /\ consumed < Threshold
    /\ buffered' = buffered - n
    /\ consumed' = consumed + n
    /\ UNCHANGED <<credit, inflight, returning, open>>

\* Stream::recv grants everything drained in one WindowUpdate.
Grant ==
    /\ open /\ consumed >= Threshold
    /\ consumed' = 0
    /\ returning' = returning + consumed
    /\ UNCHANGED <<credit, inflight, buffered, open>>

\* The sender's reader applied a WindowUpdate of n bytes.
Credited(n) ==
    /\ open /\ n <= returning /\ n <= MaxCredit
    /\ returning' = returning - n
    /\ credit' = credit + n
    /\ UNCHANGED <<inflight, buffered, consumed, open>>

\* Either end closed or reset the stream: the accounting ends.
Close ==
    /\ open /\ open' = FALSE
    /\ credit' = 0 /\ inflight' = 0 /\ buffered' = 0
    /\ consumed' = 0 /\ returning' = 0

Next ==
    \/ \E n \in 1..MaxFrame : Spend(n) \/ Arrive(n) \/ Drain(n)
    \/ Grant
    \/ \E n \in 1..MaxCredit : Credited(n)
    \/ Close

Spec == Init /\ [][Next]_vars

-----------------------------------------------------------------------------

\* mux.rs INIT_WINDOW / StreamSink: no byte of credit is lost or invented
\* while the stream is open, whatever the order of sends and grants.
Conserved ==
    open => credit + inflight + buffered + consumed + returning = InitWindow

\* recv grants as soon as the threshold is reached, so what it holds back is
\* bounded and one grant never meets the MAX_CREDIT clamp.
GrantFits == open => consumed <= Threshold - 1 + MaxFrame /\ consumed <= MaxCredit

\* "a compliant peer stays under INIT_WINDOW": what the receiver buffers.
BufferWithinWindow == open => buffered <= InitWindow

\* "a single chunk always fits the window": when everything that was sent was
\* drained and every grant arrived, the largest chunk can be sent, although
\* the receiver may hold back up to Threshold - 1 bytes of credit.
NoStall ==
    open /\ inflight = 0 /\ buffered = 0 /\ returning = 0 /\ consumed < Threshold
        => credit >= MaxFrame
=============================================================================
