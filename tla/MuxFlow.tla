------------------------------ MODULE MuxFlow -------------------------------
(***************************************************************************)
(* Streams of one leshiy-core mux (mux.rs) carrying data from endpoint A   *)
(* to endpoint B, with the frames, the bounded queues and the tasks:       *)
(*                                                                         *)
(*   Stream::send --cmdA--> writer A --wireAB--> reader B --chan--> recv   *)
(*   reader A <--wireBA-- writer B <--cmdB-- WINDOW_UPDATE / CLOSE         *)
(*                                                                         *)
(* All streams share the two command queues, the two wires and the two     *)
(* readers; each stream has its own channel and window at B.  The wires    *)
(* are the reliable, ordered transport below the mux.                      *)
(***************************************************************************)
EXTENDS WindowConstants, Sequences, SequencesExt, FiniteSets

CONSTANTS
    Streams,      \* streams open at the start (after their OPEN)
    Draining,     \* streams whose consumer at B keeps calling recv
    Probe,        \* the stream whose accounts are compared with CreditWindow
    MaxBuffered,  \* MAX_BUFFERED, hard cap on bytes in one channel
    ChanCap,      \* messages in one stream's channel (1024 in new_stream)
    CmdCap,       \* slots of a command queue (256)
    WireCap,      \* frames the transport holds in one direction
    MaxChunks,    \* bound: chunks sent on each stream
    Payloads      \* bound: sizes of the chunks of each stream

ASSUME FlowAssumption ==
    /\ Draining \subseteq Streams /\ Probe \in Streams
    /\ \A c \in {ChanCap, CmdCap, WireCap} : c \in Nat \ {0}
    /\ MaxChunks \in [Streams -> Nat]
    /\ Payloads \in [Streams -> SUBSET (1..MaxFrame)]
    /\ MaxBuffered \in Nat /\ InitWindow <= MaxBuffered

VARIABLES
    want,         \* A: chunk size Stream::send waits to acquire, 0 if none
    hold,         \* A: chunk whose credit is acquired, waiting for cmdA
    credit,       \* A: permits of send_window
    sinkA, sinkB, \* the streams in each endpoint's map
    handleB,      \* B: Stream objects still alive (their receivers exist)
    cmdA, cmdB,   \* command queues
    wireAB, wireBA,
    chan,         \* B: the stream's data channel
    buffered,     \* B: the atomic byte counter beside it
    consumed,     \* B: ReceiveState.consumed
    pending,      \* B: ReceiveState.pending, 0 if none
    resetB,       \* B: stream the reader is resetting, waiting for cmdB
    sent, got     \* history: chunks accepted by send, chunks returned by recv

vars == <<want, hold, credit, sinkA, sinkB, handleB, cmdA, cmdB, wireAB, wireBA,
          chan, buffered, consumed, pending, resetB, sent, got>>

\* What each endpoint's consumer side keeps, and the history.
recvVars == <<chan, buffered, consumed, pending, handleB>>
history  == <<sent, got>>

Sizes == 1..MaxFrame
ToB == [type : {"data"}, s : Streams, n : Sizes] \cup [type : {"close"}, s : Streams]
ToA == [type : {"window"}, s : Streams, n : 1..MaxCredit] \cup [type : {"close"}, s : Streams]
Data(s, n)         == [type |-> "data", s |-> s, n |-> n]
WindowUpdate(s, n) == [type |-> "window", s |-> s, n |-> n]
CloseFrame(s)      == [type |-> "close", s |-> s]

TypeOK ==
    /\ want \in [Streams -> 0..MaxFrame] /\ hold \in [Streams -> 0..MaxFrame]
    /\ credit \in [Streams -> Nat]
    /\ sinkA \subseteq Streams /\ sinkB \subseteq Streams /\ handleB \subseteq Streams
    /\ cmdA \in Seq(ToB) /\ wireAB \in Seq(ToB)
    /\ cmdB \in Seq(ToA) /\ wireBA \in Seq(ToA)
    /\ \A f \in {chan, sent, got} : f \in [Streams -> Seq(Sizes)]
    /\ buffered \in [Streams -> Nat] /\ consumed \in [Streams -> Nat]
    /\ pending \in [Streams -> 0..MaxFrame]
    /\ resetB \subseteq Streams

Init ==
    /\ want = [s \in Streams |-> 0] /\ hold = [s \in Streams |-> 0]
    /\ credit = [s \in Streams |-> InitWindow]
    /\ sinkA = Streams /\ sinkB = Streams /\ handleB = Streams
    /\ cmdA = <<>> /\ cmdB = <<>> /\ wireAB = <<>> /\ wireBA = <<>>
    /\ chan = [s \in Streams |-> <<>>]
    /\ buffered = [s \in Streams |-> 0] /\ consumed = [s \in Streams |-> 0]
    /\ pending = [s \in Streams |-> 0]
    /\ resetB = {}
    /\ sent = [s \in Streams |-> <<>>] /\ got = [s \in Streams |-> <<>>]

-----------------------------------------------------------------------------
(* Endpoint A: the sending application and its mux.                        *)

\* The application hands Stream::send its next chunk.
SendChunk(s, n) ==
    /\ want[s] = 0 /\ hold[s] = 0 /\ s \in sinkA
    /\ Len(sent[s]) < MaxChunks[s]
    /\ want' = [want EXCEPT ![s] = n]
    /\ UNCHANGED <<hold, credit, sinkA, sinkB, cmdA, cmdB, wireAB, wireBA, resetB>>
    /\ UNCHANGED recvVars /\ UNCHANGED history

\* acquire_credit: waits until n permits are there; a closed window fails it.
AcquireCredit(s) ==
    /\ want[s] # 0
    /\ want' = [want EXCEPT ![s] = 0]
    /\ \/ /\ s \in sinkA /\ credit[s] >= want[s]
          /\ credit' = [credit EXCEPT ![s] = @ - want[s]]
          /\ hold' = [hold EXCEPT ![s] = want[s]]
          /\ sent' = [sent EXCEPT ![s] = Append(@, want[s])]
       \/ s \notin sinkA /\ UNCHANGED <<credit, hold, sent>>
    /\ UNCHANGED <<sinkA, sinkB, cmdA, cmdB, wireAB, wireBA, resetB, got>>
    /\ UNCHANGED recvVars

\* tx.send(Command::Write(Data)).await: waits for a slot.
QueueData(s) ==
    /\ hold[s] # 0 /\ Len(cmdA) < CmdCap
    /\ cmdA' = Append(cmdA, Data(s, hold[s]))
    /\ hold' = [hold EXCEPT ![s] = 0]
    /\ UNCHANGED <<want, credit, sinkA, sinkB, cmdB, wireAB, wireBA, resetB>>
    /\ UNCHANGED recvVars /\ UNCHANGED history

\* Stream::close() at A, at any time; one CLOSE queued at a time (bound).
CloseA(s) ==
    /\ s \in sinkA /\ CloseFrame(s) \notin Range(cmdA) /\ Len(cmdA) < CmdCap
    /\ cmdA' = Append(cmdA, CloseFrame(s))
    /\ UNCHANGED <<want, hold, credit, sinkA, sinkB, cmdB, wireAB, wireBA, resetB>>
    /\ UNCHANGED recvVars /\ UNCHANGED history

\* Mutant: the writer forwards a CLOSE and keeps the stream's window open.
WriterAKeepsWindow ==
    /\ cmdA # <<>> /\ Len(wireAB) < WireCap
    /\ cmdA' = Tail(cmdA)
    /\ wireAB' = Append(wireAB, Head(cmdA))
    /\ UNCHANGED <<want, hold, credit, sinkA, sinkB, cmdB, wireBA, resetB>>
    /\ UNCHANGED recvVars /\ UNCHANGED history

\* Writer task: a CLOSE leaves the map (closing the window) before the wire.
WriterA ==
    /\ cmdA # <<>> /\ Len(wireAB) < WireCap
    /\ cmdA' = Tail(cmdA)
    /\ wireAB' = Append(wireAB, Head(cmdA))
    /\ sinkA' = IF Head(cmdA).type = "close" THEN sinkA \ {Head(cmdA).s} ELSE sinkA
    /\ UNCHANGED <<want, hold, credit, sinkB, cmdB, wireBA, resetB>>
    /\ UNCHANGED recvVars /\ UNCHANGED history

\* The reader's WINDOW_UPDATE arm: permits only for a stream still mapped.
Refill(f) ==
    credit' = IF f.s \in sinkA
                THEN [credit EXCEPT ![f.s] = @ + IF f.n < MaxCredit THEN f.n ELSE MaxCredit]
                ELSE credit

\* Reader task at A: WINDOW_UPDATE credits, CLOSE unmaps.
ReaderA ==
    /\ wireBA # <<>>
    /\ wireBA' = Tail(wireBA)
    /\ LET f == Head(wireBA) IN
         \/ f.type = "window" /\ Refill(f) /\ UNCHANGED sinkA
         \/ f.type = "close" /\ sinkA' = sinkA \ {f.s} /\ UNCHANGED credit
    /\ UNCHANGED <<want, hold, sinkB, cmdA, cmdB, wireAB, resetB>>
    /\ UNCHANGED recvVars /\ UNCHANGED history

-----------------------------------------------------------------------------
(* Endpoint B: the shared reader, one consumer per stream, the writer.     *)

\* try_send and the MAX_BUFFERED check; try_send also fails when the Stream
\* was dropped.
Fits(s, n) ==
    s \in handleB /\ buffered[s] + n <= MaxBuffered /\ Len(chan[s]) < ChanCap

\* Mutant: the reader waits for room in a full channel.
ReaderBDataWaits(f) ==
    IF f.s \notin sinkB
      THEN UNCHANGED <<chan, buffered, sinkB, resetB>>
      ELSE /\ Fits(f.s, f.n)
           /\ chan' = [chan EXCEPT ![f.s] = Append(@, f.n)]
           /\ buffered' = [buffered EXCEPT ![f.s] = @ + f.n]
           /\ UNCHANGED <<sinkB, resetB>>

\* The reader's DATA arm: enqueue without waiting, or reset this stream; a
\* stream that is no longer mapped swallows its frames.
ReaderBData(f) ==
    IF f.s \notin sinkB
      THEN UNCHANGED <<chan, buffered, sinkB, resetB>>
      ELSE IF Fits(f.s, f.n)
        THEN /\ chan' = [chan EXCEPT ![f.s] = Append(@, f.n)]
             /\ buffered' = [buffered EXCEPT ![f.s] = @ + f.n]
             /\ UNCHANGED <<sinkB, resetB>>
        ELSE /\ sinkB' = sinkB \ {f.s}
             /\ resetB' = {f.s}
             /\ UNCHANGED <<chan, buffered>>

\* Reader task at B; it reads on only after a pending reset was queued.
ReaderB ==
    /\ wireAB # <<>> /\ resetB = {}
    /\ wireAB' = Tail(wireAB)
    /\ LET f == Head(wireAB) IN
         \/ f.type = "data" /\ ReaderBData(f)
         \/ /\ f.type = "close"
            /\ sinkB' = sinkB \ {f.s}
            /\ UNCHANGED <<chan, buffered, resetB>>
    /\ UNCHANGED <<want, hold, credit, sinkA, cmdA, cmdB, wireBA, consumed, pending,
                   handleB>>
    /\ UNCHANGED history

\* The reader's CLOSE for a stream it reset, once the queue has a slot.
QueueReset(s) ==
    /\ s \in resetB /\ Len(cmdB) < CmdCap
    /\ cmdB' = Append(cmdB, CloseFrame(s))
    /\ resetB' = resetB \ {s}
    /\ UNCHANGED <<want, hold, credit, sinkA, sinkB, cmdA, wireAB, wireBA>>
    /\ UNCHANGED recvVars /\ UNCHANGED history

\* Mutant: a recv after a cancelled one takes the next chunk.
DequeueAgain(s) ==
    /\ s \in handleB /\ chan[s] # <<>>
    /\ chan' = [chan EXCEPT ![s] = Tail(@)]
    /\ buffered' = [buffered EXCEPT ![s] = @ - Head(chan[s])]
    /\ consumed' = [consumed EXCEPT ![s] = @ + Head(chan[s])]
    /\ pending' = [pending EXCEPT ![s] = Head(chan[s])]
    /\ UNCHANGED <<want, hold, credit, sinkA, sinkB, handleB, cmdA, cmdB, wireAB,
                   wireBA, resetB>>
    /\ UNCHANGED history

\* Stream::recv, first half: take a chunk and count it.  It is kept in
\* `pending' so that a recv cancelled below loses nothing.
Dequeue(s) ==
    /\ s \in handleB /\ pending[s] = 0 /\ chan[s] # <<>>
    /\ chan' = [chan EXCEPT ![s] = Tail(@)]
    /\ buffered' = [buffered EXCEPT ![s] = @ - Head(chan[s])]
    /\ consumed' = [consumed EXCEPT ![s] = @ + Head(chan[s])]
    /\ pending' = [pending EXCEPT ![s] = Head(chan[s])]
    /\ UNCHANGED <<want, hold, credit, sinkA, sinkB, handleB, cmdA, cmdB, wireAB,
                   wireBA, resetB>>
    /\ UNCHANGED history

\* Mutant: the grant counts the chunk in hand, not everything drained.
ReturnLastOnly(s) ==
    /\ s \in handleB /\ pending[s] # 0
    /\ \/ consumed[s] < Threshold /\ UNCHANGED <<consumed, cmdB>>
       \/ /\ consumed[s] >= Threshold /\ Len(cmdB) < CmdCap
          /\ cmdB' = Append(cmdB, WindowUpdate(s, pending[s]))
          /\ consumed' = [consumed EXCEPT ![s] = 0]
    /\ got' = [got EXCEPT ![s] = Append(@, pending[s])]
    /\ pending' = [pending EXCEPT ![s] = 0]
    /\ UNCHANGED <<want, hold, credit, sinkA, sinkB, handleB, cmdA, wireAB, wireBA,
                   chan, buffered, resetB, sent>>

\* Stream::recv, second half: below the threshold return the chunk, else
\* reserve a slot for the WINDOW_UPDATE first.
Return(s) ==
    /\ s \in handleB /\ pending[s] # 0
    /\ \/ consumed[s] < Threshold /\ UNCHANGED <<consumed, cmdB>>
       \/ /\ consumed[s] >= Threshold /\ Len(cmdB) < CmdCap
          /\ cmdB' = Append(cmdB, WindowUpdate(s, consumed[s]))
          /\ consumed' = [consumed EXCEPT ![s] = 0]
    /\ got' = [got EXCEPT ![s] = Append(@, pending[s])]
    /\ pending' = [pending EXCEPT ![s] = 0]
    /\ UNCHANGED <<want, hold, credit, sinkA, sinkB, handleB, cmdA, wireAB, wireBA,
                   chan, buffered, resetB, sent>>

\* A consumer that does not keep receiving drops its Stream without close():
\* receiver and backlog go, the map entry (with the byte counter) stays.
DropB(s) ==
    /\ s \in handleB \ Draining
    /\ handleB' = handleB \ {s}
    /\ chan' = [chan EXCEPT ![s] = <<>>]
    /\ pending' = [pending EXCEPT ![s] = 0]
    /\ UNCHANGED <<want, hold, credit, sinkA, sinkB, cmdA, cmdB, wireAB, wireBA,
                   buffered, consumed, resetB>>
    /\ UNCHANGED history

\* Writer task at B.
WriterB ==
    /\ cmdB # <<>> /\ Len(wireBA) < WireCap
    /\ cmdB' = Tail(cmdB)
    /\ wireBA' = Append(wireBA, Head(cmdB))
    /\ sinkB' = IF Head(cmdB).type = "close" THEN sinkB \ {Head(cmdB).s} ELSE sinkB
    /\ UNCHANGED <<want, hold, credit, sinkA, cmdA, wireAB, resetB>>
    /\ UNCHANGED recvVars /\ UNCHANGED history

-----------------------------------------------------------------------------

Next ==
    \/ \E s \in Streams :
         \/ \E n \in Payloads[s] : SendChunk(s, n)
         \/ AcquireCredit(s) \/ QueueData(s) \/ CloseA(s)
         \/ Dequeue(s) \/ Return(s) \/ QueueReset(s) \/ DropB(s)
    \/ WriterA \/ ReaderA \/ WriterB \/ ReaderB

\* The four mux tasks are always rescheduled and the transport moves on; a
\* started send is polled; only the consumers in Draining keep receiving.
Fairness ==
    /\ WF_vars(WriterA) /\ WF_vars(ReaderA) /\ WF_vars(WriterB) /\ WF_vars(ReaderB)
    /\ \A s \in Streams :
         /\ WF_vars(AcquireCredit(s)) /\ SF_vars(QueueData(s)) /\ SF_vars(QueueReset(s))
    /\ \A s \in Draining : WF_vars(Dequeue(s)) /\ SF_vars(Return(s))

Spec     == Init /\ [][Next]_vars
FairSpec == Spec /\ Fairness

-----------------------------------------------------------------------------
(* Properties.                                                             *)

\* The stream is whole: mapped at both ends, no CLOSE under way.
Whole(s) ==
    /\ s \in sinkA \cap sinkB \cap handleB /\ s \notin resetB
    /\ \A q \in {cmdA, cmdB, wireAB, wireBA} : CloseFrame(s) \notin Range(q)

\* The sizes in the frames of type t that stream s has in q, in order.
Plus(w, f, s, t) == IF f.s = s /\ f.type = t THEN Append(w, f.n) ELSE w
Carried(q, s, t) ==
    LET upto[i \in 0..Len(q)] == IF i = 0 THEN <<>> ELSE Plus(upto[i - 1], q[i], s, t)
    IN  upto[Len(q)]

Total(w) ==
    LET sum[i \in 0..Len(w)] == IF i = 0 THEN 0 ELSE sum[i - 1] + w[i]
    IN  sum[Len(w)]

Bytes(q, s, t) == Total(Carried(q, s, t))

\* The accounts of the stream, as CreditWindow keeps them.
Account(s, n) == IF Whole(s) THEN n ELSE 0
Window == INSTANCE CreditWindow WITH
    credit    <- Account(Probe, credit[Probe]),
    inflight  <- Account(Probe, hold[Probe] + Bytes(cmdA, Probe, "data") + Bytes(wireAB, Probe, "data")),
    buffered  <- Account(Probe, buffered[Probe]),
    consumed  <- Account(Probe, consumed[Probe]),
    returning <- Account(Probe, Bytes(cmdB, Probe, "window") + Bytes(wireBA, Probe, "window")),
    open      <- Whole(Probe)

\* The mux implements the byte accounting of CreditWindow for a stream:
\* frames, queues, clamps, the order of the tasks and the other streams that
\* share them neither lose nor invent credit.
ImplementsWindow == Window!Spec

\* Reliable and in order: a consumer sees a prefix of what was sent, across
\* cancellations, resets and closes.
InOrder == \A s \in Streams : IsPrefix(got[s], sent[s])

\* "instead of the slow stream stalling the shared reader for everyone": what
\* was sent on a stream whose consumer drains is delivered even when other
\* consumers never call recv again, unless the stream is closed.
Isolation ==
    \A s \in Draining : (sent[s] # got[s]) ~> (sent[s] = got[s] \/ ~Whole(s))

\* acquire_credit: a send on a drained stream is never starved for ever, and
\* a send on a closed one returns.
SendReturns == \A s \in Draining : (want[s] # 0) ~> (want[s] = 0)
=============================================================================
