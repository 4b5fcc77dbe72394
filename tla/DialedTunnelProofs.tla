------------------------- MODULE DialedTunnelProofs -------------------------
(***************************************************************************)
(* What a ReconnectingTunnel promises to any number of concurrent opens,   *)
(* and that the wrapper over the real transport is one, so that it holds   *)
(* whatever a dial consists of; what becomes of a kick; and that the race  *)
(* of a dial gives up only when all of it has failed.                      *)
(***************************************************************************)
EXTENDS DialedTunnel, TLAPS

-----------------------------------------------------------------------------
(* The wrapper.  That an open has seen what is published is inductive by   *)
(* itself; that what is published is what the task watches needs only its  *)
(* own step.                                                               *)


IInv == TypeOK /\ NoMissedPublish /\ PublishedIsWatched

\* The initial state satisfies the inductive invariant.
LEMMA ReconnectInit == Init => IInv
<1> SUFFICES ASSUME Init PROVE IInv
  OBVIOUS
<1>1. TypeOK BY SeedAssumption DEF Init, TypeOK
<1>2. NoMissedPublish /\ PublishedIsWatched
  BY DEF Init, NoMissedPublish, PublishedIsWatched
<1> QED BY <1>1, <1>2 DEF IInv

\* The world outside changes neither the channel nor an open.
LEMMA OutsideStep ==
  ASSUME IInv, (\E t \in Tunnels : TunnelDies(t)) \/ Kick \/ Drop PROVE IInv'
  BY DEF IInv, TypeOK, NoMissedPublish, PublishedIsWatched, TunnelDies, Kick, Drop, openvars

\* Whatever the task publishes marks every open as having a change to see.
LEMMA SuperviseStep == ASSUME IInv, Supervise PROVE IInv'
<1> USE DEF IInv, TypeOK, NoMissedPublish, PublishedIsWatched, openvars
<1>1. CASE WakeClosed
  BY <1>1 DEF WakeClosed, Publish, StartDial
<1>2. CASE WakeKick
  BY <1>2 DEF WakeKick, Publish, StartDial
<1>3. CASE DialOk
  <2>1. PICK t \in Fresh : held' = t /\ closed' = closed \cap InUse /\ Publish(t)
    BY <1>3 DEF DialOk
  <2>2. t \in Tunnels BY DEF Fresh
  <2> QED BY <1>3, <2>1, <2>2 DEF DialOk, Publish
<1>4. CASE DialFails
  BY <1>4 DEF DialFails
<1>5. CASE Retry
  BY <1>5 DEF Retry, StartDial
<1> QED BY <1>1, <1>2, <1>3, <1>4, <1>5 DEF Supervise

\* An open reads and marks in one step, so it never waits past a publication.
LEMMA OpenStep ==
  ASSUME IInv, NEW o \in Openers, Open(o) \/ Deadline(o) \/ Step(o) PROVE IInv'
<1> USE DEF IInv, TypeOK, NoMissedPublish, PublishedIsWatched, supvars
<1>1. CASE Open(o)
  BY <1>1 DEF Open
<1>2. CASE Deadline(o)
  BY <1>2 DEF Deadline
<1>3. CASE TopExpired(o) \/ OpeningExpired(o) \/ HoldExpired(o)
  BY <1>3 DEF TopExpired, OpeningExpired, HoldExpired, Fail, Ends
<1>4. CASE Borrow(o)
  BY <1>4 DEF Borrow
<1>5. CASE Replaced(o) \/ Republished(o)
  BY <1>5 DEF Replaced, Republished
<1>6. CASE Poll(o) \/ OpenOk(o) \/ OpenFails(o) \/ OpenPending(o)
  BY <1>6 DEF Poll, OpenOk, Ends, OpenFails, OpenPending
<1> QED BY <1>1, <1>2, <1>3, <1>4, <1>5, <1>6 DEF Step

\* Every step preserves the inductive invariant.
LEMMA ReconnectStep == IInv /\ [Next]_vars => IInv'
<1> SUFFICES ASSUME IInv, [Next]_vars PROVE IInv'
  OBVIOUS
<1>1. CASE UNCHANGED vars
  BY <1>1 DEF vars, supvars, openvars, IInv, TypeOK, NoMissedPublish, PublishedIsWatched
<1>2. CASE Next
  BY <1>2, OutsideStep, SuperviseStep, OpenStep DEF Next
<1> QED BY <1>1, <1>2

\* The inductive invariant holds in every reachable state.
LEMMA ReconnectInductive == Spec => []IInv
  BY ReconnectInit, ReconnectStep, PTL DEF Spec

\* No open of reconnect.rs sleeps through the publication of a new tunnel.
THEOREM NeverMissesPublish == Spec => []NoMissedPublish
<1>1. IInv => NoMissedPublish BY DEF IInv
<1> QED BY <1>1, ReconnectInductive, PTL

\* The published tunnel is always the one supervise() is watching.
THEOREM PublishedWatched == Spec => []PublishedIsWatched
<1>1. IInv => PublishedIsWatched BY DEF IInv
<1> QED BY <1>1, ReconnectInductive, PTL

\* The biased select looks at an open's result only on the current tunnel.
THEOREM OpensAreCurrent == Spec => OpenReturnsCurrent
<1> DEFINE A == \A o \in Openers :
                   /\ pc[o] # "polled" /\ pc'[o] = "polled" => on[o] = cur
                   /\ pc[o] # "ok" /\ pc'[o] = "ok" => pc[o] = "polled"
<1>1. IInv /\ [Next]_vars => [A]_vars
  <2> SUFFICES ASSUME IInv, Next PROVE A
    OBVIOUS
  <2> USE DEF IInv, TypeOK
  <2>1. CASE (\E t \in Tunnels : TunnelDies(t)) \/ Kick \/ Supervise \/ Drop
    BY <2>1 DEF TunnelDies, Kick, Drop, openvars, Supervise, WakeClosed, WakeKick,
                DialOk, DialFails, Retry
  <2>2. CASE \E q \in Openers : Open(q) \/ Deadline(q) \/ Step(q)
    <3>1. PICK q \in Openers : Open(q) \/ Deadline(q) \/ Step(q) BY <2>2
    <3>2. OpenOk(q) \/ Poll(q) \/ pc' = pc \/ \E v \in {"top", "opening", "hold", "idle"} :
             pc' = [pc EXCEPT ![q] = v]
      BY <3>1 DEF Open, Deadline, Step, TopExpired, OpeningExpired, HoldExpired, Fail, Ends,
                  Borrow, Replaced, OpenFails, OpenPending, Republished
    <3> QED BY <3>2 DEF OpenOk, Ends, Poll, NoMissedPublish
  <2> QED BY <2>1, <2>2 DEF Next
<1> QED BY <1>1, ReconnectInductive, PTL DEF Spec, OpenReturnsCurrent

(* The permit of the kick Notify stands for every kick that no dial has     *)
(* answered yet, so none is lost however it races the dial's own end.       *)
KickStored == owed => kick

(* A permit is spent only on tearing the watched tunnel down for a new one. *)
KickSpentOnDial == [][kick /\ ~kick' => sup = "watch" /\ sup' = "dial" /\ cur' = None]_vars

\* Only a kick makes one owed, and only the start of a dial spends the permit.
LEMMA KickStep ==
    ASSUME KickStored, [Next]_vars
    PROVE  KickStored' /\ (kick /\ ~kick' => WakeKick)
<1>1. CASE \E o \in Openers : Open(o) \/ Deadline(o) \/ Step(o)
  <2>1. UNCHANGED <<kick, owed>>
    BY <1>1 DEF Open, Deadline, Step, TopExpired, OpeningExpired, HoldExpired, Fail, Ends, Borrow,
                Replaced, Poll, OpenOk, OpenFails, OpenPending, Republished, supvars
  <2> QED BY <2>1 DEF KickStored
<1>2. CASE (\E t \in Tunnels : TunnelDies(t)) \/ Kick \/ Drop \/ UNCHANGED vars
  BY <1>2 DEF TunnelDies, Kick, Drop, vars, supvars, KickStored
<1>3. CASE Supervise
  BY <1>3 DEF Supervise, WakeClosed, WakeKick, DialOk, DialFails, Retry, StartDial, KickStored
<1> QED BY <1>1, <1>2, <1>3 DEF Next

\* kick() before, during or in the instant a dial ends is still stored when the
\* task watches again: the safety half of KickHonoured.
THEOREM KickNeverLost == Spec => []KickStored
<1>1. Init => KickStored
  BY DEF Init, KickStored
<1>2. KickStored /\ [Next]_vars => KickStored'
  BY KickStep
<1> QED BY <1>1, <1>2, PTL DEF Spec

\* And a stored one is never dropped: it goes into a new dial.
THEOREM KickBecomesDial == Spec => KickSpentOnDial
<1>1. KickStored /\ [Next]_vars
        => [kick /\ ~kick' => sup = "watch" /\ sup' = "dial" /\ cur' = None]_vars
  BY KickStep DEF WakeKick, StartDial, Publish
<1> QED BY <1>1, KickNeverLost, PTL DEF Spec, KickSpentOnDial

-----------------------------------------------------------------------------
(* The wrapper over dial.rs.                                               *)


\* What an attempt does while the dial lasts is invisible to the wrapper.
LEMMA AttemptInvisible == Attempt => UNCHANGED vars
  BY DEF Attempt, HeadStartEnds, RealityConnects, RealityFails, Reality,
         Unpinned, LookupHost, ConnectQuicMulti, QuicTimeout, Quic

\* Every step over dial.rs is a step of reconnect.rs or none at all.
LEMMA DialedStep == [DialedNext]_dialedVars => [Next]_vars
<1> SUFFICES ASSUME [DialedNext]_dialedVars PROVE [Next]_vars
  OBVIOUS
<1>1. CASE UNCHANGED dialedVars
  BY <1>1 DEF dialedVars
<1>2. CASE Begin
  BY <1>2 DEF Begin, Next, Supervise
<1>3. CASE Attempt
  BY <1>3, AttemptInvisible
<1>4. CASE ConnectQuic \/ Returns
  BY <1>4 DEF ConnectQuic, Returns, RealityWins, DialGivesUp, Next, Supervise
<1>5. CASE DropDialed
  BY <1>5 DEF DropDialed, Next
<1>6. CASE \E p \in {"tcp", "udp"} : Flap(p)
  BY <1>6 DEF Flap
<1>7. CASE \/ \E t \in Tunnels : TunnelDies(t)
           \/ Kick
           \/ \E o \in Openers : Open(o) \/ Deadline(o) \/ Step(o)
  BY <1>7 DEF Next
<1> QED BY <1>1, <1>2, <1>3, <1>4, <1>5, <1>6, <1>7 DEF DialedNext

\* The tunnel dialed by RealTransport implements the wrapper's specification,
\* in which a dial may end either way at any time.
THEOREM DialedImplementsReconnecting == DialedSpec => Spec
<1>1. DialedInit => Init BY DEF DialedInit
<1> QED BY <1>1, DialedStep, PTL DEF DialedSpec, Spec

\* So no open over the real transport sleeps through a publication.
THEOREM DialedNeverMisses == DialedSpec => []NoMissedPublish
  BY DialedImplementsReconnecting, NeverMissesPublish, PTL

\* And none hands out a flow of a tunnel that was replaced before its look.
THEOREM DialedOpensCurrent == DialedSpec => OpenReturnsCurrent
  BY DialedImplementsReconnecting, OpensAreCurrent, PTL

(* An attempt is under way over every protocol of the dial's route, over   *)
(* none while no dial lasts: supervise never waits for an attempt nobody   *)
(* makes, nor is one left from a dial that returned.                       *)
AttemptsMatchDial ==
    /\ sup \in {"watch", "backoff"} => reality = "off" /\ quic = "off"
    /\ sup = "dial" => /\ Route \in {"reality", "race"} <=> reality # "off"
                       /\ Route \in {"quic", "race"} <=> quic # "off"

(* A dial gives up only when every protocol of its route has failed: a     *)
(* race never ends with the failure of QUIC alone.                         *)
GivesUpLast ==
    [][sup = "dial" /\ sup' = "backoff"
         => /\ Route \in {"reality", "race"} => reality = "failed"
            /\ Route \in {"quic", "race"} => quic = "failed"]_dialedVars

\* What a dial starts with is what its route asks for.
LEMMA AttemptsBegin == ASSUME Begin PROVE AttemptsMatchDial'
<1>1. sup' = "dial" /\ Route' = Route
  BY DEF Begin, WakeClosed, WakeKick, Retry, StartDial, DialBegins, Route
<1>2. quic' # "off" <=> Route \in {"quic", "race"}
  BY DEF Begin, DialBegins
<1>3. reality' = CASE Route = "reality" -> "connect" [] Route = "race" -> "wait" [] OTHER -> "off"
  BY DEF Begin, DialBegins
<1>4. reality' # "off" <=> Route \in {"reality", "race"}
  BY <1>3
<1> QED BY <1>1, <1>2, <1>4 DEF AttemptsMatchDial

\* An attempt that goes on, connects or fails stays an attempt.
LEMMA AttemptsGoOn == ASSUME AttemptsMatchDial, Attempt PROVE AttemptsMatchDial'
<1>1. UNCHANGED <<sup, cfg>>
  BY DEF Attempt, HeadStartEnds, RealityConnects, RealityFails, Reality,
         Unpinned, LookupHost, ConnectQuicMulti, QuicTimeout, Quic, vars, supvars
<1>2. /\ reality' # "off" <=> reality # "off"
      /\ quic' # "off" <=> quic # "off"
  BY DEF Attempt, HeadStartEnds, RealityConnects, RealityFails, Reality,
         Unpinned, LookupHost, ConnectQuicMulti, QuicTimeout, Quic
<1>3. Route' = Route
  BY <1>1 DEF Route
<1> QED BY <1>1, <1>2, <1>3 DEF AttemptsMatchDial

\* Every step over dial.rs keeps the attempts and the dial together.
LEMMA AttemptsStep == AttemptsMatchDial /\ [DialedNext]_dialedVars => AttemptsMatchDial'
<1> SUFFICES ASSUME AttemptsMatchDial, [DialedNext]_dialedVars PROVE AttemptsMatchDial'
  OBVIOUS
<1>1. ASSUME UNCHANGED <<sup, cfg, reality, quic>> PROVE AttemptsMatchDial'
  BY <1>1 DEF AttemptsMatchDial, Route
<1>2. CASE UNCHANGED dialedVars
  BY <1>1, <1>2 DEF dialedVars, vars, supvars, dialvars
<1>3. CASE Begin
  BY <1>3, AttemptsBegin
<1>4. CASE Attempt
  BY <1>4, AttemptsGoOn
<1>5. CASE ConnectQuic \/ Returns
  BY <1>5 DEF ConnectQuic, Returns, RealityWins, DialGivesUp, DialOver, DialOk, DialFails, AttemptsMatchDial
<1>6. CASE DropDialed
  BY <1>6 DEF DropDialed, Drop, AttemptsMatchDial
<1>7. CASE \E p \in {"tcp", "udp"} : Flap(p)
  BY <1>1, <1>7 DEF Flap, vars, supvars, dialvars
<1>8. CASE /\ (\E t \in Tunnels : TunnelDies(t)) \/ Kick \/ \E o \in Openers : Open(o) \/ Deadline(o) \/ Step(o)
           /\ UNCHANGED <<cfg, up, dialvars>>
  <2>1. UNCHANGED sup
    BY <1>8 DEF TunnelDies, Kick, Open, Deadline, Step, TopExpired, OpeningExpired, HoldExpired, Fail,
                Ends, Borrow, Replaced, Poll, OpenOk, OpenFails, OpenPending, Republished, supvars
  <2> QED BY <1>1, <1>8, <2>1 DEF dialvars
<1> QED BY <1>2, <1>3, <1>4, <1>5, <1>6, <1>7, <1>8 DEF DialedNext

\* RealTransport::dial, for any configuration and any number of addresses.
THEOREM AttemptsAreTheDials == DialedSpec => []AttemptsMatchDial
<1>1. DialedInit => AttemptsMatchDial
  BY DEF DialedInit, Init, AttemptsMatchDial
<1> QED BY <1>1, AttemptsStep, PTL DEF DialedSpec

\* The race of dial.rs falls back: neither protocol's failure hides the
\* other's answer, the safety half of HealsWhenReachable.
THEOREM RaceFallsBack == DialedSpec => GivesUpLast
<1> DEFINE A == sup = "dial" /\ sup' = "backoff"
                  => /\ Route \in {"reality", "race"} => reality = "failed"
                     /\ Route \in {"quic", "race"} => quic = "failed"
<1>1. AttemptsMatchDial /\ [DialedNext]_dialedVars => [A]_dialedVars
  <2> SUFFICES ASSUME AttemptsMatchDial, DialedNext, sup = "dial", sup' = "backoff"
               PROVE  /\ Route \in {"reality", "race"} => reality = "failed"
                      /\ Route \in {"quic", "race"} => quic = "failed"
    OBVIOUS
  <2>1. CASE Begin \/ ConnectQuic \/ DropDialed \/ RealityWins
    BY <2>1 DEF Begin, WakeClosed, WakeKick, Retry, StartDial, ConnectQuic, DropDialed, Drop, RealityWins, DialOk
  <2>2. CASE Attempt \/ (\E p \in {"tcp", "udp"} : Flap(p))
    BY <2>2, AttemptInvisible DEF Flap, vars, supvars
  <2>3. CASE DialGivesUp
    BY <2>3 DEF DialGivesUp, AttemptsMatchDial
  <2>4. CASE (\E t \in Tunnels : TunnelDies(t)) \/ Kick \/ \E o \in Openers : Open(o) \/ Deadline(o) \/ Step(o)
    BY <2>4 DEF TunnelDies, Kick, Open, Deadline, Step, TopExpired, OpeningExpired, HoldExpired, Fail,
                Ends, Borrow, Replaced, Poll, OpenOk, OpenFails, OpenPending, Republished, supvars
  <2> QED BY <2>1, <2>2, <2>3, <2>4 DEF DialedNext, Returns
<1> QED BY <1>1, AttemptsAreTheDials, PTL DEF DialedSpec, GivesUpLast
=============================================================================
