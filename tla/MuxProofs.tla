---------------------------- MODULE MuxProofs ------------------------------
(***************************************************************************)
(* The mux, in four parts: the recursive definitions that count what is in *)
(* a queue; the streams of MuxFlow, whose chunks arrive in order and whose *)
(* credit is the one of CreditWindow, for any number of streams and any    *)
(* window, threshold, clamp, frame, queue and channel size that satisfy    *)
(* WindowAssumption and FlowAssumption (those of mux.rs do); CreditWindow  *)
(* itself; and the life of a whole session, for every pair of HELLOs,      *)
(* every queue size and any number of streams.                             *)
(***************************************************************************)
EXTENDS MuxFlow, MuxLifecycle, WellFoundedInduction, SequenceTheorems, TLAPS

-----------------------------------------------------------------------------
(* Recursive definitions over a sequence.                                  *)

\* A set of numbers has a least one.
LEMMA LeastNat == ASSUME NEW T, T \subseteq Nat, T # {} PROVE \E n \in T : \A k \in T : n <= k
<1>1. PICK n \in T : \A y \in T : ~(<<y, n>> \in OpToRel(<, Nat))
  BY WFMin, NatLessThanWellFounded, Zenon
<1>2. \A k \in T : ~(k < n)
  BY <1>1, Zenon DEF OpToRel
<1> QED BY <1>2

\* f is what next computes in n steps from base.
Computes(n, V, base, next, f) ==
    f \in [0..n -> V] /\ f[0] = base /\ \A i \in 1..n : f[i] = next[i][f[i - 1]]

\* Recursion over 0..N: there is such a function.
LEMMA Recursion ==
    ASSUME NEW N \in Nat, NEW V, NEW base \in V, NEW next \in [1..N -> [V -> V]]
    PROVE  \E f : Computes(N, V, base, next, f)
<1> DEFINE T == {n \in 0..N : ~\E f : Computes(n, V, base, next, f)}
<1>0. SUFFICES ASSUME T # {} PROVE FALSE
  <2>1. N \in 0..N
    OBVIOUS
  <2> QED BY <2>1
<1>1. T \subseteq Nat
  OBVIOUS
<1>2. PICK n \in T : \A k \in T : n <= k
  <2> HIDE DEF T
  <2> QED BY <1>0, <1>1, LeastNat
<1>3. n \in 0..N /\ ~\E f : Computes(n, V, base, next, f)
  OBVIOUS
<1>4. CASE n = 0
  <2>1. Computes(0, V, base, next, [i \in 0..0 |-> base])
    BY DEF Computes
  <2> QED BY <1>3, <1>4, <2>1
<1>5. CASE n # 0
  <2>1. n - 1 \in 0..N /\ n - 1 \notin T
    BY <1>2, <1>3, <1>5
  <2>2. PICK f : Computes(n - 1, V, base, next, f)
    BY <2>1
  <2>3. n \in 1..N /\ n - 1 \in 0..(n - 1) /\ f[n - 1] \in V
    BY <1>3, <1>5, <2>2 DEF Computes
  <2>4. next[n][f[n - 1]] \in V
    BY <2>3
  <2>5. PICK v \in V : v = next[n][f[n - 1]]
    BY <2>4
  <2> DEFINE g == [i \in 0..n |-> IF i = n THEN v ELSE f[i]]
  <2>6. g \in [0..n -> V] /\ g[0] = base
    BY <1>5, <2>2, <2>3 DEF Computes
  <2>7. ASSUME NEW i \in 1..n PROVE g[i] = next[i][g[i - 1]]
    <3>1. CASE i = n
      BY <3>1, <2>3, <2>5
    <3>2. CASE i # n
      BY <3>2, <2>2, <2>3 DEF Computes
    <3> QED BY <3>1, <3>2
  <2> QED BY <1>3, <2>6, <2>7 DEF Computes
<1> QED BY <1>4, <1>5

\* Two functions that start the same and stay the same step by step.
LEMMA SameSteps ==
    ASSUME NEW N \in Nat, NEW f, NEW g, f[0] = g[0],
           \A i \in 1..N : f[i - 1] = g[i - 1] => f[i] = g[i]
    PROVE  f[N] = g[N]
<1> DEFINE T == {n \in 0..N : f[n] # g[n]}
<1>0. SUFFICES ASSUME T # {} PROVE FALSE
  <2>1. N \in 0..N
    OBVIOUS
  <2> QED BY <2>1
<1>1. T \subseteq Nat
  OBVIOUS
<1>2. PICK n \in T : \A k \in T : n <= k
  <2> HIDE DEF T
  <2> QED BY <1>0, <1>1, LeastNat
<1>3. n \in 0..N /\ f[n] # g[n] /\ n # 0
  OBVIOUS
<1>4. n - 1 \in 0..N /\ n - 1 \notin T /\ n \in 1..N
  BY <1>2, <1>3
<1>5. f[n - 1] = g[n - 1]
  BY <1>4
<1> QED BY <1>3, <1>4, <1>5

Adds(w, f) == f = [i \in 0..Len(w) |-> IF i = 0 THEN 0 ELSE f[i - 1] + w[i]]

\* The equation of Total, read element by element, and back.
LEMMA AddsSteps ==
    ASSUME NEW w \in Seq(Nat), NEW f
    PROVE  /\ Adds(w, f) => f[0] = 0 /\ \A i \in 1..Len(w) : f[i] = f[i - 1] + w[i]
           /\ DOMAIN f = 0..Len(w) /\ f = [i \in DOMAIN f |-> f[i]] /\ f[0] = 0
                /\ (\A i \in 1..Len(w) : f[i] = f[i - 1] + w[i]) => Adds(w, f)
<1>0. Len(w) \in Nat
  OBVIOUS
<1>1. ASSUME Adds(w, f)
      PROVE  f[0] = 0 /\ \A i \in 1..Len(w) : f[i] = f[i - 1] + w[i]
  BY <1>0, <1>1 DEF Adds
<1>2. ASSUME DOMAIN f = 0..Len(w), f = [i \in DOMAIN f |-> f[i]], f[0] = 0,
             \A i \in 1..Len(w) : f[i] = f[i - 1] + w[i]
      PROVE  Adds(w, f)
  <2>1. \A i \in 0..Len(w) : f[i] = IF i = 0 THEN 0 ELSE f[i - 1] + w[i]
    BY <1>0, <1>2
  <2>2. f = [i \in 0..Len(w) |-> f[i]]
    BY <1>2
  <2> QED BY <2>1, <2>2, Zenon DEF Adds
<1> QED BY <1>1, <1>2

\* Whatever satisfies the equation of Total is its value.
LEMMA TotalIs ==
    ASSUME NEW w \in Seq(Nat), NEW f, Adds(w, f)
    PROVE  Total(w) = f[Len(w)]
<1>1. Adds(w, CHOOSE h : Adds(w, h))
  BY Zenon
<1>2. PICK g : g = (CHOOSE h : Adds(w, h))
  OBVIOUS
<1>3. Adds(w, g)
  BY <1>1, <1>2
<1>4. Total(w) = g[Len(w)]
  BY <1>2, Zenon DEF Total, Adds
<1>5. Len(w) \in Nat /\ f[0] = g[0] /\ \A i \in 1..Len(w) : f[i - 1] = g[i - 1] => f[i] = g[i]
  BY <1>3 DEF Adds
<1>6. f[Len(w)] = g[Len(w)]
  <2> HIDE DEF Adds
  <2> QED BY <1>5, SameSteps
<1> QED BY <1>4, <1>6

\* Something satisfies it, so Total is defined.
LEMMA TotalExists ==
    ASSUME NEW w \in Seq(Nat)
    PROVE  \E f \in [0..Len(w) -> Nat] : Adds(w, f)
<1> DEFINE next == [i \in 1..Len(w) |-> [x \in Nat |-> x + w[i]]]
<1>1. Len(w) \in Nat /\ next \in [1..Len(w) -> [Nat -> Nat]]
  OBVIOUS
<1>2. PICK f : Computes(Len(w), Nat, 0, next, f)
  <2> HIDE DEF next
  <2> QED BY <1>1, Recursion
<1>3. f \in [0..Len(w) -> Nat] /\ f[0] = 0
  BY <1>2 DEF Computes
<1>4. ASSUME NEW i \in 1..Len(w) PROVE f[i] = f[i - 1] + w[i]
  <2>0. Len(w) \in Nat
    BY <1>1
  <2>1. i - 1 \in 0..Len(w)
    BY <2>0
  <2>2. f[i - 1] \in Nat
    <3> HIDE DEF next
    <3> QED BY <1>3, <2>1
  <2> QED BY <1>2, <2>2 DEF Computes
<1> QED BY <1>1, <1>3, <1>4, AddsSteps

\* Adding at either end.
LEMMA TotalEnds ==
    ASSUME NEW w \in Seq(Nat), NEW x \in Nat
    PROVE  /\ Total(w) \in Nat
           /\ Total(<<>>) = 0
           /\ Total(Append(w, x)) = Total(w) + x
           /\ Total(<<x>> \o w) = x + Total(w)
<1>1. PICK f \in [0..Len(w) -> Nat] : Adds(w, f)
  BY TotalExists
<1>2. Total(w) = f[Len(w)] /\ Len(w) \in Nat
  BY <1>1, TotalIs
<1>3. Total(<<>>) = 0
  <2>1. PICK g \in [0..Len(<<>>) -> Nat] : Adds(<<>>, g)
    BY TotalExists
  <2>2. Total(<<>>) = g[Len(<<>>)] /\ g[0] = 0
    BY <2>1, TotalIs, AddsSteps
  <2> QED BY <2>2
<1>4. Total(Append(w, x)) = Total(w) + x
  <2> DEFINE v == Append(w, x)
             g == [i \in 0..Len(v) |-> IF i = Len(v) THEN f[Len(w)] + x ELSE f[i]]
  <2>1. /\ v \in Seq(Nat) /\ Len(v) = Len(w) + 1 /\ v[Len(v)] = x
        /\ \A i \in 1..Len(w) : v[i] = w[i]
    OBVIOUS
  <2>2. f[0] = 0 /\ \A i \in 1..Len(w) : f[i] = f[i - 1] + w[i]
    BY <1>1, <1>2, AddsSteps
  <2>3. Adds(v, g)
    <3> HIDE DEF v
    <3> QED BY <1>2, <2>1, <2>2, SMTT(20) DEF Adds
  <2>4. Total(v) = g[Len(v)]
    <3> HIDE DEF v, g
    <3> QED BY <2>1, <2>3, TotalIs
  <2> QED BY <1>2, <2>1, <2>4
<1>5. Total(<<x>> \o w) = x + Total(w)
  <2> DEFINE v == <<x>> \o w
             g == [i \in 0..Len(v) |-> IF i = 0 THEN 0 ELSE x + f[i - 1]]
  <2>1. /\ v \in Seq(Nat) /\ Len(v) = Len(w) + 1 /\ v[1] = x
        /\ \A i \in 2..Len(v) : v[i] = w[i - 1]
    OBVIOUS
  <2>2. f[0] = 0 /\ \A i \in 1..Len(w) : f[i] = f[i - 1] + w[i] /\ w[i] \in Nat /\ f[i - 1] \in Nat
    <3>1. f[0] = 0 /\ \A i \in 1..Len(w) : f[i] = f[i - 1] + w[i]
      BY <1>1, AddsSteps
    <3>2. \A i \in 1..Len(w) : i - 1 \in 0..Len(w)
      BY <1>2
    <3>3. \A i \in 1..Len(w) : f[i - 1] \in Nat
      BY <1>1, <3>2
    <3>4. \A i \in 1..Len(w) : w[i] \in Nat
      OBVIOUS
    <3> QED BY <3>1, <3>3, <3>4
  <2>3. Adds(v, g)
    <3> HIDE DEF v
    <3>1. ASSUME NEW i \in 1..Len(v) PROVE g[i] = g[i - 1] + v[i]
      <4>1. CASE i = 1
        BY <1>2, <2>1, <2>2, <4>1
      <4>2. CASE i # 1
        <5>1. i - 1 \in 1..Len(w) /\ i \in 2..Len(v)
          BY <1>2, <2>1, <4>2
        <5>2. f[i - 1] = f[i - 2] + w[i - 1] /\ w[i - 1] \in Nat /\ f[i - 2] \in Nat
          BY <2>2, <5>1, SMTT(30)
        <5>3. v[i] = w[i - 1] /\ g[i] = x + f[i - 1] /\ g[i - 1] = x + f[i - 2]
          BY <1>2, <2>1, <5>1, SMTT(30)
        <5> QED BY <5>2, <5>3, SMTT(20)
      <4> QED BY <4>1, <4>2
    <3>2. DOMAIN g = 0..Len(v) /\ g = [i \in DOMAIN g |-> g[i]] /\ g[0] = 0
      BY <1>2, <2>1
    <3> HIDE DEF g
    <3> QED BY <2>1, <3>1, <3>2, AddsSteps
  <2>4. Total(v) = g[Len(v)]
    <3> HIDE DEF v, g
    <3> QED BY <2>1, <2>3, TotalIs
  <2> QED BY <1>2, <2>1, <2>4
<1> QED BY <1>1, <1>2, <1>3, <1>4, <1>5

-----------------------------------------------------------------------------
Picks(q, s, t, f) ==
    f = [i \in 0..Len(q) |-> IF i = 0 THEN <<>> ELSE Plus(f[i - 1], q[i], s, t)]

\* The equation of Carried, read frame by frame.
LEMMA PicksFrom ==
    ASSUME NEW F, NEW q \in Seq(F), NEW s, NEW t, NEW f, Picks(q, s, t, f)
    PROVE  f[0] = <<>> /\ \A i \in 1..Len(q) : f[i] = Plus(f[i - 1], q[i], s, t)
<1>1. Len(q) \in Nat
  OBVIOUS
<1> QED BY <1>1 DEF Picks

\* The same, and back.
LEMMA PicksSteps ==
    ASSUME NEW F, NEW q \in Seq(F), NEW s, NEW t, NEW f
    PROVE  /\ Picks(q, s, t, f) => f[0] = <<>> /\ \A i \in 1..Len(q) : f[i] = Plus(f[i - 1], q[i], s, t)
           /\ DOMAIN f = 0..Len(q) /\ f = [i \in DOMAIN f |-> f[i]] /\ f[0] = <<>>
                /\ (\A i \in 1..Len(q) : f[i] = Plus(f[i - 1], q[i], s, t)) => Picks(q, s, t, f)
<1>0. Len(q) \in Nat
  OBVIOUS
<1>1. ASSUME Picks(q, s, t, f)
      PROVE  f[0] = <<>> /\ \A i \in 1..Len(q) : f[i] = Plus(f[i - 1], q[i], s, t)
  BY <1>0, <1>1 DEF Picks
<1>2. ASSUME DOMAIN f = 0..Len(q), f = [i \in DOMAIN f |-> f[i]], f[0] = <<>>,
             \A i \in 1..Len(q) : f[i] = Plus(f[i - 1], q[i], s, t)
      PROVE  Picks(q, s, t, f)
  <2>1. \A i \in 0..Len(q) : f[i] = IF i = 0 THEN <<>> ELSE Plus(f[i - 1], q[i], s, t)
    BY <1>0, <1>2
  <2>2. f = [i \in 0..Len(q) |-> f[i]]
    BY <1>2
  <2> QED BY <2>1, <2>2, Zenon DEF Picks
<1> QED BY <1>1, <1>2

\* Whatever satisfies the equation of Carried is its value.
LEMMA CarriedIs ==
    ASSUME NEW F, NEW q \in Seq(F), NEW s, NEW t, NEW f, Picks(q, s, t, f)
    PROVE  Carried(q, s, t) = f[Len(q)]
<1>1. Picks(q, s, t, CHOOSE h : Picks(q, s, t, h))
  BY Zenon
<1>2. PICK g : g = (CHOOSE h : Picks(q, s, t, h))
  OBVIOUS
<1>3. Picks(q, s, t, g)
  BY <1>1, <1>2
<1>4. Carried(q, s, t) = g[Len(q)]
  BY <1>2, Zenon DEF Carried, Picks
<1>5. f[0] = g[0] /\ \A i \in 1..Len(q) : f[i - 1] = g[i - 1] => f[i] = g[i]
  BY <1>3, PicksSteps
<1>6. f[Len(q)] = g[Len(q)]
  <2>1. Len(q) \in Nat
    OBVIOUS
  <2> QED BY <1>5, <2>1, SameSteps
<1> QED BY <1>4, <1>6

Sized(F, t, V) == \A f \in F : f.type = t => f.n \in V

\* Something satisfies it, so Carried is defined.
LEMMA CarriedExists ==
    ASSUME NEW F, NEW q \in Seq(F), NEW s, NEW t, NEW V, Sized(F, t, V)
    PROVE  \E f \in [0..Len(q) -> Seq(V)] : Picks(q, s, t, f)
<1> DEFINE next == [i \in 1..Len(q) |-> [x \in Seq(V) |-> Plus(x, q[i], s, t)]]
<1>1. Len(q) \in Nat /\ <<>> \in Seq(V) /\ \A i \in 1..Len(q) : q[i] \in F
  OBVIOUS
<1>2. \A i \in 1..Len(q), x \in Seq(V) : Plus(x, q[i], s, t) \in Seq(V)
  BY <1>1 DEF Plus, Sized
<1>3. next \in [1..Len(q) -> [Seq(V) -> Seq(V)]]
  BY <1>2
<1>4. PICK f : Computes(Len(q), Seq(V), <<>>, next, f)
  <2> HIDE DEF next
  <2> QED BY <1>1, <1>3, Recursion
<1>5. f \in [0..Len(q) -> Seq(V)] /\ f[0] = <<>>
  BY <1>4 DEF Computes
<1>6. ASSUME NEW i \in 1..Len(q) PROVE f[i] = Plus(f[i - 1], q[i], s, t)
  <2>1. i - 1 \in 0..Len(q)
    BY <1>1
  <2>2. f[i - 1] \in Seq(V)
    <3> HIDE DEF next
    <3> QED BY <1>5, <2>1
  <2>3. f[i] = next[i][f[i - 1]]
    <3> HIDE DEF next
    <3> QED BY <1>4 DEF Computes
  <2> QED BY <2>2, <2>3
<1> QED BY <1>5, <1>6, PicksSteps

\* What the frames of a queue carry are sizes.
LEMMA CarriedTyped ==
    ASSUME NEW F, NEW q \in Seq(F), NEW s, NEW t, NEW V, Sized(F, t, V)
    PROVE  Carried(q, s, t) \in Seq(V)
<1>1. PICK f \in [0..Len(q) -> Seq(V)] : Picks(q, s, t, f)
  BY CarriedExists
<1>2. Carried(q, s, t) = f[Len(q)] /\ Len(q) \in Nat
  BY <1>1, CarriedIs
<1> QED BY <1>1, <1>2

\* An empty queue carries nothing.
LEMMA CarriedEmpty == \A s, t : Carried(<<>>, s, t) = <<>>
<1> TAKE s, t
<1>1. <<>> \in Seq({}) /\ Sized({}, t, Nat)
  BY DEF Sized
<1>2. PICK g \in [0..Len(<<>>) -> Seq(Nat)] : Picks(<<>>, s, t, g)
  BY <1>1, CarriedExists
<1>3. g[0] = <<>>
  BY <1>1, <1>2, PicksSteps, Zenon
<1>4. Carried(<<>>, s, t) = g[Len(<<>>)]
  BY <1>1, <1>2, CarriedIs, Zenon
<1> QED BY <1>3, <1>4

\* A frame joins at the back.
LEMMA CarriedAppend ==
    ASSUME NEW F, NEW q \in Seq(F), NEW x \in F, NEW s, NEW t, NEW V, Sized(F, t, V)
    PROVE  Carried(Append(q, x), s, t) = Plus(Carried(q, s, t), x, s, t)
<1>1. PICK f \in [0..Len(q) -> Seq(V)] : Picks(q, s, t, f)
  BY CarriedExists
<1>2. Carried(q, s, t) = f[Len(q)] /\ Len(q) \in Nat /\ f[Len(q)] \in Seq(V)
  BY <1>1, CarriedIs
<1>4. f[0] = <<>> /\ \A i \in 1..Len(q) : f[i] = Plus(f[i - 1], q[i], s, t)
  BY <1>1, PicksFrom
<1>5. Carried(Append(q, x), s, t) = Plus(Carried(q, s, t), x, s, t)
  <2> DEFINE v == Append(q, x)
             g == [i \in 0..Len(v) |-> IF i = Len(v) THEN Plus(f[Len(q)], x, s, t) ELSE f[i]]
  <2>1. /\ v \in Seq(F) /\ Len(v) = Len(q) + 1 /\ v[Len(v)] = x
        /\ \A i \in 1..Len(q) : v[i] = q[i]
    OBVIOUS
  <2>2. ASSUME NEW i \in 1..Len(v) PROVE g[i] = Plus(g[i - 1], v[i], s, t)
    <3> HIDE DEF v
    <3>1. CASE i = Len(v)
      BY <1>2, <2>1, <3>1
    <3>2. CASE i # Len(v)
      BY <1>2, <1>4, <2>1, <3>2
    <3> QED BY <3>1, <3>2
  <2>3. DOMAIN g = 0..Len(v) /\ g = [i \in DOMAIN g |-> g[i]] /\ g[0] = <<>>
    <3> HIDE DEF v
    <3> QED BY <1>2, <1>4, <2>1
  <2>4. Picks(v, s, t, g)
    <3> HIDE DEF v, g
    <3> QED BY <2>1, <2>2, <2>3, PicksSteps
  <2>5. Carried(v, s, t) = g[Len(v)]
    <3> HIDE DEF v, g
    <3> QED BY <2>1, <2>4, CarriedIs
  <2>6. g[Len(v)] = Plus(f[Len(q)], x, s, t)
    <3> HIDE DEF v
    <3> QED BY <1>2, <2>1
  <2> QED BY <1>2, <2>5, <2>6
<1> QED BY <1>5

\* A frame leaves at the front.
LEMMA CarriedTail ==
    ASSUME NEW F, NEW v \in Seq(F), v # <<>>, NEW s, NEW t, NEW V, Sized(F, t, V)
    PROVE  /\ Head(v).s = s /\ Head(v).type = t =>
                /\ Carried(v, s, t) # <<>> /\ Head(Carried(v, s, t)) = Head(v).n
                /\ Tail(Carried(v, s, t)) = Carried(Tail(v), s, t)
           /\ ~(Head(v).s = s /\ Head(v).type = t) => Carried(v, s, t) = Carried(Tail(v), s, t)
<1>a. Head(v) \in F /\ Tail(v) \in Seq(F)
  OBVIOUS
<1>0. PICK x \in F, q \in Seq(F) : x = Head(v) /\ q = Tail(v)
  BY <1>a
<1>1. PICK f \in [0..Len(q) -> Seq(V)] : Picks(q, s, t, f)
  BY CarriedExists
<1>2. Carried(q, s, t) = f[Len(q)] /\ Len(q) \in Nat /\ f[Len(q)] \in Seq(V)
  BY <1>1, CarriedIs
<1>3. f[0] = <<>> /\ \A i \in 1..Len(q) : f[i] = Plus(f[i - 1], q[i], s, t)
  BY <1>1, PicksFrom
<1>4. /\ Len(v) = Len(q) + 1 /\ v[1] = x
      /\ \A i \in 2..Len(v) : v[i] = q[i - 1]
  BY <1>0
<1> DEFINE h == Plus(<<>>, x, s, t)
           g == [i \in 0..Len(v) |-> IF i = 0 THEN <<>> ELSE h \o f[i - 1]]
<1>5. h \in Seq(V)
  BY DEF Plus, Sized
<1>6. \A a \in Seq(V), y \in F : Plus(h \o a, y, s, t) = h \o Plus(a, y, s, t)
  <2> HIDE DEF h
  <2>1. \A a \in Seq(V), y \in V : Append(h \o a, y) = h \o Append(a, y)
    <3> TAKE a \in Seq(V), y \in V
    <3>1. Append(h \o a, y) = (h \o a) \o <<y>> /\ Append(a, y) = a \o <<y>>
      BY <1>5, AppendIsConcat, ConcatProperties
    <3> QED BY <1>5, <3>1, ConcatAssociative
  <2> QED BY <2>1 DEF Plus, Sized
<1>7. ASSUME NEW i \in 1..Len(v) PROVE g[i] = Plus(g[i - 1], v[i], s, t)
  <2>1. CASE i = 1
    <3>1. g[0] = <<>> /\ g[1] = h \o f[0] /\ h \o <<>> = h
      <4> HIDE DEF h
      <4> QED BY <1>2, <1>4, <1>5
    <3> QED BY <1>3, <1>4, <2>1, <3>1
  <2>2. CASE i # 1
    <3> HIDE DEF h
    <3>1. i - 1 \in 1..Len(q) /\ i \in 2..Len(v) /\ i - 2 \in 0..Len(q) /\ (i - 1) - 1 = i - 2
      BY <1>2, <1>4, <2>2
    <3>2. f[i - 1] = Plus(f[i - 2], q[i - 1], s, t) /\ q[i - 1] \in F /\ f[i - 2] \in Seq(V)
      <4>1. f[i - 1] = Plus(f[(i - 1) - 1], q[i - 1], s, t)
        BY <1>3, <3>1
      <4> QED BY <1>1, <3>1, <4>1, SMTT(30)
    <3>3. v[i] = q[i - 1] /\ i \in 0..Len(v) /\ i - 1 \in 0..Len(v) /\ i # 0 /\ i - 1 # 0
      BY <1>2, <1>4, <2>2, <3>1
    <3>4. g[i] = h \o f[i - 1] /\ g[i - 1] = h \o f[i - 2]
      BY <3>1, <3>3
    <3> HIDE DEF g
    <3> QED BY <1>6, <3>2, <3>3, <3>4
  <2> QED BY <2>1, <2>2
<1>8. DOMAIN g = 0..Len(v) /\ g = [i \in DOMAIN g |-> g[i]] /\ g[0] = <<>>
  <2> HIDE DEF h
  <2> QED BY <1>2, <1>4
<1>9. Picks(v, s, t, g)
  <2> QED BY <1>7, <1>8, PicksSteps
<1>10. Carried(v, s, t) = g[Len(v)]
  <2> QED BY <1>9, CarriedIs
<1>11. g[Len(v)] = h \o f[Len(q)]
  <2> HIDE DEF h
  <2> QED BY <1>2, <1>4
<1>12. PICK w \in Seq(V) : w = f[Len(q)]
  BY <1>2
<1>13. CASE x.s = s /\ x.type = t
  <2>1. h = <<x.n>> /\ x.n \in V
    BY <1>13 DEF Plus, Sized
  <2>2. Carried(v, s, t) = <<x.n>> \o w
    <3> HIDE DEF g, h
    <3> QED BY <1>10, <1>11, <1>12, <2>1
  <2>3. <<x.n>> \o w # <<>> /\ Head(<<x.n>> \o w) = x.n /\ Tail(<<x.n>> \o w) = w
    BY <2>1
  <2> QED BY <1>0, <1>2, <1>12, <1>13, <2>2, <2>3
<1>14. CASE ~(x.s = s /\ x.type = t)
  <2>1. h = <<>> /\ <<>> \o w = w
    BY <1>14 DEF Plus
  <2>2. Carried(v, s, t) = w
    <3> HIDE DEF g, h
    <3> QED BY <1>10, <1>11, <1>12, <2>1
  <2> QED BY <1>0, <1>2, <1>12, <1>14, <2>2
<1> QED BY <1>13, <1>14

\* A sequence's elements, when one joins at the back and when one leaves at
\* the front.
LEMMA RangeIs ==
    ASSUME NEW S, NEW s \in Seq(S)
    PROVE  Range(s) = {s[i] : i \in 1..Len(s)}
BY DEF Range

\* A frame joins a queue at the back.
LEMMA RangeAppend ==
    ASSUME NEW S, NEW s \in Seq(S), NEW x \in S
    PROVE  Append(s, x) \in Seq(S) /\ Range(Append(s, x)) = Range(s) \cup {x}
<1>1. /\ Append(s, x) \in Seq(S) /\ Len(Append(s, x)) = Len(s) + 1 /\ Len(s) \in Nat
      /\ Append(s, x)[Len(s) + 1] = x
      /\ \A i \in 1..Len(s) : Append(s, x)[i] = s[i]
  OBVIOUS
<1>2. Range(s) = {s[i] : i \in 1..Len(s)}
  BY RangeIs
<1>3. Range(Append(s, x)) = {Append(s, x)[i] : i \in 1..(Len(s) + 1)}
  BY <1>1, RangeIs
<1>4. ASSUME NEW y \in Range(Append(s, x)) PROVE y \in Range(s) \cup {x}
  BY <1>1, <1>2, <1>3
<1>5. ASSUME NEW y \in Range(s) \cup {x} PROVE y \in Range(Append(s, x))
  BY <1>1, <1>2, <1>3
<1> QED BY <1>1, <1>4, <1>5

\* A frame leaves a queue at the front.
LEMMA RangeTail ==
    ASSUME NEW S, NEW s \in Seq(S), s # <<>>
    PROVE  /\ Head(s) \in S /\ Tail(s) \in Seq(S)
           /\ Range(s) = {Head(s)} \cup Range(Tail(s))
<1>1. /\ Head(s) \in S /\ Tail(s) \in Seq(S) /\ Head(s) = s[1] /\ Len(s) \in Nat \ {0}
      /\ Len(Tail(s)) = Len(s) - 1
  OBVIOUS
<1>2. \A i \in 1..(Len(s) - 1) : Tail(s)[i] = s[i + 1]
  BY <1>1
<1>3. Range(s) = {s[i] : i \in 1..Len(s)} /\ Range(Tail(s)) = {Tail(s)[i] : i \in 1..(Len(s) - 1)}
  BY <1>1, RangeIs
<1>4. ASSUME NEW y \in Range(s) PROVE y \in {Head(s)} \cup Range(Tail(s))
  <2>1. PICK i \in 1..Len(s) : y = s[i]
    BY <1>3
  <2>2. CASE i # 1
    <3>1. i - 1 \in 1..(Len(s) - 1) /\ i - 1 + 1 = i
      BY <1>1, <2>2
    <3> QED BY <1>2, <1>3, <2>1, <3>1
  <2> QED BY <1>1, <2>1, <2>2
<1>5. ASSUME NEW y \in {Head(s)} \cup Range(Tail(s)) PROVE y \in Range(s)
  <2>1. CASE y = Head(s)
    BY <1>1, <1>3, <2>1
  <2>2. CASE y \in Range(Tail(s))
    <3>1. PICK i \in 1..(Len(s) - 1) : y = Tail(s)[i]
      BY <1>3, <2>2
    <3> QED BY <1>1, <1>2, <1>3, <3>1
  <2> QED BY <2>1, <2>2
<1> QED BY <1>1, <1>4, <1>5

\* An empty queue has no frame.
LEMMA RangeEmpty == Range(<<>>) = {}
BY DEF Range

-----------------------------------------------------------------------------
(* The streams of a mux.                                                   *)

\* A frame under way joins the accounts of its stream at the back of a queue
\* and leaves them at the front.
Weight(f, s, t) == IF f.s = s /\ f.type = t THEN f.n ELSE 0

\* A queue is its first element and the rest.
LEMMA HeadFirst ==
    ASSUME NEW S, NEW q \in Seq(S), q # <<>>
    PROVE  Head(q) \in S /\ Tail(q) \in Seq(S) /\ q = <<Head(q)>> \o Tail(q)
<1>1. Head(q) \in S /\ Tail(q) \in Seq(S) /\ Len(Tail(q)) = Len(q) - 1 /\ Len(q) \in Nat \ {0}
  OBVIOUS
<1>2. <<Head(q)>> \in Seq(S) /\ Len(<<Head(q)>>) = 1 /\ <<Head(q)>>[1] = q[1]
  BY <1>1
<1>3. \A i \in 1..Len(q) : (<<Head(q)>> \o Tail(q))[i] = q[i]
  BY <1>1, <1>2
<1>4. <<Head(q)>> \o Tail(q) \in Seq(S) /\ Len(<<Head(q)>> \o Tail(q)) = Len(q)
  BY <1>1, <1>2
<1> QED BY <1>1, <1>3, <1>4, SeqEqual

\* recv takes the first chunk out of the bytes of a channel.
LEMMA TotalTail ==
    ASSUME NEW w \in Seq(Nat), w # <<>>
    PROVE  Head(w) \in Nat /\ Total(Tail(w)) \in Nat /\ Total(w) = Head(w) + Total(Tail(w))
<1>1. Head(w) \in Nat /\ Tail(w) \in Seq(Nat) /\ w = <<Head(w)>> \o Tail(w)
  BY HeadFirst
<1> QED BY <1>1, TotalEnds

\* Frames of the type that is counted carry a number of bytes.
LEMMA BytesAppend ==
    ASSUME NEW F, NEW q \in Seq(F), NEW x \in F, NEW s, NEW t, Sized(F, t, Nat)
    PROVE  /\ Bytes(q, s, t) \in Nat /\ Weight(x, s, t) \in Nat
           /\ Bytes(Append(q, x), s, t) = Bytes(q, s, t) + Weight(x, s, t)
<1>1. PICK w \in Seq(Nat) : w = Carried(q, s, t)
  BY CarriedTyped
<1>2. Carried(Append(q, x), s, t) = Plus(w, x, s, t)
  BY <1>1, CarriedAppend
<1>3. CASE x.s = s /\ x.type = t
  <2>1. x.n \in Nat /\ Plus(w, x, s, t) = Append(w, x.n)
    BY <1>3 DEF Plus, Sized
  <2>2. Total(w) \in Nat /\ Total(Append(w, x.n)) = Total(w) + x.n
    BY <2>1, TotalEnds
  <2>3. /\ Bytes(q, s, t) = Total(w) /\ Weight(x, s, t) = x.n
        /\ Bytes(Append(q, x), s, t) = Total(Append(w, x.n))
    BY <1>1, <1>2, <1>3, <2>1 DEF Bytes, Weight
  <2> QED BY <2>1, <2>2, <2>3
<1>4. CASE ~(x.s = s /\ x.type = t)
  <2>1. Total(w) \in Nat /\ 0 \in Nat
    BY TotalEnds
  <2>2. /\ Bytes(q, s, t) = Total(w) /\ Weight(x, s, t) = 0
        /\ Bytes(Append(q, x), s, t) = Total(w)
    BY <1>1, <1>2, <1>4 DEF Bytes, Weight, Plus
  <2> QED BY <2>1, <2>2
<1> QED BY <1>3, <1>4

\* A writer or a reader takes the first frame out of the bytes of a queue.
LEMMA BytesTail ==
    ASSUME NEW F, NEW q \in Seq(F), q # <<>>, NEW s, NEW t, Sized(F, t, Nat)
    PROVE  /\ Bytes(q, s, t) = Weight(Head(q), s, t) + Bytes(Tail(q), s, t)
           /\ Weight(Head(q), s, t) \in Nat /\ Bytes(Tail(q), s, t) \in Nat
<1>a. Head(q) \in F /\ Tail(q) \in Seq(F)
  OBVIOUS
<1>1. PICK x \in F, r \in Seq(F) : x = Head(q) /\ r = Tail(q)
  BY <1>a
<1>2. PICK w \in Seq(Nat) : w = Carried(r, s, t)
  BY CarriedTyped
<1>3. PICK v \in Seq(Nat) : v = Carried(q, s, t)
  BY CarriedTyped
<1>4. Total(w) \in Nat /\ Bytes(r, s, t) = Total(w) /\ Bytes(q, s, t) = Total(v)
  <2>1. Total(w) \in Nat
    BY TotalEnds
  <2> QED BY <1>2, <1>3, <2>1 DEF Bytes
<1>5. CASE x.s = s /\ x.type = t
  <2>1. v # <<>> /\ Head(v) = x.n /\ Tail(v) = w
    BY <1>1, <1>2, <1>3, <1>5, CarriedTail, SMTT(30)
  <2>2. Head(v) \in Nat /\ Total(v) = Head(v) + Total(Tail(v))
    BY <2>1, TotalTail
  <2>3. Weight(x, s, t) = x.n
    BY <1>5 DEF Weight
  <2> QED BY <1>1, <1>4, <2>1, <2>2, <2>3
<1>6. CASE ~(x.s = s /\ x.type = t)
  <2>1. v = w
    BY <1>1, <1>2, <1>3, <1>6, CarriedTail
  <2>2. Weight(x, s, t) = 0
    BY <1>6 DEF Weight
  <2> QED BY <1>1, <1>4, <2>1, <2>2
<1> QED BY <1>5, <1>6

\* What recv holds back: at most a chunk more than the threshold, and below
\* the threshold between two calls.
Withheld ==
    \A s \in Streams :
        /\ consumed[s] <= Threshold - 1 + MaxFrame
        /\ s \in handleB /\ pending[s] = 0 => consumed[s] < Threshold

\* The counter beside a channel is the bytes in it.
Counted == \A s \in handleB : buffered[s] = Total(chan[s])

FlowInv == TypeOK /\ Withheld /\ Counted /\ resetB \cap sinkB = {}

\* Fresh streams: nothing withheld, nothing buffered.
LEMMA FlowStarts == Init => FlowInv
<1> SUFFICES ASSUME Init PROVE FlowInv
  OBVIOUS
<1>1. TypeOK
  BY WindowAssumption DEF Init, TypeOK
<1>2. Total(<<>>) = 0
  <2>1. <<>> \in Seq(Nat) /\ 0 \in Nat
    OBVIOUS
  <2> QED BY <2>1, TotalEnds, Zenon
<1>3. Counted
  BY <1>2 DEF Init, Counted
<1> QED BY <1>1, <1>3, WindowAssumption DEF Init, Withheld, FlowInv

\* Chunk sizes are numbers.
LEMMA SizesNat == Sizes \subseteq Nat /\ Seq(Sizes) \subseteq Seq(Nat)
BY WindowAssumption, SeqMonotonic DEF Sizes

\* The frames the code builds.
LEMMA FrameTyped ==
    /\ \A s \in Streams : CloseFrame(s) \in ToA \cap ToB /\ CloseFrame(s).type = "close" /\ CloseFrame(s).s = s
    /\ \A s \in Streams, n \in Sizes :
         Data(s, n) \in ToB /\ Data(s, n).type = "data" /\ Data(s, n).s = s /\ Data(s, n).n = n
    /\ \A s \in Streams, n \in 1..MaxCredit :
         /\ WindowUpdate(s, n) \in ToA /\ WindowUpdate(s, n).type = "window"
         /\ WindowUpdate(s, n).s = s /\ WindowUpdate(s, n).n = n
    /\ \A f \in ToB : /\ f.type \in {"data", "close"} /\ f.s \in Streams
                      /\ (f.type = "data" => f.n \in Sizes) /\ (f.type = "close" => f = CloseFrame(f.s))
    /\ \A f \in ToA : /\ f.type \in {"window", "close"} /\ f.s \in Streams
                      /\ (f.type = "window" => f.n \in 1..MaxCredit) /\ (f.type = "close" => f = CloseFrame(f.s))
BY WindowAssumption DEF CloseFrame, Data, WindowUpdate, ToA, ToB, Sizes

\* Every step keeps the types; the byte counter never goes below zero and a
\* grant fits into a WINDOW_UPDATE.
LEMMA FlowTypes == FlowInv /\ [Next]_vars => TypeOK'
<1> SUFFICES ASSUME FlowInv, [Next]_vars PROVE TypeOK'
  OBVIOUS
<1>t. /\ want \in [Streams -> 0..MaxFrame] /\ hold \in [Streams -> 0..MaxFrame]
      /\ credit \in [Streams -> Nat]
      /\ sinkA \subseteq Streams /\ sinkB \subseteq Streams /\ handleB \subseteq Streams
      /\ cmdA \in Seq(ToB) /\ wireAB \in Seq(ToB) /\ cmdB \in Seq(ToA) /\ wireBA \in Seq(ToA)
      /\ chan \in [Streams -> Seq(Sizes)] /\ sent \in [Streams -> Seq(Sizes)]
      /\ got \in [Streams -> Seq(Sizes)]
      /\ buffered \in [Streams -> Nat] /\ consumed \in [Streams -> Nat]
      /\ pending \in [Streams -> 0..MaxFrame] /\ resetB \subseteq Streams
  BY DEF FlowInv, TypeOK
<1>w. MaxFrame \in Nat \ {0} /\ MaxCredit \in Nat /\ Threshold \in Nat \ {0}
      /\ Threshold - 1 + MaxFrame <= MaxCredit
  BY WindowAssumption
<1>z. \A n \in 0..MaxFrame : n # 0 => n \in Sizes
  BY <1>w DEF Sizes
<1>1. ASSUME NEW s \in Streams, NEW n \in Payloads[s], SendChunk(s, n) PROVE TypeOK'
  <2>1. n \in 0..MaxFrame
    BY FlowAssumption, <1>w
  <2> QED BY <1>1, <1>t, <2>1 DEF SendChunk, TypeOK, recvVars, history
<1>2. ASSUME NEW s \in Streams, AcquireCredit(s) PROVE TypeOK'
  <2>0. want[s] \in Sizes /\ want[s] \in 0..MaxFrame
    BY <1>2, <1>t, <1>z DEF AcquireCredit
  <2>a. /\ want' = [want EXCEPT ![s] = 0]
        /\ \/ /\ credit[s] >= want[s] /\ credit' = [credit EXCEPT ![s] = credit[s] - want[s]]
              /\ hold' = [hold EXCEPT ![s] = want[s]] /\ sent' = [sent EXCEPT ![s] = Append(sent[s], want[s])]
           \/ UNCHANGED <<credit, hold, sent>>
    BY <1>2 DEF AcquireCredit
  <2>b. 0 \in 0..MaxFrame /\ (credit[s] >= want[s] => credit[s] - want[s] \in Nat)
        /\ Append(sent[s], want[s]) \in Seq(Sizes)
    BY <1>t, <1>w, <2>0
  <2>1. want' \in [Streams -> 0..MaxFrame] /\ hold' \in [Streams -> 0..MaxFrame]
    BY <1>t, <2>0, <2>a, <2>b
  <2>2. credit' \in [Streams -> Nat]
    BY <1>t, <2>a, <2>b
  <2>3. sent' \in [Streams -> Seq(Sizes)]
    BY <1>t, <2>a, <2>b
  <2> QED BY <1>2, <1>t, <2>1, <2>2, <2>3 DEF AcquireCredit, TypeOK, recvVars
<1>3. ASSUME NEW s \in Streams, QueueData(s) PROVE TypeOK'
  <2>1. Data(s, hold[s]) \in ToB
    BY <1>3, <1>t, <1>z, FrameTyped DEF QueueData
  <2>2. cmdA' \in Seq(ToB) /\ hold' \in [Streams -> 0..MaxFrame]
    BY <1>3, <1>t, <1>w, <2>1 DEF QueueData
  <2> QED BY <1>3, <1>t, <2>2 DEF QueueData, TypeOK, recvVars, history
<1>4. ASSUME NEW s \in Streams, CloseA(s) PROVE TypeOK'
  <2>1. cmdA' \in Seq(ToB)
    BY <1>4, <1>t, FrameTyped DEF CloseA
  <2> QED BY <1>4, <1>t, <2>1 DEF CloseA, TypeOK, recvVars, history
<1>5. CASE WriterA
  <2>1. cmdA' \in Seq(ToB) /\ wireAB' \in Seq(ToB) /\ sinkA' \subseteq Streams
    BY <1>5, <1>t DEF WriterA
  <2> QED BY <1>5, <1>t, <2>1 DEF WriterA, TypeOK, recvVars, history
<1>6. CASE ReaderA
  <2>0. Head(wireBA) \in ToA /\ wireBA' \in Seq(ToA)
    BY <1>6, <1>t DEF ReaderA
  <2>1. Head(wireBA).type = "window" => Head(wireBA).n \in Nat /\ Head(wireBA).s \in Streams
    BY <2>0, <1>w, FrameTyped
  <2>a. \/ UNCHANGED credit
        \/ \E s \in Streams, n \in Nat : credit' = [credit EXCEPT ![s] = credit[s] + n]
    <3>1. CASE Head(wireBA).type = "window" /\ Refill(Head(wireBA))
      <4>1. PICK s \in Streams, n \in Nat : s = Head(wireBA).s /\ n = Head(wireBA).n
        BY <2>1, <3>1
      <4>2. credit' = credit \/ credit' = [credit EXCEPT ![s] = credit[s] + IF n < MaxCredit THEN n ELSE MaxCredit]
        BY <3>1, <4>1 DEF Refill
      <4>3. PICK k \in Nat : k = IF n < MaxCredit THEN n ELSE MaxCredit
        BY <1>w
      <4> QED BY <4>2, <4>3
    <3> QED BY <1>6, <3>1 DEF ReaderA
  <2>2. credit' \in [Streams -> Nat] /\ sinkA' \subseteq Streams
    <3>1. sinkA' \subseteq Streams
      BY <1>6, <1>t DEF ReaderA
    <3>2. CASE UNCHANGED credit
      BY <1>t, <3>1, <3>2
    <3>3. ASSUME NEW s \in Streams, NEW n \in Nat, credit' = [credit EXCEPT ![s] = credit[s] + n]
          PROVE  credit' \in [Streams -> Nat]
      <4>1. credit \in [Streams -> Nat] /\ credit[s] + n \in Nat
        BY <1>t, SMTT(30)
      <4> QED BY <3>3, <4>1
    <3> QED BY <2>a, <3>1, <3>2, <3>3
  <2> QED BY <1>6, <1>t, <2>0, <2>2 DEF ReaderA, TypeOK, recvVars, history
<1>7. CASE ReaderB
  <2>0. Head(wireAB) \in ToB /\ wireAB' \in Seq(ToB)
    BY <1>7, <1>t DEF ReaderB
  <2>1. Head(wireAB).s \in Streams /\ (Head(wireAB).type = "data" => Head(wireAB).n \in Sizes)
    BY <2>0, FrameTyped
  <2>2. /\ chan' \in [Streams -> Seq(Sizes)] /\ sinkB' \subseteq Streams /\ resetB' \subseteq Streams
        /\ buffered' \in [Streams -> Nat]
    <3>1. CASE Head(wireAB).type = "data" /\ ReaderBData(Head(wireAB))
      <4>1. PICK s \in Streams, n \in Sizes : s = Head(wireAB).s /\ n = Head(wireAB).n
        BY <2>1, <3>1
      <4>2. /\ chan' = chan \/ chan' = [chan EXCEPT ![s] = Append(chan[s], n)]
            /\ buffered' = buffered \/ buffered' = [buffered EXCEPT ![s] = buffered[s] + n]
            /\ sinkB' \subseteq sinkB /\ (resetB' = resetB \/ resetB' = {s})
        BY <3>1, <4>1 DEF ReaderBData
      <4>3. Append(chan[s], n) \in Seq(Sizes) /\ buffered[s] + n \in Nat
        BY <1>t, SizesNat
      <4> QED BY <1>t, <4>2, <4>3, ZenonT(40)
    <3>2. CASE Head(wireAB).type = "close"
      BY <3>2, <1>7, <1>t DEF ReaderB
    <3> QED BY <1>7, <3>1, <3>2 DEF ReaderB
  <2> QED BY <1>7, <1>t, <2>0, <2>2 DEF ReaderB, TypeOK, history
<1>8. ASSUME NEW s \in Streams, QueueReset(s) PROVE TypeOK'
  <2>1. cmdB' \in Seq(ToA) /\ resetB' \subseteq Streams
    BY <1>8, <1>t, FrameTyped DEF QueueReset
  <2> QED BY <1>8, <1>t, <2>1 DEF QueueReset, TypeOK, recvVars, history
<1>9. ASSUME NEW s \in Streams, Dequeue(s) PROVE TypeOK'
  <2>0. Head(chan[s]) \in Sizes /\ Tail(chan[s]) \in Seq(Sizes)
    BY <1>9, <1>t DEF Dequeue
  <2>1. Head(chan[s]) \in 0..MaxFrame /\ Head(chan[s]) \in Nat
    BY <2>0, <1>w DEF Sizes
  <2>2. buffered[s] - Head(chan[s]) \in Nat
    <3>1. chan[s] \in Seq(Nat) /\ chan[s] # <<>> /\ s \in handleB
      BY <1>9, <1>t, SizesNat DEF Dequeue
    <3>2. buffered[s] = Total(chan[s])
      BY <3>1 DEF FlowInv, Counted
    <3> QED BY <3>1, <3>2, TotalTail
  <2>a. PICK n \in Nat : n = Head(chan[s])
    BY <2>1
  <2>b. /\ chan' = [chan EXCEPT ![s] = Tail(chan[s])] /\ buffered' = [buffered EXCEPT ![s] = buffered[s] - n]
        /\ consumed' = [consumed EXCEPT ![s] = consumed[s] + n] /\ pending' = [pending EXCEPT ![s] = n]
    BY <1>9, <2>a DEF Dequeue
  <2>c. buffered[s] - n \in Nat /\ consumed[s] + n \in Nat /\ n \in 0..MaxFrame
    <3>1. consumed[s] \in Nat
      BY <1>t
    <3> QED BY <2>1, <2>2, <2>a, <3>1
  <2>3. /\ chan' \in [Streams -> Seq(Sizes)] /\ buffered' \in [Streams -> Nat]
        /\ consumed' \in [Streams -> Nat] /\ pending' \in [Streams -> 0..MaxFrame]
    BY <1>t, <2>0, <2>b, <2>c
  <2> QED BY <1>9, <1>t, <2>3 DEF Dequeue, TypeOK, history
<1>10. ASSUME NEW s \in Streams, Return(s) PROVE TypeOK'
  <2>0. pending[s] \in Sizes
    BY <1>10, <1>t, <1>z DEF Return
  <2>1. consumed[s] \in Nat /\ consumed[s] <= Threshold - 1 + MaxFrame
    BY <1>t DEF FlowInv, Withheld
  <2>2. consumed[s] >= Threshold => WindowUpdate(s, consumed[s]) \in ToA
    <3>1. consumed[s] >= Threshold => consumed[s] \in 1..MaxCredit
      BY <2>1, <1>w
    <3> QED BY <3>1, FrameTyped
  <2>a. \/ UNCHANGED <<consumed, cmdB>>
        \/ /\ consumed[s] >= Threshold /\ cmdB' = Append(cmdB, WindowUpdate(s, consumed[s]))
           /\ consumed' = [consumed EXCEPT ![s] = 0]
    BY <1>10 DEF Return
  <2>3. cmdB' \in Seq(ToA) /\ consumed' \in [Streams -> Nat]
    <3>1. cmdB \in Seq(ToA) /\ consumed \in [Streams -> Nat]
      BY <1>t
    <3>2. CASE UNCHANGED <<consumed, cmdB>>
      BY <3>1, <3>2
    <3>3. CASE ~UNCHANGED <<consumed, cmdB>>
      <4>1. PICK f \in ToA : f = WindowUpdate(s, consumed[s])
        BY <2>2, <2>a, <3>3
      <4>2. cmdB' = Append(cmdB, f) /\ consumed' = [consumed EXCEPT ![s] = 0]
        BY <2>a, <3>3, <4>1
      <4> QED BY <3>1, <4>2
    <3> QED BY <3>2, <3>3
  <2>4. got' \in [Streams -> Seq(Sizes)] /\ pending' \in [Streams -> 0..MaxFrame]
    BY <1>10, <1>t, <1>w, <2>0, SMTT(30) DEF Return
  <2> QED BY <1>10, <1>t, <2>3, <2>4 DEF Return, TypeOK
<1>11. ASSUME NEW s \in Streams, DropB(s) PROVE TypeOK'
  <2>1. /\ chan' \in [Streams -> Seq(Sizes)] /\ pending' \in [Streams -> 0..MaxFrame]
        /\ handleB' \subseteq Streams
    BY <1>11, <1>t, <1>w DEF DropB
  <2> QED BY <1>11, <1>t, <2>1 DEF DropB, TypeOK, history
<1>12. CASE WriterB
  <2>1. cmdB' \in Seq(ToA) /\ wireBA' \in Seq(ToA) /\ sinkB' \subseteq Streams
    BY <1>12, <1>t DEF WriterB
  <2> QED BY <1>12, <1>t, <2>1 DEF WriterB, TypeOK, recvVars, history
<1>13. CASE UNCHANGED vars
  BY <1>13, <1>t DEF vars, TypeOK
<1> QED BY <1>1, <1>2, <1>3, <1>4, <1>5, <1>6, <1>7, <1>8, <1>9, <1>10, <1>11, <1>12, <1>13 DEF Next

\* Every step keeps the counter equal to the channel, what recv withholds
\* bounded, and a stream that is being reset unmapped.
LEMMA FlowSteps == FlowInv /\ [Next]_vars => FlowInv'
<1> SUFFICES ASSUME FlowInv, [Next]_vars PROVE FlowInv'
  OBVIOUS
<1>0. TypeOK'
  BY FlowTypes
<1>t. /\ sinkB \subseteq Streams /\ handleB \subseteq Streams
      /\ cmdA \in Seq(ToB) /\ wireAB \in Seq(ToB) /\ cmdB \in Seq(ToA) /\ wireBA \in Seq(ToA)
      /\ chan \in [Streams -> Seq(Sizes)] /\ pending \in [Streams -> 0..MaxFrame]
      /\ buffered \in [Streams -> Nat] /\ consumed \in [Streams -> Nat] /\ resetB \subseteq Streams
  BY DEF FlowInv, TypeOK
<1>w. MaxFrame \in Nat \ {0} /\ Threshold \in Nat \ {0}
  BY WindowAssumption
<1>i. Withheld /\ Counted /\ resetB \cap sinkB = {}
  BY DEF FlowInv
<1>s. ASSUME UNCHANGED recvVars, sinkB' \subseteq sinkB, resetB' \subseteq resetB PROVE FlowInv'
  BY <1>s, <1>0, <1>i DEF FlowInv, Withheld, Counted, recvVars
<1>1. ASSUME NEW s \in Streams, NEW n \in Payloads[s], SendChunk(s, n) PROVE FlowInv'
  BY <1>1, <1>s DEF SendChunk
<1>2. ASSUME NEW s \in Streams, AcquireCredit(s) PROVE FlowInv'
  BY <1>2, <1>s DEF AcquireCredit
<1>3. ASSUME NEW s \in Streams, QueueData(s) \/ CloseA(s) \/ QueueReset(s) PROVE FlowInv'
  BY <1>3, <1>s DEF QueueData, CloseA, QueueReset
<1>4. CASE WriterA \/ ReaderA \/ WriterB
  BY <1>4, <1>s DEF WriterA, ReaderA, WriterB
<1>5. CASE ReaderB
  <2>1. UNCHANGED <<consumed, pending, handleB>> /\ resetB = {}
    BY <1>5 DEF ReaderB
  <2>2. Withheld'
    BY <2>1, <1>i DEF Withheld
  <2>3. CASE UNCHANGED <<chan, buffered>> /\ (resetB' = resetB \/ resetB' \cap sinkB' = {}) /\ sinkB' \subseteq sinkB
    BY <1>0, <1>i, <2>1, <2>2, <2>3 DEF FlowInv, Counted
  <2>4. CASE ~UNCHANGED <<chan, buffered>>
    <3>0. Head(wireAB) \in ToB
      BY <1>5, <1>t DEF ReaderB
    <3>1. PICK s \in Streams, n \in Sizes :
            /\ chan' = [chan EXCEPT ![s] = Append(chan[s], n)]
            /\ buffered' = [buffered EXCEPT ![s] = buffered[s] + n]
            /\ UNCHANGED <<sinkB, resetB>>
      <4>1. Head(wireAB).type = "data" /\ ReaderBData(Head(wireAB))
        BY <1>5, <2>4 DEF ReaderB
      <4>2. PICK s \in Streams, n \in Sizes : s = Head(wireAB).s /\ n = Head(wireAB).n
        BY <3>0, <4>1, FrameTyped
      <4> QED BY <2>4, <4>1, <4>2 DEF ReaderBData
    <3>2. chan[s] \in Seq(Nat) /\ n \in Nat
      BY <1>t, SizesNat
    <3>3. Total(Append(chan[s], n)) = Total(chan[s]) + n
      BY <3>2, TotalEnds
    <3>4. Counted'
      <4> SUFFICES ASSUME NEW x \in handleB PROVE buffered'[x] = Total(chan'[x])
        BY <2>1 DEF Counted
      <4>1. x \in Streams /\ buffered[x] = Total(chan[x])
        BY <1>t, <1>i DEF Counted
      <4>2. x = s => chan'[x] = Append(chan[s], n) /\ buffered'[x] = buffered[s] + n
        BY <1>t, <3>1
      <4>3. x # s => chan'[x] = chan[x] /\ buffered'[x] = buffered[x]
        BY <1>t, <3>1, <4>1
      <4> QED BY <3>3, <4>1, <4>2, <4>3
    <3> QED BY <1>0, <1>i, <2>2, <3>1, <3>4 DEF FlowInv
  <2>5. \/ UNCHANGED <<chan, buffered>> /\ (resetB' = resetB \/ resetB' \cap sinkB' = {}) /\ sinkB' \subseteq sinkB
        \/ ~UNCHANGED <<chan, buffered>>
    BY <1>5 DEF ReaderB, ReaderBData
  <2> QED BY <2>3, <2>4, <2>5
<1>6. ASSUME NEW s \in Streams, Dequeue(s) PROVE FlowInv'
  <2>1. chan[s] \in Seq(Nat) /\ chan[s] # <<>> /\ Head(chan[s]) \in Sizes /\ s \in handleB
    BY <1>6, <1>t, SizesNat DEF Dequeue
  <2>2. PICK n \in Sizes : n = Head(chan[s])
    BY <2>1
  <2>3. /\ chan' = [chan EXCEPT ![s] = Tail(chan[s])] /\ buffered' = [buffered EXCEPT ![s] = buffered[s] - n]
        /\ consumed' = [consumed EXCEPT ![s] = consumed[s] + n] /\ pending' = [pending EXCEPT ![s] = n]
        /\ UNCHANGED <<sinkB, resetB, handleB>> /\ pending[s] = 0
    BY <1>6, <2>2 DEF Dequeue
  <2>4. n \in Nat /\ Total(Tail(chan[s])) \in Nat /\ Total(chan[s]) = n + Total(Tail(chan[s]))
    BY <2>1, <2>2, TotalTail
  <2>5. Counted'
    <3> SUFFICES ASSUME NEW x \in handleB PROVE buffered'[x] = Total(chan'[x])
      BY <2>3 DEF Counted
    <3>1. x \in Streams /\ buffered[x] = Total(chan[x])
      BY <1>t, <1>i DEF Counted
    <3>2. x = s => chan'[x] = Tail(chan[s]) /\ buffered'[x] = buffered[s] - n
      BY <1>t, <2>3
    <3>3. x # s => chan'[x] = chan[x] /\ buffered'[x] = buffered[x]
      BY <1>t, <2>3, <3>1
    <3> QED BY <2>4, <3>1, <3>2, <3>3
  <2>6. Withheld'
    <3> SUFFICES ASSUME NEW x \in Streams
                 PROVE  /\ consumed'[x] <= Threshold - 1 + MaxFrame
                        /\ x \in handleB /\ pending'[x] = 0 => consumed'[x] < Threshold
      BY <2>3 DEF Withheld
    <3>1. CASE x = s
      <4>1. consumed'[s] = consumed[s] + n /\ pending'[s] = n /\ consumed[s] \in Nat
        BY <1>t, <2>3
      <4>2. n \in 1..MaxFrame /\ consumed[s] < Threshold
        BY <1>i, <2>1, <2>3 DEF Withheld, Sizes
      <4> QED BY <1>w, <3>1, <4>1, <4>2
    <3>2. CASE x # s
      <4>1. consumed'[x] = consumed[x] /\ pending'[x] = pending[x]
        BY <1>t, <2>3, <3>2
      <4> QED BY <1>i, <4>1 DEF Withheld
    <3> QED BY <3>1, <3>2
  <2> QED BY <1>0, <1>i, <2>3, <2>5, <2>6 DEF FlowInv
<1>7. ASSUME NEW s \in Streams, Return(s) PROVE FlowInv'
  <2>1. /\ UNCHANGED <<chan, buffered, sinkB, resetB, handleB>> /\ pending' = [pending EXCEPT ![s] = 0]
        /\ \/ consumed[s] < Threshold /\ consumed' = consumed
           \/ consumed' = [consumed EXCEPT ![s] = 0]
    BY <1>7 DEF Return
  <2>2. Counted'
    BY <1>i, <2>1 DEF Counted
  <2>3. ASSUME NEW x \in Streams
        PROVE  /\ consumed'[x] <= Threshold - 1 + MaxFrame
               /\ x \in handleB /\ pending'[x] = 0 => consumed'[x] < Threshold
    <3>1. CASE x = s
      <4>1. consumed'[s] \in Nat /\ consumed'[s] < Threshold
        BY <1>t, <1>w, <2>1
      <4> QED BY <1>w, <3>1, <4>1
    <3>2. CASE x # s
      <4>1. consumed'[x] = consumed[x] /\ pending'[x] = pending[x]
        BY <1>t, <2>1, <3>2
      <4> QED BY <1>i, <4>1 DEF Withheld
    <3> QED BY <3>1, <3>2
  <2>4. Withheld'
    BY <2>1, <2>3 DEF Withheld
  <2> QED BY <1>0, <1>i, <2>1, <2>2, <2>4 DEF FlowInv
<1>8. ASSUME NEW s \in Streams, DropB(s) PROVE FlowInv'
  <2>1. /\ handleB' = handleB \ {s} /\ chan' = [chan EXCEPT ![s] = <<>>] /\ pending' = [pending EXCEPT ![s] = 0]
        /\ UNCHANGED <<buffered, consumed, sinkB, resetB>>
    BY <1>8 DEF DropB
  <2>2. \A x \in Streams : x # s => chan'[x] = chan[x] /\ pending'[x] = pending[x]
    BY <1>t, <2>1
  <2>3. Counted'
    BY <1>i, <1>t, <2>1, <2>2 DEF Counted
  <2>4. Withheld'
    BY <1>i, <1>t, <2>1, <2>2 DEF Withheld
  <2> QED BY <1>0, <1>i, <2>1, <2>3, <2>4 DEF FlowInv
<1>9. CASE UNCHANGED vars
  BY <1>9, <1>s DEF vars, recvVars
<1> QED BY <1>1, <1>2, <1>3, <1>4, <1>5, <1>6, <1>7, <1>8, <1>9 DEF Next

\* The types and the counters of the mux's streams (StreamSink, ReceiveState).
THEOREM FlowInvariance == Spec => []FlowInv
BY FlowStarts, FlowSteps, PTL DEF Spec

-----------------------------------------------------------------------------
(* Order.                                                                  *)

\* Concatenation as an operator of its own, and its laws.
Cat(a, b) == a \o b
Unit(x) == <<x>>

\* The empty sequence is neutral.
LEMMA CatSeq ==
    ASSUME NEW V, NEW a \in Seq(V), NEW b \in Seq(V)
    PROVE  Cat(a, b) \in Seq(V) /\ Cat(<<>>, a) = a /\ Cat(a, <<>>) = a
BY ConcatProperties, ConcatEmptySeq DEF Cat

\* Concatenation is associative.
LEMMA CatAssociative ==
    ASSUME NEW V, NEW a \in Seq(V), NEW b \in Seq(V), NEW c \in Seq(V)
    PROVE  Cat(Cat(a, b), c) = Cat(a, Cat(b, c))
BY ConcatAssociative DEF Cat

\* Append is concatenation with a unit.
LEMMA CatUnit ==
    ASSUME NEW V, NEW a \in Seq(V), NEW x \in V
    PROVE  Unit(x) \in Seq(V) /\ Append(a, x) = Cat(a, Unit(x))
<1>1. Unit(x) \in Seq(V)
  BY DEF Unit
<1>2. Append(a, x) = Cat(a, Unit(x))
  BY AppendIsConcat DEF Cat, Unit
<1> QED BY <1>1, <1>2

\* A sequence is its first element and the rest.
LEMMA CatHead ==
    ASSUME NEW V, NEW a \in Seq(V), a # <<>>
    PROVE  Head(a) \in V /\ Tail(a) \in Seq(V) /\ a = Cat(Unit(Head(a)), Tail(a))
BY HeadFirst DEF Cat, Unit

\* What a consumer got, has in hand, can take, and what is still to come.
Line(a, b, c, r) == Cat(a, Cat(b, Cat(c, r)))
\* What is still to come: on the wire, in the queue, in the hands of send.
Way(d, e, f) == Cat(d, Cat(e, f))

\* A chunk is sent, arrives in the channel, is taken, is returned.
LEMMA LineSent ==
    ASSUME NEW V, NEW a \in Seq(V), NEW b \in Seq(V), NEW c \in Seq(V), NEW r \in Seq(V), NEW x \in V
    PROVE  Cat(Line(a, b, c, r), Unit(x)) = Line(a, b, c, Cat(r, Unit(x)))
<1>1. Cat(c, r) \in Seq(V) /\ Unit(x) \in Seq(V)
  BY CatSeq, CatUnit
<1>2. Cat(b, Cat(c, r)) \in Seq(V)
  BY <1>1, CatSeq
<1>5. Cat(Cat(c, r), Unit(x)) = Cat(c, Cat(r, Unit(x)))
  BY <1>1, CatAssociative
<1>6. Cat(Cat(b, Cat(c, r)), Unit(x)) = Cat(b, Cat(Cat(c, r), Unit(x)))
  BY <1>1, CatAssociative
<1>7. Cat(Cat(a, Cat(b, Cat(c, r))), Unit(x)) = Cat(a, Cat(Cat(b, Cat(c, r)), Unit(x)))
  BY <1>1, <1>2, CatAssociative
<1> QED BY <1>5, <1>6, <1>7 DEF Line

\* The first chunk still to come becomes the last of the channel.
LEMMA LineArrives ==
    ASSUME NEW V, NEW a, NEW b, NEW c \in Seq(V), NEW r \in Seq(V), NEW x \in V
    PROVE  Line(a, b, c, Cat(Unit(x), r)) = Line(a, b, Append(c, x), r)
<1>1. Unit(x) \in Seq(V) /\ Append(c, x) = Cat(c, Unit(x))
  BY CatUnit
<1>2. Cat(Cat(c, Unit(x)), r) = Cat(c, Cat(Unit(x), r))
  BY <1>1, CatAssociative
<1> QED BY <1>1, <1>2 DEF Line

\* The first chunk of the channel becomes the one recv has in hand.
LEMMA LineTaken ==
    ASSUME NEW V, NEW a, NEW c \in Seq(V), NEW r \in Seq(V), NEW x \in V
    PROVE  Line(a, <<>>, Cat(Unit(x), c), r) = Line(a, Unit(x), c, r)
<1>1. Unit(x) \in Seq(V) /\ Cat(c, r) \in Seq(V)
  BY CatUnit, CatSeq
<1>2. Cat(Cat(Unit(x), c), r) = Cat(Unit(x), Cat(c, r)) /\ Cat(Unit(x), Cat(c, r)) \in Seq(V)
  BY <1>1, CatAssociative, CatSeq
<1>3. Cat(<<>>, Cat(Unit(x), Cat(c, r))) = Cat(Unit(x), Cat(c, r))
  BY <1>2, CatSeq
<1> QED BY <1>2, <1>3 DEF Line

\* The chunk recv has in hand becomes the last one returned.
LEMMA LineReturned ==
    ASSUME NEW V, NEW a \in Seq(V), NEW c \in Seq(V), NEW r \in Seq(V), NEW x \in V
    PROVE  Line(a, Unit(x), c, r) = Line(Append(a, x), <<>>, c, r)
<1>1. Unit(x) \in Seq(V) /\ Cat(c, r) \in Seq(V) /\ Append(a, x) = Cat(a, Unit(x))
  BY CatUnit, CatSeq
<1>2. Cat(Cat(a, Unit(x)), Cat(c, r)) = Cat(a, Cat(Unit(x), Cat(c, r)))
  BY <1>1, CatAssociative
<1>3. Cat(<<>>, Cat(c, r)) = Cat(c, r)
  BY <1>1, CatSeq
<1> QED BY <1>1, <1>2, <1>3 DEF Line

\* A Stream is dropped with its backlog.
LEMMA LineDropped ==
    ASSUME NEW V, NEW a \in Seq(V), NEW b \in Seq(V), NEW c \in Seq(V), NEW r \in Seq(V)
    PROVE  /\ Cat(b, Cat(c, r)) \in Seq(V)
           /\ Line(a, b, c, r) = Line(a, <<>>, <<>>, Cat(b, Cat(c, r)))
<1>1. Cat(c, r) \in Seq(V)
  BY CatSeq
<1>2. Cat(b, Cat(c, r)) \in Seq(V)
  BY <1>1, CatSeq
<1>3. Cat(<<>>, Cat(b, Cat(c, r))) = Cat(b, Cat(c, r))
  BY <1>2, CatSeq
<1> QED BY <1>2, <1>3 DEF Line

\* A chunk gets its credit, is queued, is written, is read.
LEMMA WayGranted ==
    ASSUME NEW V, NEW d \in Seq(V), NEW e \in Seq(V), NEW x \in V
    PROVE  Append(Way(d, e, <<>>), x) = Way(d, e, Unit(x))
<1>1. Unit(x) \in Seq(V) /\ Cat(e, <<>>) = e /\ Cat(d, e) \in Seq(V)
  BY CatSeq, CatUnit
<1>2. Append(Cat(d, e), x) = Cat(Cat(d, e), Unit(x)) /\ Cat(Cat(d, e), Unit(x)) = Cat(d, Cat(e, Unit(x)))
  BY <1>1, CatUnit, CatAssociative
<1> QED BY <1>1, <1>2 DEF Way

\* The chunk send holds becomes the last of the command queue.
LEMMA WayQueued ==
    ASSUME NEW V, NEW d, NEW e \in Seq(V), NEW x \in V
    PROVE  Way(d, e, Unit(x)) = Way(d, Append(e, x), <<>>)
<1>1. Unit(x) \in Seq(V) /\ Append(e, x) = Cat(e, Unit(x))
  BY CatUnit
<1>2. Cat(e, Unit(x)) \in Seq(V)
  BY <1>1, CatSeq
<1>3. Cat(Cat(e, Unit(x)), <<>>) = Cat(e, Unit(x))
  BY <1>2, CatSeq
<1> QED BY <1>1, <1>3 DEF Way

\* The first chunk of the command queue becomes the last of the wire.
LEMMA WayWritten ==
    ASSUME NEW V, NEW d \in Seq(V), NEW e \in Seq(V), NEW f \in Seq(V), NEW x \in V
    PROVE  Way(d, Cat(Unit(x), e), f) = Way(Append(d, x), e, f)
<1>1. Unit(x) \in Seq(V) /\ Cat(e, f) \in Seq(V) /\ Append(d, x) = Cat(d, Unit(x))
  BY CatSeq, CatUnit
<1>2. Cat(Cat(d, Unit(x)), Cat(e, f)) = Cat(d, Cat(Unit(x), Cat(e, f)))
  BY <1>1, CatAssociative
<1>3. Cat(Cat(Unit(x), e), f) = Cat(Unit(x), Cat(e, f))
  BY <1>1, CatAssociative
<1> QED BY <1>1, <1>2, <1>3 DEF Way

\* The first chunk of the wire is the next to come.
LEMMA WayRead ==
    ASSUME NEW V, NEW d \in Seq(V), NEW e \in Seq(V), NEW f \in Seq(V), NEW x \in V
    PROVE  /\ Way(d, e, f) \in Seq(V)
           /\ Way(Cat(Unit(x), d), e, f) = Cat(Unit(x), Way(d, e, f))
<1>1. Unit(x) \in Seq(V) /\ Cat(e, f) \in Seq(V)
  BY CatSeq, CatUnit
<1>2. Cat(d, Cat(e, f)) \in Seq(V)
  BY <1>1, CatSeq
<1>3. Cat(Cat(Unit(x), d), Cat(e, f)) = Cat(Unit(x), Cat(d, Cat(e, f)))
  BY <1>1, CatAssociative
<1> QED BY <1>2, <1>3 DEF Way

One(n) == IF n = 0 THEN <<>> ELSE Unit(n)
Flight(s) == Way(Carried(wireAB, s, "data"), Carried(cmdA, s, "data"), One(hold[s]))

\* Where the chunks of a stream are.  As long as it is mapped at B and its
\* Stream is alive, none is missing between send and recv; a stream that was
\* reset or closed still hands out its backlog, a dropped one nothing more.
Ordered(s) ==
    \E r \in Seq(Sizes) :
        /\ sent[s] = Line(got[s], One(pending[s]), chan[s], r)
        /\ s \in handleB \cap sinkB => r = Flight(s)

\* A chunk in hand, or none, is a sequence of at most one.
LEMMA OneTyped == \A n \in 0..MaxFrame : One(n) \in Seq(Sizes)
<1> TAKE n \in 0..MaxFrame
<1>1. CASE n = 0
  BY <1>1 DEF One
<1>2. CASE n # 0
  <2>1. n \in Sizes
    BY <1>2, WindowAssumption DEF Sizes
  <2> QED BY <1>2, <2>1 DEF One, Unit
<1> QED BY <1>1, <1>2

\* What is on its way to B are sizes of chunks.
LEMMA CarriedSizes ==
    ASSUME TypeOK, NEW s
    PROVE  /\ Sized(ToB, "data", Sizes)
           /\ Carried(wireAB, s, "data") \in Seq(Sizes) /\ Carried(cmdA, s, "data") \in Seq(Sizes)
<1>1. Sized(ToB, "data", Sizes)
  BY FrameTyped DEF Sized
<1> QED BY <1>1, CarriedTyped DEF TypeOK

\* A data frame of a stream joins its chunks at the back of a queue and
\* leaves them at the front; every other frame leaves them alone.
LEMMA DataJoins ==
    ASSUME NEW q \in Seq(ToB), NEW f \in ToB, NEW s
    PROVE  /\ Carried(q, s, "data") \in Seq(Sizes)
           /\ f.s = s /\ f.type = "data" =>
                f.n \in Sizes /\ Carried(Append(q, f), s, "data") = Append(Carried(q, s, "data"), f.n)
           /\ ~(f.s = s /\ f.type = "data") => Carried(Append(q, f), s, "data") = Carried(q, s, "data")
<1>1. Sized(ToB, "data", Sizes)
  BY FrameTyped DEF Sized
<1>2. Carried(q, s, "data") \in Seq(Sizes)
  BY <1>1, CarriedTyped
<1>3. Carried(Append(q, f), s, "data") = Plus(Carried(q, s, "data"), f, s, "data")
  BY <1>1, CarriedAppend
<1>4. f.type = "data" => f.n \in Sizes
  BY FrameTyped
<1> QED BY <1>2, <1>3, <1>4 DEF Plus

\* The first frame of a queue leaves.
LEMMA DataLeaves ==
    ASSUME NEW q \in Seq(ToB), q # <<>>, NEW s
    PROVE  /\ Carried(Tail(q), s, "data") \in Seq(Sizes)
           /\ Head(q).s = s /\ Head(q).type = "data" =>
                /\ Head(q).n \in Sizes
                /\ Carried(q, s, "data") = Cat(Unit(Head(q).n), Carried(Tail(q), s, "data"))
           /\ ~(Head(q).s = s /\ Head(q).type = "data") =>
                Carried(q, s, "data") = Carried(Tail(q), s, "data")
<1>1. Sized(ToB, "data", Sizes)
  BY FrameTyped DEF Sized
<1>2. Head(q) \in ToB /\ Tail(q) \in Seq(ToB)
  OBVIOUS
<1>3. Carried(q, s, "data") \in Seq(Sizes) /\ Carried(Tail(q), s, "data") \in Seq(Sizes)
  BY <1>1, <1>2, CarriedTyped
<1>4. PICK v \in Seq(Sizes), w \in Seq(Sizes) : v = Carried(q, s, "data") /\ w = Carried(Tail(q), s, "data")
  BY <1>3
<1>5. CASE Head(q).s = s /\ Head(q).type = "data"
  <2>1. v # <<>> /\ Head(v) = Head(q).n /\ Tail(v) = w
    BY <1>1, <1>4, <1>5, CarriedTail
  <2>2. v = Cat(Unit(Head(v)), Tail(v)) /\ Head(v) \in Sizes
    BY <2>1, CatHead
  <2> QED BY <1>3, <1>4, <1>5, <2>1, <2>2
<1>6. CASE ~(Head(q).s = s /\ Head(q).type = "data")
  BY <1>1, <1>3, <1>6, CarriedTail
<1> QED BY <1>5, <1>6

\* Stream::send has one chunk in hand: it waits for credit or for a slot.
OneChunk == \A s \in Streams : want[s] = 0 \/ hold[s] = 0

OrderInv == FlowInv /\ OneChunk /\ \A s \in Streams : Ordered(s)

\* A step that moves no chunk of a stream, or unmaps it, keeps its order.
LEMMA OrderKept ==
    ASSUME NEW s \in Streams, Ordered(s), UNCHANGED <<sent[s], got[s], pending[s], chan[s]>>,
           s \in handleB' \cap sinkB' => s \in handleB \cap sinkB /\ Flight(s)' = Flight(s)
    PROVE  Ordered(s)'
<1>1. PICK r \in Seq(Sizes) :
        /\ sent[s] = Line(got[s], One(pending[s]), chan[s], r)
        /\ s \in handleB \cap sinkB => r = Flight(s)
  BY DEF Ordered
<1>2. sent'[s] = Line(got'[s], One(pending'[s]), chan'[s], r)
  BY <1>1
<1>3. s \in handleB' \cap sinkB' => r = Flight(s)'
  BY <1>1
<1> QED BY <1>2, <1>3 DEF Ordered

\* What is on its way depends on the wire, the queue and send alone.
LEMMA FlightSame ==
    ASSUME NEW s, Carried(wireAB, s, "data")' = Carried(wireAB, s, "data"),
           Carried(cmdA, s, "data")' = Carried(cmdA, s, "data"), hold'[s] = hold[s]
    PROVE  Flight(s)' = Flight(s)
BY DEF Flight

\* A chunk gets its credit.
LEMMA AcquireOrder ==
    ASSUME OrderInv, NEW s \in Streams, AcquireCredit(s), NEW x \in Streams
    PROVE  Ordered(x)'
<1>t. /\ want \in [Streams -> 0..MaxFrame] /\ hold \in [Streams -> 0..MaxFrame]
      /\ sent \in [Streams -> Seq(Sizes)] /\ got \in [Streams -> Seq(Sizes)]
      /\ chan \in [Streams -> Seq(Sizes)] /\ pending \in [Streams -> 0..MaxFrame]
      /\ wireAB \in Seq(ToB) /\ cmdA \in Seq(ToB)
  BY DEF OrderInv, FlowInv, TypeOK
<1>o. Ordered(x)
  BY DEF OrderInv
<1>u. UNCHANGED <<got, chan, pending, handleB, sinkB, cmdA, wireAB>>
  BY DEF AcquireCredit, recvVars
<1>1. CASE sent'[x] = sent[x] /\ hold'[x] = hold[x]
  <2>1. Flight(x)' = Flight(x)
    BY <1>1, <1>u, FlightSame
  <2> QED BY <1>1, <1>o, <1>u, <2>1, OrderKept
<1>2. CASE ~(sent'[x] = sent[x] /\ hold'[x] = hold[x])
  <2>1. x = s /\ sent' = [sent EXCEPT ![s] = Append(sent[s], want[s])] /\ hold' = [hold EXCEPT ![s] = want[s]]
    BY <1>2, <1>t DEF AcquireCredit
  <2>2. want[s] \in Sizes /\ hold[s] = 0
    BY <1>t, WindowAssumption DEF AcquireCredit, OrderInv, OneChunk, Sizes
  <2>3. PICK n \in Sizes : n = want[s] /\ n # 0
    BY <2>2 DEF AcquireCredit
  <2>4. sent'[s] = Append(sent[s], n) /\ hold'[s] = n
    BY <1>t, <2>1, <2>3
  <2>5. PICK r \in Seq(Sizes) :
          /\ sent[s] = Line(got[s], One(pending[s]), chan[s], r)
          /\ s \in handleB \cap sinkB => r = Flight(s)
    BY <1>o, <2>1 DEF Ordered
  <2>6. got[s] \in Seq(Sizes) /\ One(pending[s]) \in Seq(Sizes) /\ chan[s] \in Seq(Sizes)
        /\ Append(r, n) \in Seq(Sizes)
    BY <1>t, OneTyped
  <2>7. sent'[s] = Line(got[s], One(pending[s]), chan[s], Append(r, n))
    <3>1. PICK a \in Seq(Sizes), b \in Seq(Sizes), c \in Seq(Sizes) :
            a = got[s] /\ b = One(pending[s]) /\ c = chan[s]
      BY <2>6
    <3>2. Cat(Line(a, b, c, r), Unit(n)) = Line(a, b, c, Cat(r, Unit(n)))
      BY LineSent
    <3>3. sent[s] \in Seq(Sizes)
      BY <1>t
    <3>4. Append(sent[s], n) = Cat(sent[s], Unit(n)) /\ Append(r, n) = Cat(r, Unit(n))
      BY <3>3, CatUnit
    <3> QED BY <2>4, <2>5, <3>1, <3>2, <3>4
  <2>8. s \in handleB \cap sinkB => Append(r, n) = Flight(s)'
    <3>1. Carried(wireAB, s, "data") \in Seq(Sizes) /\ Carried(cmdA, s, "data") \in Seq(Sizes)
      BY <1>t, CarriedSizes DEF OrderInv, FlowInv
    <3>2. PICK d \in Seq(Sizes), e \in Seq(Sizes) :
            d = Carried(wireAB, s, "data") /\ e = Carried(cmdA, s, "data")
      BY <3>1
    <3>3. Flight(s) = Way(d, e, <<>>) /\ Flight(s)' = Way(d, e, Unit(n))
      BY <1>u, <2>2, <2>3, <2>4, <3>2 DEF Flight, One
    <3>4. Append(Way(d, e, <<>>), n) = Way(d, e, Unit(n))
      BY WayGranted
    <3> QED BY <2>5, <3>3, <3>4
  <2> QED BY <1>u, <2>1, <2>6, <2>7, <2>8 DEF Ordered
<1> QED BY <1>1, <1>2

\* It takes a slot of the queue.
LEMMA QueueOrder ==
    ASSUME OrderInv, NEW s \in Streams, QueueData(s), NEW x \in Streams
    PROVE  Ordered(x)'
<1>t. hold \in [Streams -> 0..MaxFrame] /\ wireAB \in Seq(ToB) /\ cmdA \in Seq(ToB)
  BY DEF OrderInv, FlowInv, TypeOK
<1>o. Ordered(x)
  BY DEF OrderInv
<1>u. UNCHANGED <<sent, got, chan, pending, handleB, sinkB, wireAB>>
  BY DEF QueueData, recvVars, history
<1>1. PICK n \in Sizes : n = hold[s] /\ n # 0
  <2>1. hold[s] \in Sizes /\ hold[s] # 0
    BY <1>t, WindowAssumption DEF QueueData, Sizes
  <2> QED BY <2>1
<1>2. PICK f \in ToB : f = Data(s, n) /\ f.type = "data" /\ f.s = s /\ f.n = n
  BY FrameTyped
<1>3. cmdA' = Append(cmdA, f) /\ hold' = [hold EXCEPT ![s] = 0]
  BY <1>1, <1>2 DEF QueueData
<1>4. PICK d \in Seq(Sizes), e \in Seq(Sizes) :
        d = Carried(wireAB, x, "data") /\ e = Carried(cmdA, x, "data")
  BY <1>t, DataJoins, <1>2
<1>5. CASE x = s
  <2>1. Carried(Append(cmdA, f), x, "data") = Append(e, n)
    BY <1>t, <1>2, <1>4, <1>5, DataJoins
  <2>2. Flight(x) = Way(d, e, Unit(n)) /\ Flight(x)' = Way(d, Append(e, n), <<>>)
    <3>1. hold'[x] = 0 /\ hold[x] = n
      BY <1>t, <1>1, <1>3, <1>5
    <3> QED BY <1>1, <1>3, <1>4, <1>u, <2>1, <3>1 DEF Flight, One
  <2>3. Way(d, e, Unit(n)) = Way(d, Append(e, n), <<>>)
    BY WayQueued
  <2> QED BY <1>o, <1>u, <2>2, <2>3, OrderKept
<1>6. CASE x # s
  <2>1. Carried(Append(cmdA, f), x, "data") = e /\ hold'[x] = hold[x]
    BY <1>t, <1>2, <1>3, <1>4, <1>6, DataJoins
  <2>2. Flight(x)' = Flight(x)
    BY <1>3, <1>4, <1>u, <2>1, FlightSame
  <2> QED BY <1>o, <1>u, <2>2, OrderKept
<1> QED BY <1>5, <1>6

\* A CLOSE behind the chunks in the queue moves none of them.
LEMMA CloseOrder ==
    ASSUME OrderInv, NEW s \in Streams, CloseA(s), NEW x \in Streams
    PROVE  Ordered(x)'
<1>t. wireAB \in Seq(ToB) /\ cmdA \in Seq(ToB)
  BY DEF OrderInv, FlowInv, TypeOK
<1>u. UNCHANGED <<sent, got, chan, pending, handleB, sinkB, wireAB, hold>>
  BY DEF CloseA, recvVars, history
<1>2. PICK f \in ToB : f = CloseFrame(s) /\ f.type = "close"
  BY FrameTyped
<1>3. cmdA' = Append(cmdA, f)
  BY <1>2 DEF CloseA
<1>4. Carried(Append(cmdA, f), x, "data") = Carried(cmdA, x, "data")
  BY <1>t, <1>2, DataJoins
<1>5. Flight(x)' = Flight(x)
  BY <1>3, <1>4, <1>u, FlightSame
<1> QED BY <1>u, <1>5, OrderKept DEF OrderInv

\* The writer puts it on the wire.
LEMMA WriterOrder ==
    ASSUME OrderInv, WriterA, NEW x \in Streams
    PROVE  Ordered(x)'
<1>t. hold \in [Streams -> 0..MaxFrame] /\ wireAB \in Seq(ToB) /\ cmdA \in Seq(ToB) /\ cmdA # <<>>
  BY DEF OrderInv, FlowInv, TypeOK, WriterA
<1>u. UNCHANGED <<sent, got, chan, pending, handleB, sinkB, hold>>
  BY DEF WriterA, recvVars, history
<1>0. Head(cmdA) \in ToB
  BY <1>t
<1>1. PICK f \in ToB : f = Head(cmdA)
  BY <1>0
<1>2. cmdA' = Tail(cmdA) /\ wireAB' = Append(wireAB, f)
  BY <1>1 DEF WriterA
<1>3. PICK d \in Seq(Sizes), e \in Seq(Sizes), h \in Seq(Sizes) :
        d = Carried(wireAB, x, "data") /\ e = Carried(Tail(cmdA), x, "data") /\ h = One(hold[x])
  BY <1>t, <1>1, DataJoins, DataLeaves, OneTyped
<1>4. CASE f.s = x /\ f.type = "data"
  <2>1. PICK n \in Sizes : n = f.n
    BY <1>1, <1>4, DataJoins, <1>t
  <2>2. Carried(cmdA, x, "data") = Cat(Unit(n), e) /\ Carried(Append(wireAB, f), x, "data") = Append(d, n)
    BY <1>t, <1>1, <1>3, <1>4, <2>1, DataJoins, DataLeaves
  <2>3. Flight(x) = Way(d, Cat(Unit(n), e), h) /\ Flight(x)' = Way(Append(d, n), e, h)
    BY <1>2, <1>3, <1>u, <2>2 DEF Flight
  <2>4. Way(d, Cat(Unit(n), e), h) = Way(Append(d, n), e, h)
    BY WayWritten
  <2> QED BY <1>u, <2>3, <2>4, OrderKept DEF OrderInv
<1>5. CASE ~(f.s = x /\ f.type = "data")
  <2>1. Carried(cmdA, x, "data") = e /\ Carried(Append(wireAB, f), x, "data") = d
    BY <1>t, <1>1, <1>3, <1>5, DataJoins, DataLeaves
  <2>2. Flight(x)' = Flight(x)
    BY <1>2, <1>3, <1>u, <2>1, FlightSame
  <2> QED BY <1>u, <2>2, OrderKept DEF OrderInv
<1> QED BY <1>4, <1>5

\* The reader hands it to the channel, or swallows what the stream sends.
LEMMA ReaderOrder ==
    ASSUME OrderInv, ReaderB, NEW x \in Streams
    PROVE  Ordered(x)'
<1>t. /\ hold \in [Streams -> 0..MaxFrame] /\ wireAB \in Seq(ToB) /\ cmdA \in Seq(ToB) /\ wireAB # <<>>
      /\ chan \in [Streams -> Seq(Sizes)]
  BY DEF OrderInv, FlowInv, TypeOK, ReaderB
<1>o. Ordered(x)
  BY DEF OrderInv
<1>u. UNCHANGED <<sent, got, pending, handleB, hold, cmdA>> /\ wireAB' = Tail(wireAB)
  BY DEF ReaderB, history
<1>0. Head(wireAB) \in ToB
  BY <1>t
<1>1. PICK f \in ToB : f = Head(wireAB)
  BY <1>0
<1>2. PICK d \in Seq(Sizes), e \in Seq(Sizes), h \in Seq(Sizes) :
        d = Carried(Tail(wireAB), x, "data") /\ e = Carried(cmdA, x, "data") /\ h = One(hold[x])
  BY <1>t, <1>1, DataJoins, DataLeaves, OneTyped
<1>3. CASE ~(f.s = x /\ f.type = "data")
  <2>1. Carried(wireAB, x, "data") = d
    BY <1>t, <1>1, <1>2, <1>3, DataLeaves
  <2>2. Flight(x)' = Flight(x)
    BY <1>2, <1>u, <2>1, FlightSame
  <2>3. chan'[x] = chan[x] /\ (x \in sinkB' => x \in sinkB)
    BY <1>t, <1>1, <1>3, FrameTyped DEF ReaderB, ReaderBData
  <2> QED BY <1>o, <1>u, <2>2, <2>3, OrderKept
<1>4. CASE f.s = x /\ f.type = "data"
  <2>0. ReaderBData(f)
    BY <1>1, <1>4 DEF ReaderB
  <2>1. CASE x \in sinkB /\ Fits(x, f.n)
    <3>1. PICK n \in Sizes : n = f.n
      BY <1>4, FrameTyped
    <3>2. x \in handleB \cap sinkB /\ chan' = [chan EXCEPT ![x] = Append(chan[x], n)]
      BY <1>4, <2>0, <2>1, <3>1 DEF ReaderBData, Fits
    <3>3. Carried(wireAB, x, "data") = Cat(Unit(n), d)
      BY <1>t, <1>1, <1>2, <1>4, <3>1, DataLeaves
    <3>4. Flight(x) = Way(Cat(Unit(n), d), e, h) /\ Flight(x)' = Way(d, e, h)
      BY <1>2, <1>u, <3>3 DEF Flight
    <3>5. PICK w \in Seq(Sizes) : w = Way(d, e, h) /\ Way(Cat(Unit(n), d), e, h) = Cat(Unit(n), w)
      BY WayRead
    <3>6. sent[x] = Line(got[x], One(pending[x]), chan[x], Cat(Unit(n), w))
      BY <1>o, <3>2, <3>4, <3>5 DEF Ordered
    <3>7. PICK c \in Seq(Sizes) : c = chan[x] /\ chan'[x] = Append(c, n)
      BY <1>t, <3>2
    <3>8. PICK a, b : a = got[x] /\ b = One(pending[x])
      OBVIOUS
    <3>9. Line(a, b, c, Cat(Unit(n), w)) = Line(a, b, Append(c, n), w)
      BY LineArrives
    <3>10. sent'[x] = Line(got'[x], One(pending'[x]), chan'[x], w)
      BY <1>u, <3>6, <3>7, <3>8, <3>9
    <3> QED BY <3>4, <3>5, <3>10 DEF Ordered
  <2>2. CASE ~(x \in sinkB /\ Fits(x, f.n))
    <3>1. chan' = chan /\ x \notin sinkB'
      BY <1>4, <2>0, <2>2 DEF ReaderBData
    <3> QED BY <1>o, <1>u, <3>1, OrderKept
  <2> QED BY <2>1, <2>2
<1> QED BY <1>3, <1>4

\* recv takes it.
LEMMA DequeueOrder ==
    ASSUME OrderInv, NEW s \in Streams, Dequeue(s), NEW x \in Streams
    PROVE  Ordered(x)'
<1>t. chan \in [Streams -> Seq(Sizes)] /\ pending \in [Streams -> 0..MaxFrame]
  BY DEF OrderInv, FlowInv, TypeOK
<1>o. Ordered(x)
  BY DEF OrderInv
<1>u. UNCHANGED <<sent, got, handleB, sinkB, hold, cmdA, wireAB>>
  BY DEF Dequeue, history
<1>f. Flight(x)' = Flight(x)
  BY <1>u DEF Flight
<1>1. CASE x # s
  <2>1. chan'[x] = chan[x] /\ pending'[x] = pending[x]
    BY <1>t, <1>1 DEF Dequeue
  <2> QED BY <1>o, <1>u, <1>f, <2>1, OrderKept
<1>2. CASE x = s
  <2>1. chan[s] \in Seq(Sizes) /\ chan[s] # <<>> /\ pending[s] = 0
    BY <1>t DEF Dequeue
  <2>2. PICK n \in Sizes, c \in Seq(Sizes) :
          n = Head(chan[s]) /\ c = Tail(chan[s]) /\ chan[s] = Cat(Unit(n), c)
    BY <2>1, CatHead
  <2>3. chan'[s] = c /\ pending'[s] = n
    BY <1>t, <2>2 DEF Dequeue
  <2>4. n # 0
    BY WindowAssumption DEF Sizes
  <2>5. PICK r \in Seq(Sizes) :
          /\ sent[s] = Line(got[s], One(pending[s]), chan[s], r)
          /\ s \in handleB \cap sinkB => r = Flight(s)
    BY <1>o, <1>2 DEF Ordered
  <2>6. PICK a : a = got[s]
    OBVIOUS
  <2>7. Line(a, <<>>, Cat(Unit(n), c), r) = Line(a, Unit(n), c, r)
    BY LineTaken
  <2>8. One(pending[s]) = <<>> /\ One(pending'[s]) = Unit(n)
    BY <2>1, <2>3, <2>4 DEF One
  <2>9. sent'[s] = Line(got'[s], One(pending'[s]), chan'[s], r)
    BY <1>u, <2>2, <2>3, <2>5, <2>6, <2>7, <2>8
  <2> QED BY <1>2, <1>u, <1>f, <2>5, <2>9 DEF Ordered
<1> QED BY <1>1, <1>2

\* recv returns it.
LEMMA ReturnOrder ==
    ASSUME OrderInv, NEW s \in Streams, Return(s), NEW x \in Streams
    PROVE  Ordered(x)'
<1>t. /\ chan \in [Streams -> Seq(Sizes)] /\ pending \in [Streams -> 0..MaxFrame]
      /\ got \in [Streams -> Seq(Sizes)]
  BY DEF OrderInv, FlowInv, TypeOK
<1>o. Ordered(x)
  BY DEF OrderInv
<1>u. UNCHANGED <<sent, chan, handleB, sinkB, hold, cmdA, wireAB>>
  BY DEF Return
<1>f. Flight(x)' = Flight(x)
  BY <1>u DEF Flight
<1>1. CASE x # s
  <2>1. got'[x] = got[x] /\ pending'[x] = pending[x]
    BY <1>t, <1>1 DEF Return
  <2> QED BY <1>o, <1>u, <1>f, <2>1, OrderKept
<1>2. CASE x = s
  <2>1. pending[s] \in Sizes /\ pending[s] # 0
    BY <1>t, WindowAssumption DEF Return, Sizes
  <2>2. PICK n \in Sizes, a \in Seq(Sizes), c \in Seq(Sizes) :
          n = pending[s] /\ a = got[s] /\ c = chan[s]
    BY <1>t, <2>1
  <2>3. got'[s] = Append(a, n) /\ pending'[s] = 0
    BY <1>t, <2>2 DEF Return
  <2>5. PICK r \in Seq(Sizes) :
          /\ sent[s] = Line(got[s], One(pending[s]), chan[s], r)
          /\ s \in handleB \cap sinkB => r = Flight(s)
    BY <1>o, <1>2 DEF Ordered
  <2>7. Line(a, Unit(n), c, r) = Line(Append(a, n), <<>>, c, r)
    BY LineReturned
  <2>8. One(pending[s]) = Unit(n) /\ One(pending'[s]) = <<>>
    BY <2>1, <2>2, <2>3 DEF One
  <2>9. sent'[s] = Line(got'[s], One(pending'[s]), chan'[s], r)
    BY <1>u, <2>2, <2>3, <2>5, <2>7, <2>8
  <2> QED BY <1>2, <1>u, <1>f, <2>5, <2>9 DEF Ordered
<1> QED BY <1>1, <1>2

\* A dropped Stream takes its backlog with it and gets nothing more.
LEMMA DropOrder ==
    ASSUME OrderInv, NEW s \in Streams, DropB(s), NEW x \in Streams
    PROVE  Ordered(x)'
<1>t. /\ chan \in [Streams -> Seq(Sizes)] /\ pending \in [Streams -> 0..MaxFrame]
      /\ got \in [Streams -> Seq(Sizes)]
  BY DEF OrderInv, FlowInv, TypeOK
<1>o. Ordered(x)
  BY DEF OrderInv
<1>u. UNCHANGED <<sent, got, sinkB, hold, cmdA, wireAB>> /\ handleB' = handleB \ {s}
  BY DEF DropB, history
<1>f. Flight(x)' = Flight(x)
  BY <1>u DEF Flight
<1>1. CASE x # s
  <2>1. chan'[x] = chan[x] /\ pending'[x] = pending[x]
    BY <1>t, <1>1 DEF DropB
  <2> QED BY <1>o, <1>u, <1>f, <2>1, OrderKept
<1>2. CASE x = s
  <2>1. One(pending[s]) \in Seq(Sizes) /\ chan[s] \in Seq(Sizes)
    BY <1>t, OneTyped
  <2>2. PICK a \in Seq(Sizes), b \in Seq(Sizes), c \in Seq(Sizes) :
          a = got[s] /\ b = One(pending[s]) /\ c = chan[s]
    BY <1>t, <2>1
  <2>3. chan'[s] = <<>> /\ pending'[s] = 0 /\ One(pending'[s]) = <<>>
    BY <1>t DEF DropB, One
  <2>5. PICK r \in Seq(Sizes) : sent[s] = Line(got[s], One(pending[s]), chan[s], r)
    BY <1>o, <1>2 DEF Ordered
  <2>6. PICK w \in Seq(Sizes) : Line(a, b, c, r) = Line(a, <<>>, <<>>, w)
    <3>1. /\ Cat(b, Cat(c, r)) \in Seq(Sizes)
          /\ Line(a, b, c, r) = Line(a, <<>>, <<>>, Cat(b, Cat(c, r)))
      BY LineDropped
    <3> QED BY <3>1
  <2>7. sent'[s] = Line(got'[s], One(pending'[s]), chan'[s], w)
    BY <1>u, <2>2, <2>3, <2>5, <2>6
  <2>8. s \notin handleB'
    BY <1>u
  <2> QED BY <1>2, <2>7, <2>8 DEF Ordered
<1> QED BY <1>1, <1>2

\* At first nothing was sent.
LEMMA OrderStarts == Init => OrderInv
<1> SUFFICES ASSUME Init PROVE OrderInv
  OBVIOUS
<1>1. FlowInv /\ OneChunk
  BY FlowStarts DEF Init, OneChunk
<1>2. ASSUME NEW s \in Streams PROVE Ordered(s)
  <2>1. <<>> \in Seq(Sizes)
    OBVIOUS
  <2>2. Cat(<<>>, <<>>) = <<>>
    BY <2>1, CatSeq
  <2>3. Line(<<>>, <<>>, <<>>, <<>>) = <<>> /\ Way(<<>>, <<>>, <<>>) = <<>>
    BY <2>2 DEF Line, Way
  <2>4. Flight(s) = <<>>
    BY <2>3, CarriedEmpty DEF Init, Flight, One
  <2>5. sent[s] = Line(got[s], One(pending[s]), chan[s], <<>>)
    BY <2>3 DEF Init, One
  <2> QED BY <2>1, <2>4, <2>5 DEF Ordered
<1> QED BY <1>1, <1>2 DEF OrderInv

\* No step loses, repeats or swaps a chunk of a mapped stream.
LEMMA OrderSteps == OrderInv /\ [Next]_vars => OrderInv'
<1> SUFFICES ASSUME OrderInv, [Next]_vars PROVE OrderInv'
  OBVIOUS
<1>0. FlowInv'
  BY FlowSteps DEF OrderInv
<1>1. OneChunk'
  <2>t. want \in [Streams -> 0..MaxFrame] /\ hold \in [Streams -> 0..MaxFrame] /\ OneChunk
    BY DEF OrderInv, FlowInv, TypeOK
  <2>1. ASSUME NEW s \in Streams, (\E n \in Payloads[s] : SendChunk(s, n)) \/ AcquireCredit(s) \/ QueueData(s)
        PROVE  OneChunk'
    BY <2>1, <2>t DEF SendChunk, AcquireCredit, QueueData, OneChunk
  <2>2. CASE UNCHANGED <<want, hold>>
    BY <2>2, <2>t DEF OneChunk
  <2>3. ASSUME NEW s \in Streams, CloseA(s) \/ Dequeue(s) \/ Return(s) \/ QueueReset(s) \/ DropB(s)
        PROVE  UNCHANGED <<want, hold>>
    BY <2>3 DEF CloseA, Dequeue, Return, QueueReset, DropB
  <2>4. CASE WriterA \/ ReaderA \/ WriterB \/ ReaderB \/ UNCHANGED vars
    BY <2>2, <2>4 DEF WriterA, ReaderA, WriterB, ReaderB, vars
  <2> QED BY <2>1, <2>2, <2>3, <2>4 DEF Next
<1>2. ASSUME NEW x \in Streams PROVE Ordered(x)'
  <2>1. CASE /\ UNCHANGED <<sent, got, pending, chan, handleB, hold, cmdA, wireAB>> /\ sinkB' \subseteq sinkB
    <3>1. Flight(x)' = Flight(x)
      BY <2>1 DEF Flight
    <3> QED BY <2>1, <3>1, OrderKept DEF OrderInv
  <2>2. ASSUME NEW s \in Streams, NEW n \in Payloads[s], SendChunk(s, n) PROVE Ordered(x)'
    BY <2>1, <2>2 DEF SendChunk, recvVars, history
  <2>3. ASSUME NEW s \in Streams, QueueReset(s) PROVE Ordered(x)'
    BY <2>1, <2>3 DEF QueueReset, recvVars, history
  <2>4. CASE ReaderA \/ WriterB
    BY <2>1, <2>4 DEF ReaderA, WriterB, recvVars, history
  <2>5. CASE UNCHANGED vars
    BY <2>1, <2>5 DEF vars
  <2> QED BY <2>2, <2>3, <2>4, <2>5, AcquireOrder, QueueOrder, CloseOrder, WriterOrder, ReaderOrder,
             DequeueOrder, ReturnOrder, DropOrder DEF Next
<1> QED BY <1>0, <1>1, <1>2 DEF OrderInv

\* What a consumer returned is the beginning of what was sent.
LEMMA PrefixOfLine ==
    ASSUME NEW V, NEW a \in Seq(V), NEW b \in Seq(V), NEW c \in Seq(V), NEW r \in Seq(V)
    PROVE  IsPrefix(a, Line(a, b, c, r))
<1>1. Cat(c, r) \in Seq(V)
  BY CatSeq
<1>2. PICK u \in Seq(V) : u = Cat(b, Cat(c, r))
  BY <1>1, CatSeq
<1>3. Line(a, b, c, r) = a \o u
  BY <1>2 DEF Line, Cat
<1>4. Len(a \o u) = Len(a) + Len(u) /\ Len(a) \in Nat /\ Len(u) \in Nat /\ a \o u \in Seq(V)
  BY ConcatProperties
<1>5. SubSeq(a \o u, 1, Len(a)) = SubSeq(a, 1, Len(a))
  <2>1. CASE Len(a) = 0
    BY <1>4, <2>1
  <2>2. CASE Len(a) # 0
    <3>1. 1 \in 1..Len(a) /\ Len(a) \in 1..Len(a)
      BY <1>4, <2>2
    <3> QED BY <3>1, SubSeqOfConcat1
  <2> QED BY <2>1, <2>2
<1> QED BY <1>3, <1>4, <1>5 DEF IsPrefix

\* mux.rs Stream::recv: for any number of streams, any window, queue and
\* channel sizes, a consumer gets a prefix of what was sent on its stream, in
\* order, across cancelled receives, resets, closes and drops.
THEOREM DeliveredInOrder == Spec => []InOrder
<1>1. OrderInv => InOrder
  <2> SUFFICES ASSUME OrderInv, NEW s \in Streams PROVE IsPrefix(got[s], sent[s])
    BY DEF InOrder
  <2>1. got[s] \in Seq(Sizes) /\ chan[s] \in Seq(Sizes) /\ pending[s] \in 0..MaxFrame
    BY DEF OrderInv, FlowInv, TypeOK
  <2>2. PICK a \in Seq(Sizes), b \in Seq(Sizes), c \in Seq(Sizes) :
          a = got[s] /\ b = One(pending[s]) /\ c = chan[s]
    BY <2>1, OneTyped
  <2>3. PICK r \in Seq(Sizes) : sent[s] = Line(got[s], One(pending[s]), chan[s], r)
    BY DEF OrderInv, Ordered
  <2>4. IsPrefix(a, Line(a, b, c, r))
    BY PrefixOfLine
  <2> QED BY <2>2, <2>3, <2>4
<1> QED BY <1>1, OrderStarts, OrderSteps, PTL DEF Spec

-----------------------------------------------------------------------------
(* The streams of a mux implement CreditWindow.                            *)

\* The accounts of the probed stream that several queues make up.
Inflight  == hold[Probe] + Bytes(cmdA, Probe, "data") + Bytes(wireAB, Probe, "data")
Returning == Bytes(cmdB, Probe, "window") + Bytes(wireBA, Probe, "window")

\* A stream that is whole after a step was whole before it.
LEMMA WholeBefore == FlowInv /\ [Next]_vars /\ Whole(Probe)' => Whole(Probe)
<1> SUFFICES ASSUME FlowInv, [Next]_vars, Whole(Probe)' PROVE Whole(Probe)
  OBVIOUS
<1>t. /\ cmdA \in Seq(ToB) /\ wireAB \in Seq(ToB) /\ cmdB \in Seq(ToA) /\ wireBA \in Seq(ToA)
      /\ Probe \in Streams
  BY FlowAssumption DEF FlowInv, TypeOK
<1>f. PICK f : f = CloseFrame(Probe) /\ f \in ToA /\ f \in ToB /\ f.type = "close" /\ f.s = Probe
  BY <1>t, FrameTyped
<1>a. /\ Probe \in sinkA' /\ Probe \in sinkB' /\ Probe \in handleB' /\ Probe \notin resetB'
      /\ f \notin Range(cmdA') /\ f \notin Range(cmdB') /\ f \notin Range(wireAB') /\ f \notin Range(wireBA')
  BY <1>f DEF Whole
<1>b. SUFFICES /\ Probe \in sinkA /\ Probe \in sinkB /\ Probe \in handleB /\ Probe \notin resetB
               /\ f \notin Range(cmdA) /\ f \notin Range(cmdB) /\ f \notin Range(wireAB) /\ f \notin Range(wireBA)
  BY <1>f DEF Whole
<1>1. ASSUME NEW s \in Streams, NEW n \in Payloads[s], SendChunk(s, n)
      PROVE  UNCHANGED <<sinkA, sinkB, handleB, resetB, cmdA, cmdB, wireAB, wireBA>>
  BY <1>1 DEF SendChunk, recvVars
<1>2. ASSUME NEW s \in Streams, AcquireCredit(s) \/ Dequeue(s)
      PROVE  UNCHANGED <<sinkA, sinkB, handleB, resetB, cmdA, cmdB, wireAB, wireBA>>
  BY <1>2 DEF AcquireCredit, Dequeue, recvVars
<1>3. ASSUME NEW s \in Streams, QueueData(s) \/ CloseA(s)
      PROVE  /\ UNCHANGED <<sinkA, sinkB, handleB, resetB, cmdB, wireAB, wireBA>>
             /\ f \in Range(cmdA) => f \in Range(cmdA')
  <2>1. UNCHANGED <<sinkA, sinkB, handleB, resetB, cmdB, wireAB, wireBA>>
    BY <1>3 DEF QueueData, CloseA, recvVars
  <2>2. \E g \in ToB : cmdA' = Append(cmdA, g)
    <3>1. QueueData(s) => hold[s] \in Sizes
      BY WindowAssumption DEF QueueData, FlowInv, TypeOK, Sizes
    <3> QED BY <1>3, <3>1, FrameTyped DEF QueueData, CloseA
  <2>3. PICK g \in ToB : cmdA' = Append(cmdA, g)
    BY <2>2
  <2>4. Range(Append(cmdA, g)) = Range(cmdA) \cup {g}
    BY <1>t, RangeAppend
  <2> QED BY <2>1, <2>3, <2>4
<1>4. ASSUME NEW s \in Streams, Return(s)
      PROVE  /\ UNCHANGED <<sinkA, sinkB, handleB, resetB, cmdA, wireAB, wireBA>>
             /\ f \in Range(cmdB) => f \in Range(cmdB')
  <2>1. UNCHANGED <<sinkA, sinkB, handleB, resetB, cmdA, wireAB, wireBA>>
    BY <1>4 DEF Return
  <2>2. CASE cmdB' = cmdB
    BY <2>1, <2>2
  <2>3. CASE cmdB' # cmdB
    <3>1. consumed[s] \in 1..MaxCredit /\ cmdB' = Append(cmdB, WindowUpdate(s, consumed[s]))
      <4>1. consumed[s] >= Threshold /\ cmdB' = Append(cmdB, WindowUpdate(s, consumed[s]))
        BY <1>4, <2>3 DEF Return
      <4>2. consumed[s] \in Nat /\ consumed[s] <= Threshold - 1 + MaxFrame
        BY DEF FlowInv, TypeOK, Withheld
      <4> QED BY <4>1, <4>2, WindowAssumption
    <3>2. PICK g \in ToA : g = WindowUpdate(s, consumed[s])
      BY <3>1, FrameTyped
    <3>3. Range(Append(cmdB, g)) = Range(cmdB) \cup {g}
      BY <1>t, RangeAppend
    <3> QED BY <2>1, <3>1, <3>2, <3>3
  <2> QED BY <2>2, <2>3
<1>5. ASSUME NEW s \in Streams, QueueReset(s)
      PROVE  /\ UNCHANGED <<sinkA, sinkB, handleB, cmdA, wireAB, wireBA>>
             /\ f \notin Range(cmdB) /\ Probe \notin resetB
  <2>1. UNCHANGED <<sinkA, sinkB, handleB, cmdA, wireAB, wireBA>> /\ resetB' = resetB \ {s}
    BY <1>5 DEF QueueReset, recvVars
  <2>2. PICK g \in ToA : g = CloseFrame(s) /\ g.s = s
    BY FrameTyped
  <2>3. cmdB' = Append(cmdB, g)
    BY <1>5, <2>2 DEF QueueReset
  <2>4. Range(Append(cmdB, g)) = Range(cmdB) \cup {g}
    BY <1>t, RangeAppend
  <2>5. s # Probe /\ f \notin Range(cmdB)
    BY <1>a, <1>f, <2>2, <2>3, <2>4
  <2> QED BY <1>a, <2>1, <2>5
<1>6. ASSUME NEW s \in Streams, DropB(s)
      PROVE  UNCHANGED <<sinkA, sinkB, resetB, cmdA, cmdB, wireAB, wireBA>> /\ Probe \in handleB
  BY <1>6, <1>a DEF DropB
<1>7. CASE WriterA
  <2>1. UNCHANGED <<sinkB, handleB, resetB, cmdB, wireBA>> /\ Probe \in sinkA /\ cmdA # <<>>
    BY <1>7, <1>a DEF WriterA, recvVars
  <2>2. Head(cmdA) \in ToB /\ Range(cmdA) = {Head(cmdA)} \cup Range(Tail(cmdA))
    BY <1>t, <2>1, RangeTail
  <2>3. PICK g \in ToB : g = Head(cmdA)
    BY <2>2
  <2>4. cmdA' = Tail(cmdA) /\ wireAB' = Append(wireAB, g)
    BY <1>7, <2>3 DEF WriterA
  <2>5. Range(Append(wireAB, g)) = Range(wireAB) \cup {g}
    BY <1>t, RangeAppend
  <2> QED BY <1>a, <2>1, <2>2, <2>3, <2>4, <2>5
<1>8. CASE WriterB
  <2>1. UNCHANGED <<sinkA, handleB, resetB, cmdA, wireAB>> /\ Probe \in sinkB /\ cmdB # <<>>
    BY <1>8, <1>a DEF WriterB, recvVars
  <2>2. Head(cmdB) \in ToA /\ Range(cmdB) = {Head(cmdB)} \cup Range(Tail(cmdB))
    BY <1>t, <2>1, RangeTail
  <2>3. PICK g \in ToA : g = Head(cmdB)
    BY <2>2
  <2>4. cmdB' = Tail(cmdB) /\ wireBA' = Append(wireBA, g)
    BY <1>8, <2>3 DEF WriterB
  <2>5. Range(Append(wireBA, g)) = Range(wireBA) \cup {g}
    BY <1>t, RangeAppend
  <2> QED BY <1>a, <2>1, <2>2, <2>3, <2>4, <2>5
<1>9. CASE ReaderA
  <2>1. UNCHANGED <<sinkB, handleB, resetB, cmdA, cmdB, wireAB>> /\ Probe \in sinkA /\ wireBA # <<>>
        /\ wireBA' = Tail(wireBA)
    BY <1>9, <1>a DEF ReaderA, recvVars
  <2>2. Head(wireBA) \in ToA /\ Range(wireBA) = {Head(wireBA)} \cup Range(Tail(wireBA))
    BY <1>t, <2>1, RangeTail
  <2>3. Head(wireBA) # f
    BY <1>9, <1>a, <1>f DEF ReaderA
  <2> QED BY <1>a, <2>1, <2>2, <2>3
<1>10. CASE ReaderB
  <2>1. /\ UNCHANGED <<sinkA, handleB, cmdA, cmdB, wireBA>> /\ Probe \in sinkB /\ wireAB # <<>>
        /\ wireAB' = Tail(wireAB) /\ resetB = {}
    BY <1>10, <1>a DEF ReaderB, ReaderBData
  <2>2. Head(wireAB) \in ToB /\ Range(wireAB) = {Head(wireAB)} \cup Range(Tail(wireAB))
    BY <1>t, <2>1, RangeTail
  <2>3. Head(wireAB) # f
    BY <1>10, <1>a, <1>f DEF ReaderB
  <2> QED BY <1>a, <2>1, <2>2, <2>3
<1>11. CASE UNCHANGED vars
  BY <1>11, <1>a DEF vars
<1> QED BY <1>a, <1>1, <1>2, <1>3, <1>4, <1>5, <1>6, <1>7, <1>8, <1>9, <1>10, <1>11 DEF Next

\* What a step may do to the accounts of the probed stream: nothing, or one
\* transfer of CreditWindow.
Transfer ==
    \/ UNCHANGED <<credit[Probe], Inflight, buffered[Probe], consumed[Probe], Returning>>
    \/ \E n \in 1..MaxFrame :
         /\ n <= credit[Probe] /\ credit'[Probe] = credit[Probe] - n /\ Inflight' = Inflight + n
         /\ UNCHANGED <<buffered[Probe], consumed[Probe], Returning>>
    \/ \E n \in 1..MaxFrame :
         /\ n <= Inflight /\ Inflight' = Inflight - n /\ buffered'[Probe] = buffered[Probe] + n
         /\ UNCHANGED <<credit[Probe], consumed[Probe], Returning>>
    \/ \E n \in 1..MaxFrame :
         /\ n <= buffered[Probe] /\ consumed[Probe] < Threshold
         /\ buffered'[Probe] = buffered[Probe] - n /\ consumed'[Probe] = consumed[Probe] + n
         /\ UNCHANGED <<credit[Probe], Inflight, Returning>>
    \/ /\ consumed[Probe] >= Threshold /\ consumed'[Probe] = 0
       /\ Returning' = Returning + consumed[Probe]
       /\ UNCHANGED <<credit[Probe], Inflight, buffered[Probe]>>
    \/ \E n \in 1..MaxCredit :
         /\ n <= Returning /\ Returning' = Returning - n /\ credit'[Probe] = credit[Probe] + n
         /\ UNCHANGED <<Inflight, buffered[Probe], consumed[Probe]>>

\* A transfer on a stream that stays whole is a step of CreditWindow, and so
\* is the end of a whole stream.
LEMMA TransferSteps ==
    ASSUME Whole(Probe), Whole(Probe)', Transfer
    PROVE  [Window!Next]_(Window!vars)
<1>1. /\ Account(Probe, credit[Probe]) = credit[Probe] /\ Account(Probe, Inflight) = Inflight
      /\ Account(Probe, buffered[Probe]) = buffered[Probe]
      /\ Account(Probe, consumed[Probe]) = consumed[Probe] /\ Account(Probe, Returning) = Returning
  BY DEF Account
<1>2. /\ Account(Probe, credit[Probe])' = credit'[Probe] /\ Account(Probe, Inflight)' = Inflight'
      /\ Account(Probe, buffered[Probe])' = buffered'[Probe]
      /\ Account(Probe, consumed[Probe])' = consumed'[Probe] /\ Account(Probe, Returning)' = Returning'
  BY DEF Account
<1>3. CASE UNCHANGED <<credit[Probe], Inflight, buffered[Probe], consumed[Probe], Returning>>
  BY <1>1, <1>2, <1>3 DEF Window!vars, Inflight, Returning
<1>4. ASSUME NEW n \in 1..MaxFrame, n <= credit[Probe], credit'[Probe] = credit[Probe] - n,
             Inflight' = Inflight + n, UNCHANGED <<buffered[Probe], consumed[Probe], Returning>>
      PROVE  Window!Spend(n)
  BY <1>1, <1>2, <1>4 DEF Window!Spend, Inflight, Returning
<1>5. ASSUME NEW n \in 1..MaxFrame, n <= Inflight, Inflight' = Inflight - n,
             buffered'[Probe] = buffered[Probe] + n, UNCHANGED <<credit[Probe], consumed[Probe], Returning>>
      PROVE  Window!Arrive(n)
  BY <1>1, <1>2, <1>5 DEF Window!Arrive, Inflight, Returning
<1>6. ASSUME NEW n \in 1..MaxFrame, n <= buffered[Probe], consumed[Probe] < Threshold,
             buffered'[Probe] = buffered[Probe] - n, consumed'[Probe] = consumed[Probe] + n,
             UNCHANGED <<credit[Probe], Inflight, Returning>>
      PROVE  Window!Drain(n)
  BY <1>1, <1>2, <1>6 DEF Window!Drain, Inflight, Returning
<1>7. ASSUME consumed[Probe] >= Threshold, consumed'[Probe] = 0, Returning' = Returning + consumed[Probe],
             UNCHANGED <<credit[Probe], Inflight, buffered[Probe]>>
      PROVE  Window!Grant
  BY <1>1, <1>2, <1>7 DEF Window!Grant, Inflight, Returning
<1>8. ASSUME NEW n \in 1..MaxCredit, n <= Returning, Returning' = Returning - n,
             credit'[Probe] = credit[Probe] + n, UNCHANGED <<Inflight, buffered[Probe], consumed[Probe]>>
      PROVE  Window!Credited(n)
  <2>1. n <= MaxCredit
    BY WindowAssumption
  <2> QED BY <1>1, <1>2, <1>8, <2>1 DEF Window!Credited, Inflight, Returning
<1> QED BY <1>3, <1>4, <1>5, <1>6, <1>7, <1>8 DEF Transfer, Window!Next

\* A stream that is not whole has closed accounts: Close, or nothing.
LEMMA EndSteps ==
    ASSUME ~Whole(Probe)'
    PROVE  [Window!Next]_(Window!vars)
<1>1. \A n : (~Whole(Probe) => Account(Probe, n) = 0)
  BY DEF Account
<1>2. /\ Account(Probe, credit[Probe])' = 0 /\ Account(Probe, Inflight)' = 0
      /\ Account(Probe, buffered[Probe])' = 0
      /\ Account(Probe, consumed[Probe])' = 0 /\ Account(Probe, Returning)' = 0
  BY DEF Account
<1>3. CASE Whole(Probe)
  <2>1. Whole(Probe)' = FALSE
    BY DEF Whole
  <2>2. Window!Close
    BY <1>2, <1>3, <2>1 DEF Window!Close, Inflight, Returning
  <2> QED BY <2>2 DEF Window!Next
<1>4. CASE ~Whole(Probe)
  <2>1. Whole(Probe)' = Whole(Probe)
    BY <1>4 DEF Whole
  <2> QED BY <1>1, <1>2, <1>4, <2>1 DEF Window!vars, Inflight, Returning
<1> QED BY <1>3, <1>4

\* DATA and WINDOW_UPDATE frames carry numbers.
LEMMA FramesSized == Sized(ToB, "data", Nat) /\ Sized(ToA, "window", Nat)
<1>1. \A f \in ToB : f.type = "data" => f.n \in Nat
  BY FrameTyped, SizesNat
<1>2. \A f \in ToA : f.type = "window" => f.n \in Nat
  BY FrameTyped, WindowAssumption
<1> QED BY <1>1, <1>2 DEF Sized

\* The accounts are numbers.
LEMMA AccountsTyped ==
    ASSUME FlowInv
    PROVE  /\ credit[Probe] \in Nat /\ buffered[Probe] \in Nat /\ consumed[Probe] \in Nat
           /\ hold[Probe] \in 0..MaxFrame /\ hold[Probe] \in Nat
           /\ Bytes(cmdA, Probe, "data") \in Nat /\ Bytes(wireAB, Probe, "data") \in Nat
           /\ Bytes(cmdB, Probe, "window") \in Nat /\ Bytes(wireBA, Probe, "window") \in Nat
<1>1. credit[Probe] \in Nat /\ buffered[Probe] \in Nat /\ consumed[Probe] \in Nat /\ hold[Probe] \in 0..MaxFrame
  BY FlowAssumption DEF FlowInv, TypeOK
<1>2. hold[Probe] \in Nat
  BY <1>1, WindowAssumption
<1>3. cmdA \in Seq(ToB) /\ wireAB \in Seq(ToB) /\ cmdB \in Seq(ToA) /\ wireBA \in Seq(ToA)
  BY DEF FlowInv, TypeOK
<1>4. /\ Carried(cmdA, Probe, "data") \in Seq(Nat) /\ Carried(wireAB, Probe, "data") \in Seq(Nat)
      /\ Carried(cmdB, Probe, "window") \in Seq(Nat) /\ Carried(wireBA, Probe, "window") \in Seq(Nat)
  BY <1>3, FramesSized, CarriedTyped
<1>5. \A w \in Seq(Nat) : Total(w) \in Nat
  BY TotalEnds
<1> QED BY <1>1, <1>2, <1>4, <1>5 DEF Bytes

\* acquire_credit spends.
LEMMA AcquireTransfers ==
    ASSUME OrderInv, Whole(Probe), NEW s \in Streams, AcquireCredit(s)
    PROVE  Transfer
<1>t. /\ want \in [Streams -> 0..MaxFrame] /\ hold \in [Streams -> 0..MaxFrame]
      /\ credit \in [Streams -> Nat] /\ Probe \in Streams /\ OneChunk
  BY FlowAssumption DEF OrderInv, FlowInv, TypeOK
<1>a. /\ credit[Probe] \in Nat /\ Bytes(cmdA, Probe, "data") \in Nat /\ Bytes(wireAB, Probe, "data") \in Nat
  BY AccountsTyped DEF OrderInv
<1>u. UNCHANGED <<buffered, consumed, cmdA, cmdB, wireAB, wireBA>>
  BY DEF AcquireCredit, recvVars
<1>r. Returning' = Returning
  BY <1>u DEF Returning
<1>1. CASE s # Probe
  <2>1. credit'[Probe] = credit[Probe] /\ hold'[Probe] = hold[Probe]
    BY <1>t, <1>1 DEF AcquireCredit
  <2> QED BY <1>u, <1>r, <2>1 DEF Transfer, Inflight
<1>2. CASE s = Probe
  <2>1. /\ want[Probe] # 0 /\ hold[Probe] = 0 /\ credit[Probe] >= want[Probe]
        /\ credit' = [credit EXCEPT ![Probe] = credit[Probe] - want[Probe]]
        /\ hold' = [hold EXCEPT ![Probe] = want[Probe]]
    BY <1>2, <1>t DEF AcquireCredit, OneChunk, Whole
  <2>2. want[Probe] \in 1..MaxFrame
    BY <1>t, <2>1, WindowAssumption
  <2>3. PICK n \in 1..MaxFrame : n = want[Probe]
    BY <2>2
  <2>4. credit'[Probe] = credit[Probe] - n /\ hold'[Probe] = n /\ n <= credit[Probe] /\ n \in Nat
    BY <1>t, <1>a, <2>1, <2>3, WindowAssumption
  <2>5. Inflight' = Inflight + n
    BY <1>a, <1>u, <2>1, <2>4 DEF Inflight
  <2> QED BY <1>u, <1>r, <2>4, <2>5 DEF Transfer
<1> QED BY <1>1, <1>2

\* Queueing and writing a frame moves no account.
LEMMA QueueTransfers ==
    ASSUME FlowInv, NEW s \in Streams, QueueData(s)
    PROVE  Transfer
<1>t. hold \in [Streams -> 0..MaxFrame] /\ cmdA \in Seq(ToB) /\ Probe \in Streams
  BY FlowAssumption DEF FlowInv, TypeOK
<1>a. Bytes(cmdA, Probe, "data") \in Nat /\ Bytes(wireAB, Probe, "data") \in Nat /\ hold[Probe] \in Nat
  BY AccountsTyped
<1>u. UNCHANGED <<credit, buffered, consumed, cmdB, wireAB, wireBA>>
  BY DEF QueueData, recvVars
<1>r. Returning' = Returning
  BY <1>u DEF Returning
<1>1. PICK n \in Sizes : n = hold[s]
  <2>1. hold[s] \in Sizes
    BY <1>t, WindowAssumption DEF QueueData, Sizes
  <2> QED BY <2>1
<1>2. PICK f \in ToB : f = Data(s, n) /\ f.type = "data" /\ f.s = s /\ f.n = n
  BY FrameTyped
<1>3. cmdA' = Append(cmdA, f) /\ hold' = [hold EXCEPT ![s] = 0]
  BY <1>1, <1>2 DEF QueueData
<1>4. Bytes(Append(cmdA, f), Probe, "data") = Bytes(cmdA, Probe, "data") + Weight(f, Probe, "data")
  BY <1>t, FramesSized, BytesAppend
<1>5. CASE s = Probe
  <2>1. Weight(f, Probe, "data") = hold[Probe] /\ hold'[Probe] = 0
    BY <1>t, <1>1, <1>2, <1>3, <1>5 DEF Weight
  <2>2. Bytes(cmdA', Probe, "data") = Bytes(cmdA, Probe, "data") + hold[Probe]
    BY <1>3, <1>4, <2>1
  <2>3. Inflight' = Inflight
    BY <1>a, <1>u, <2>1, <2>2 DEF Inflight
  <2> QED BY <1>u, <1>r, <2>3 DEF Transfer
<1>6. CASE s # Probe
  <2>1. Weight(f, Probe, "data") = 0 /\ hold'[Probe] = hold[Probe]
    BY <1>t, <1>2, <1>3, <1>6 DEF Weight
  <2>2. Bytes(cmdA', Probe, "data") = Bytes(cmdA, Probe, "data")
    BY <1>a, <1>3, <1>4, <2>1
  <2>3. Inflight' = Inflight
    BY <1>u, <2>1, <2>2 DEF Inflight
  <2> QED BY <1>u, <1>r, <2>3 DEF Transfer
<1> QED BY <1>5, <1>6

\* A CLOSE, from either side, carries no bytes.
LEMMA CloseTransfers ==
    ASSUME FlowInv, NEW s \in Streams, CloseA(s) \/ QueueReset(s)
    PROVE  Transfer
<1>t. cmdA \in Seq(ToB) /\ cmdB \in Seq(ToA)
  BY DEF FlowInv, TypeOK
<1>a. Bytes(cmdA, Probe, "data") \in Nat /\ Bytes(cmdB, Probe, "window") \in Nat
  BY AccountsTyped
<1>1. PICK f : f = CloseFrame(s) /\ f \in ToA /\ f \in ToB /\ f.type = "close"
  BY FrameTyped
<1>2. Weight(f, Probe, "data") = 0 /\ Weight(f, Probe, "window") = 0
  BY <1>1 DEF Weight
<1>3. /\ Bytes(Append(cmdA, f), Probe, "data") = Bytes(cmdA, Probe, "data") + Weight(f, Probe, "data")
      /\ Bytes(Append(cmdB, f), Probe, "window") = Bytes(cmdB, Probe, "window") + Weight(f, Probe, "window")
  BY <1>t, <1>1, FramesSized, BytesAppend
<1>4. /\ Bytes(Append(cmdA, f), Probe, "data") = Bytes(cmdA, Probe, "data")
      /\ Bytes(Append(cmdB, f), Probe, "window") = Bytes(cmdB, Probe, "window")
  BY <1>a, <1>2, <1>3
<1>5. /\ UNCHANGED <<credit, hold, buffered, consumed, wireAB, wireBA>>
      /\ cmdA' = cmdA \/ cmdA' = Append(cmdA, f)
      /\ cmdB' = cmdB \/ cmdB' = Append(cmdB, f)
  BY <1>1 DEF CloseA, QueueReset, recvVars
<1>6. Inflight' = Inflight /\ Returning' = Returning
  BY <1>4, <1>5 DEF Inflight, Returning
<1> QED BY <1>5, <1>6 DEF Transfer

\* Writer A moves bytes from its queue to the wire, both in flight.
LEMMA WriterATransfers ==
    ASSUME FlowInv, WriterA
    PROVE  Transfer
<1>t. cmdA \in Seq(ToB) /\ wireAB \in Seq(ToB) /\ cmdA # <<>>
  BY DEF FlowInv, TypeOK, WriterA
<1>a. Bytes(wireAB, Probe, "data") \in Nat /\ hold[Probe] \in Nat
  BY AccountsTyped
<1>u. UNCHANGED <<credit, hold, buffered, consumed, cmdB, wireBA>>
  BY DEF WriterA, recvVars
<1>0. Head(cmdA) \in ToB
  BY <1>t
<1>1. PICK f \in ToB : f = Head(cmdA)
  BY <1>0
<1>2. cmdA' = Tail(cmdA) /\ wireAB' = Append(wireAB, f)
  BY <1>1 DEF WriterA
<1>3. /\ Bytes(cmdA, Probe, "data") = Weight(f, Probe, "data") + Bytes(Tail(cmdA), Probe, "data")
      /\ Weight(f, Probe, "data") \in Nat /\ Bytes(Tail(cmdA), Probe, "data") \in Nat
  BY <1>t, <1>1, FramesSized, BytesTail
<1>4. Bytes(Append(wireAB, f), Probe, "data") = Bytes(wireAB, Probe, "data") + Weight(f, Probe, "data")
  BY <1>t, FramesSized, BytesAppend
<1>5. Inflight' = Inflight
  BY <1>a, <1>u, <1>2, <1>3, <1>4 DEF Inflight
<1>6. Returning' = Returning
  BY <1>u DEF Returning
<1> QED BY <1>u, <1>5, <1>6 DEF Transfer

\* Writer B moves a grant from its queue to the wire, both returning.
LEMMA WriterBTransfers ==
    ASSUME FlowInv, WriterB
    PROVE  Transfer
<1>t. cmdB \in Seq(ToA) /\ wireBA \in Seq(ToA) /\ cmdB # <<>>
  BY DEF FlowInv, TypeOK, WriterB
<1>a. Bytes(wireBA, Probe, "window") \in Nat
  BY AccountsTyped
<1>u. UNCHANGED <<credit, hold, buffered, consumed, cmdA, wireAB>>
  BY DEF WriterB, recvVars
<1>0. Head(cmdB) \in ToA
  BY <1>t
<1>1. PICK f \in ToA : f = Head(cmdB)
  BY <1>0
<1>2. cmdB' = Tail(cmdB) /\ wireBA' = Append(wireBA, f)
  BY <1>1 DEF WriterB
<1>3. /\ Bytes(cmdB, Probe, "window") = Weight(f, Probe, "window") + Bytes(Tail(cmdB), Probe, "window")
      /\ Weight(f, Probe, "window") \in Nat /\ Bytes(Tail(cmdB), Probe, "window") \in Nat
  BY <1>t, <1>1, FramesSized, BytesTail
<1>4. Bytes(Append(wireBA, f), Probe, "window") = Bytes(wireBA, Probe, "window") + Weight(f, Probe, "window")
  BY <1>t, FramesSized, BytesAppend
<1>5. Returning' = Returning
  BY <1>a, <1>u, <1>2, <1>3, <1>4 DEF Returning
<1>6. Inflight' = Inflight
  BY <1>u DEF Inflight
<1> QED BY <1>u, <1>5, <1>6 DEF Transfer

\* A WINDOW_UPDATE credits exactly what it carries: the clamp never cuts.
LEMMA ReaderATransfers ==
    ASSUME FlowInv, Whole(Probe), ReaderA
    PROVE  Transfer
<1>t. wireBA \in Seq(ToA) /\ wireBA # <<>> /\ credit \in [Streams -> Nat] /\ Probe \in Streams
  BY FlowAssumption DEF FlowInv, TypeOK, ReaderA
<1>a. Bytes(cmdB, Probe, "window") \in Nat /\ credit[Probe] \in Nat
  BY AccountsTyped
<1>u. UNCHANGED <<hold, buffered, consumed, cmdA, cmdB, wireAB>> /\ wireBA' = Tail(wireBA)
  BY DEF ReaderA, recvVars
<1>0. Head(wireBA) \in ToA
  BY <1>t
<1>1. PICK f \in ToA : f = Head(wireBA)
  BY <1>0
<1>2. /\ Bytes(wireBA, Probe, "window") = Weight(f, Probe, "window") + Bytes(Tail(wireBA), Probe, "window")
      /\ Weight(f, Probe, "window") \in Nat /\ Bytes(Tail(wireBA), Probe, "window") \in Nat
  BY <1>t, <1>1, FramesSized, BytesTail
<1>3. Inflight' = Inflight
  BY <1>u DEF Inflight
<1>4. CASE f.type = "window" /\ f.s = Probe
  <2>1. PICK n \in 1..MaxCredit : n = f.n
    BY <1>4, FrameTyped
  <2>2. Weight(f, Probe, "window") = n
    BY <1>4, <2>1 DEF Weight
  <2>3. Refill(f)
    BY <1>1, <1>4 DEF ReaderA
  <2>4. (IF n < MaxCredit THEN n ELSE MaxCredit) = n
    BY WindowAssumption
  <2>5. credit' = [credit EXCEPT ![Probe] = credit[Probe] + n]
    BY <1>4, <2>1, <2>3, <2>4 DEF Refill, Whole
  <2>6. credit'[Probe] = credit[Probe] + n
    BY <1>t, <2>5
  <2>7. n <= Returning /\ Returning' = Returning - n
    BY <1>a, <1>u, <1>2, <2>2 DEF Returning
  <2> QED BY <1>u, <1>3, <2>6, <2>7 DEF Transfer
<1>5. CASE ~(f.type = "window" /\ f.s = Probe)
  <2>1. Weight(f, Probe, "window") = 0
    BY <1>5 DEF Weight
  <2>2. credit'[Probe] = credit[Probe]
    BY <1>t, <1>1, <1>5 DEF ReaderA, Refill
  <2>3. Returning' = Returning
    BY <1>a, <1>u, <1>2, <2>1 DEF Returning
  <2> QED BY <1>u, <1>3, <2>2, <2>3 DEF Transfer
<1> QED BY <1>4, <1>5

\* A chunk arrives, or the stream is reset and no longer whole.
LEMMA ReaderBTransfers ==
    ASSUME FlowInv, Whole(Probe), Whole(Probe)', ReaderB
    PROVE  Transfer
<1>t. wireAB \in Seq(ToB) /\ wireAB # <<>> /\ buffered \in [Streams -> Nat] /\ Probe \in Streams
  BY FlowAssumption DEF FlowInv, TypeOK, ReaderB
<1>a. Bytes(cmdA, Probe, "data") \in Nat /\ hold[Probe] \in Nat
  BY AccountsTyped
<1>u. UNCHANGED <<hold, credit, consumed, cmdA, cmdB, wireBA>> /\ wireAB' = Tail(wireAB)
  BY DEF ReaderB
<1>0. Head(wireAB) \in ToB
  BY <1>t
<1>1. PICK f \in ToB : f = Head(wireAB)
  BY <1>0
<1>2. /\ Bytes(wireAB, Probe, "data") = Weight(f, Probe, "data") + Bytes(Tail(wireAB), Probe, "data")
      /\ Weight(f, Probe, "data") \in Nat /\ Bytes(Tail(wireAB), Probe, "data") \in Nat
  BY <1>t, <1>1, FramesSized, BytesTail
<1>3. Returning' = Returning
  BY <1>u DEF Returning
<1>4. CASE f.type = "data" /\ f.s = Probe
  <2>1. f.n \in Sizes
    BY <1>4, FrameTyped
  <2>a. PICK n \in 1..MaxFrame : n = f.n
    BY <2>1 DEF Sizes
  <2>2. Weight(f, Probe, "data") = n
    BY <1>4, <2>a DEF Weight
  <2>3. ReaderBData(f)
    BY <1>1, <1>4 DEF ReaderB
  <2>4. buffered' = [buffered EXCEPT ![Probe] = buffered[Probe] + n]
    BY <1>4, <2>3, <2>a DEF ReaderBData, Whole
  <2>5. buffered'[Probe] = buffered[Probe] + n
    BY <1>t, <2>4
  <2>6. n <= Inflight /\ Inflight' = Inflight - n
    BY <1>a, <1>u, <1>2, <2>2 DEF Inflight
  <2> QED BY <1>u, <1>3, <2>5, <2>6 DEF Transfer
<1>5. CASE ~(f.type = "data" /\ f.s = Probe)
  <2>1. Weight(f, Probe, "data") = 0
    BY <1>5 DEF Weight
  <2>2. buffered'[Probe] = buffered[Probe]
    BY <1>t, <1>1, <1>5 DEF ReaderB, ReaderBData
  <2>3. Inflight' = Inflight
    BY <1>a, <1>u, <1>2, <2>1 DEF Inflight
  <2> QED BY <1>u, <1>3, <2>2, <2>3 DEF Transfer
<1> QED BY <1>4, <1>5

\* recv drains below the threshold only.
LEMMA DequeueTransfers ==
    ASSUME FlowInv, Whole(Probe), NEW s \in Streams, Dequeue(s)
    PROVE  Transfer
<1>t. /\ chan \in [Streams -> Seq(Sizes)] /\ buffered \in [Streams -> Nat] /\ consumed \in [Streams -> Nat]
      /\ Probe \in Streams
  BY FlowAssumption DEF FlowInv, TypeOK
<1>u. UNCHANGED <<hold, credit, cmdA, cmdB, wireAB, wireBA>>
  BY DEF Dequeue
<1>1. Inflight' = Inflight /\ Returning' = Returning
  BY <1>u DEF Inflight, Returning
<1>2. CASE s # Probe
  <2>1. buffered'[Probe] = buffered[Probe] /\ consumed'[Probe] = consumed[Probe]
    BY <1>t, <1>2 DEF Dequeue
  <2> QED BY <1>u, <1>1, <2>1 DEF Transfer
<1>3. CASE s = Probe
  <2>1. chan[Probe] \in Seq(Nat) /\ chan[Probe] # <<>> /\ Head(chan[Probe]) \in Sizes
    BY <1>t, <1>3, SizesNat DEF Dequeue
  <2>2. PICK n \in 1..MaxFrame : n = Head(chan[Probe])
    BY <2>1 DEF Sizes
  <2>3. /\ buffered' = [buffered EXCEPT ![Probe] = buffered[Probe] - n]
        /\ consumed' = [consumed EXCEPT ![Probe] = consumed[Probe] + n] /\ pending[Probe] = 0
    BY <1>3, <2>2 DEF Dequeue
  <2>4. buffered'[Probe] = buffered[Probe] - n /\ consumed'[Probe] = consumed[Probe] + n
    BY <1>t, <2>3
  <2>5. n \in Nat /\ Total(Tail(chan[Probe])) \in Nat /\ Total(chan[Probe]) = n + Total(Tail(chan[Probe]))
    BY <2>1, <2>2, TotalTail
  <2>6. Probe \in handleB
    BY DEF Whole
  <2>7. buffered[Probe] = Total(chan[Probe]) /\ consumed[Probe] < Threshold
    BY <1>t, <2>3, <2>6 DEF FlowInv, Counted, Withheld
  <2>8. n <= buffered[Probe]
    BY <2>5, <2>7
  <2> QED BY <1>u, <1>1, <2>4, <2>7, <2>8 DEF Transfer
<1> QED BY <1>2, <1>3

\* recv grants all it withheld, in one WINDOW_UPDATE, or nothing.
LEMMA ReturnTransfers ==
    ASSUME FlowInv, NEW s \in Streams, Return(s)
    PROVE  Transfer
<1>t. cmdB \in Seq(ToA) /\ consumed \in [Streams -> Nat] /\ Probe \in Streams
  BY FlowAssumption DEF FlowInv, TypeOK
<1>a. Bytes(cmdB, Probe, "window") \in Nat /\ Bytes(wireBA, Probe, "window") \in Nat
  BY AccountsTyped
<1>u. UNCHANGED <<hold, credit, buffered, cmdA, wireAB, wireBA>>
  BY DEF Return
<1>1. Inflight' = Inflight
  BY <1>u DEF Inflight
<1>2. CASE UNCHANGED <<consumed, cmdB>>
  <2>1. Returning' = Returning
    BY <1>2, <1>u DEF Returning
  <2> QED BY <1>2, <1>u, <1>1, <2>1 DEF Transfer
<1>3. CASE ~UNCHANGED <<consumed, cmdB>>
  <2>1. /\ consumed[s] >= Threshold /\ cmdB' = Append(cmdB, WindowUpdate(s, consumed[s]))
        /\ consumed' = [consumed EXCEPT ![s] = 0]
    BY <1>3 DEF Return
  <2>2. consumed[s] \in Nat /\ consumed[s] <= Threshold - 1 + MaxFrame
    BY DEF FlowInv, TypeOK, Withheld
  <2>3. consumed[s] \in 1..MaxCredit
    BY <2>1, <2>2, WindowAssumption
  <2>4. PICK n \in 1..MaxCredit : n = consumed[s]
    BY <2>3
  <2>5. PICK f \in ToA : f = WindowUpdate(s, n) /\ f.type = "window" /\ f.s = s /\ f.n = n
    BY FrameTyped
  <2>6. Bytes(Append(cmdB, f), Probe, "window") = Bytes(cmdB, Probe, "window") + Weight(f, Probe, "window")
    BY <1>t, FramesSized, BytesAppend
  <2>7. CASE s = Probe
    <3>1. Weight(f, Probe, "window") = n
      BY <2>5, <2>7 DEF Weight
    <3>2. Bytes(cmdB', Probe, "window") = Bytes(cmdB, Probe, "window") + n
      BY <2>1, <2>4, <2>5, <2>6, <3>1
    <3>3. Returning' = Returning + n
      BY <1>a, <1>u, <3>2, WindowAssumption DEF Returning
    <3>4. consumed'[Probe] = 0
      BY <1>t, <2>1, <2>7
    <3> QED BY <1>u, <1>1, <2>1, <2>4, <2>7, <3>3, <3>4 DEF Transfer
  <2>8. CASE s # Probe
    <3>1. Weight(f, Probe, "window") = 0 /\ consumed'[Probe] = consumed[Probe]
      BY <1>t, <2>1, <2>5, <2>8 DEF Weight
    <3>2. Bytes(cmdB', Probe, "window") = Bytes(cmdB, Probe, "window")
      BY <1>a, <2>1, <2>4, <2>5, <2>6, <3>1
    <3>3. Returning' = Returning
      BY <1>u, <3>2 DEF Returning
    <3> QED BY <1>u, <1>1, <3>1, <3>3 DEF Transfer
  <2> QED BY <2>7, <2>8
<1> QED BY <1>2, <1>3

\* Every step of the mux is a step of CreditWindow for the probed stream.
LEMMA WindowSteps == OrderInv /\ [Next]_vars => [Window!Next]_(Window!vars)
<1> SUFFICES ASSUME OrderInv, [Next]_vars PROVE [Window!Next]_(Window!vars)
  OBVIOUS
<1>1. CASE ~Whole(Probe)'
  BY <1>1, EndSteps
<1>2. CASE Whole(Probe)'
  <2>0. FlowInv /\ Whole(Probe)
    BY <1>2, WholeBefore DEF OrderInv
  <2>1. SUFFICES Transfer
    BY <1>2, <2>0, TransferSteps
  <2>2. CASE UNCHANGED <<hold, credit, buffered, consumed, cmdA, cmdB, wireAB, wireBA>>
    <3>1. Inflight' = Inflight /\ Returning' = Returning
      BY <2>2 DEF Inflight, Returning
    <3> QED BY <2>2, <3>1 DEF Transfer
  <2>3. ASSUME NEW s \in Streams, NEW n \in Payloads[s], SendChunk(s, n) PROVE Transfer
    BY <2>2, <2>3 DEF SendChunk, recvVars
  <2>4. ASSUME NEW s \in Streams, DropB(s) PROVE Transfer
    BY <2>2, <2>4 DEF DropB
  <2>5. CASE UNCHANGED vars
    BY <2>2, <2>5 DEF vars
  <2> QED BY <1>2, <2>0, <2>3, <2>4, <2>5, AcquireTransfers, QueueTransfers, CloseTransfers,
             WriterATransfers, WriterBTransfers, ReaderATransfers, ReaderBTransfers, DequeueTransfers,
             ReturnTransfers DEF Next
<1> QED BY <1>1, <1>2

\* A fresh stream has the whole window as credit.
LEMMA WindowStarts == Init => Window!Init
<1> SUFFICES ASSUME Init PROVE Window!Init
  OBVIOUS
<1>1. Probe \in Streams
  BY FlowAssumption
<1>2. Whole(Probe)
  BY <1>1, RangeEmpty DEF Init, Whole
<1>3. Total(<<>>) = 0
  <2>1. <<>> \in Seq(Nat) /\ 0 \in Nat
    OBVIOUS
  <2> QED BY <2>1, TotalEnds, Zenon
<1>4. \A t : Bytes(<<>>, Probe, t) = 0
  BY <1>3, CarriedEmpty DEF Bytes
<1>5. Inflight = 0 /\ Returning = 0
  BY <1>1, <1>4 DEF Init, Inflight, Returning
<1>6. credit[Probe] = InitWindow /\ buffered[Probe] = 0 /\ consumed[Probe] = 0
  BY <1>1 DEF Init
<1>7. Whole(Probe) = TRUE
  BY <1>2 DEF Whole
<1> QED BY <1>5, <1>6, <1>7 DEF Window!Init, Account, Inflight, Returning

\* mux.rs: the streams implement the byte accounting of CreditWindow, for any
\* number of streams and any sizes of windows, queues, channels and frames.
THEOREM WindowImplemented == Spec => ImplementsWindow
<1>1. Spec => []OrderInv
  BY OrderStarts, OrderSteps, PTL DEF Spec
<1> QED BY <1>1, WindowStarts, WindowSteps, PTL DEF Spec, ImplementsWindow, Window!Spec

-----------------------------------------------------------------------------
(* What CreditWindow promises, and so every stream of the mux.             *)

WindowInv ==
    /\ Window!TypeOK /\ Window!Conserved
    /\ Whole(Probe) => Account(Probe, consumed[Probe]) <= Threshold - 1 + MaxFrame

\* The window starts whole.
LEMMA WindowInvStarts == Window!Init => WindowInv
BY WindowAssumption DEF Window!Init, WindowInv, Window!TypeOK, Window!Conserved

\* Every step moves bytes from one account to the next.
LEMMA WindowInvSteps == WindowInv /\ [Window!Next]_(Window!vars) => WindowInv'
<1> SUFFICES ASSUME WindowInv, [Window!Next]_(Window!vars) PROVE WindowInv'
  OBVIOUS
<1> USE WindowAssumption DEF WindowInv, Window!TypeOK, Window!Conserved
<1>1. ASSUME NEW n \in 1..MaxFrame, Window!Spend(n) PROVE WindowInv'
  BY <1>1 DEF Window!Spend
<1>2. ASSUME NEW n \in 1..MaxFrame, Window!Arrive(n) PROVE WindowInv'
  BY <1>2 DEF Window!Arrive
<1>3. ASSUME NEW n \in 1..MaxFrame, Window!Drain(n) PROVE WindowInv'
  BY <1>3 DEF Window!Drain
<1>4. CASE Window!Grant
  BY <1>4 DEF Window!Grant
<1>5. ASSUME NEW n \in 1..MaxCredit, Window!Credited(n) PROVE WindowInv'
  BY <1>5 DEF Window!Credited
<1>6. CASE Window!Close
  <2>1. ~Whole(Probe)'
    BY <1>6 DEF Window!Close
  <2>2. Whole(Probe)' \in BOOLEAN
    BY DEF Whole
  <2> QED BY <1>6, <2>1, <2>2 DEF Window!Close
<1>7. CASE UNCHANGED Window!vars
  BY <1>7 DEF Window!vars
<1> QED BY <1>1, <1>2, <1>3, <1>4, <1>5, <1>6, <1>7 DEF Window!Next

\* The accounting invariant of a stream, for every frame and grant order.
THEOREM WindowInvariance == Spec => []WindowInv
<1>1. ImplementsWindow => []WindowInv
  BY WindowInvStarts, WindowInvSteps, PTL DEF ImplementsWindow, Window!Spec
<1> QED BY <1>1, WindowImplemented, PTL

\* No credit is lost or invented while a stream is open (acquire_credit, the
\* reader's DATA and WINDOW_UPDATE arms, recv).
THEOREM CreditConserved == Spec => []Window!Conserved
<1>1. WindowInv => Window!Conserved
  BY DEF WindowInv
<1> QED BY <1>1, WindowInvariance, PTL

\* What recv holds back is bounded and one WindowUpdate fits MAX_CREDIT.
THEOREM GrantsFit == Spec => []Window!GrantFits
<1>1. WindowInv => Window!GrantFits
  BY WindowAssumption DEF WindowInv, Window!TypeOK, Window!GrantFits
<1> QED BY <1>1, WindowInvariance, PTL

\* A compliant sender never makes the receiver buffer more than the window.
THEOREM BufferBounded == Spec => []Window!BufferWithinWindow
<1>1. WindowInv => Window!BufferWithinWindow
  BY WindowAssumption DEF WindowInv, Window!TypeOK, Window!Conserved, Window!BufferWithinWindow
<1> QED BY <1>1, WindowInvariance, PTL

\* A sender is never starved by credit the receiver holds back: once all it
\* sent is drained, its next chunk fits.
THEOREM NeverStalls == Spec => []Window!NoStall
<1>1. WindowInv => Window!NoStall
  BY WindowAssumption DEF WindowInv, Window!TypeOK, Window!Conserved, Window!NoStall
<1> QED BY <1>1, WindowInvariance, PTL

-----------------------------------------------------------------------------
(* The life of a session: types.                                           *)

Ids == (Ends \X Nat) \cup {0}
Commands == [type : {"ping", "pong", "open"}, id : Ids]
Frames == Commands \cup [type : {"msg1"}, major : Nat] \cup [type : {"msg2"}]
            \cup [type : {"hello"}, hello : HelloRecords]

Muxes ==
    [phase : {"noise", "msg2", "hello", "answer", "up", "failed"},
     hello : HelloRecords, peer : HelloRecords \cup {None}, tol : Nat, grace : Nat,
     reader : {"off", "run", "stop", "close", "ended"}, rwait : Commands \cup {None},
     writer : {"off", "run", "drain", "ended"}, cmd : Seq(Commands), open : BOOLEAN,
     streams : SUBSET Ids, incoming : Seq(Ids), handles : SUBSET Ids, released : SUBSET Ids,
     opening : Ids \cup {None}, next : Nat, closed : BOOLEAN, tearing : BOOLEAN,
     aborted : BOOLEAN, silent : Nat, mono : Nat, ping : Nat]

Queued(r) == {f.id : f \in {g \in Range(r.cmd) : g.type = "open"}}

\* One end's mux: a stream somebody holds is released, or registered, or its
\* OPEN is still queued and the writer has yet to look at it.
Sound(r) ==
    /\ r \in Muxes
    /\ IF r.phase = "up" THEN r.reader # "off" /\ r.writer # "off"
       ELSE /\ r.reader = "off" /\ r.writer = "off" /\ r.cmd = <<>> /\ r.incoming = <<>>
            /\ r.rwait = None /\ r.streams = {} /\ r.handles = {}
    /\ r.open <=> r.writer = "run"
    /\ r.writer = "ended" => r.cmd = <<>>
    /\ r.writer = "ended" /\ r.reader \in {"close", "ended"} => r.streams = {}
    /\ r.handles \subseteq r.released \cup r.streams \cup Queued(r)
    /\ Range(r.incoming) \subseteq r.released \cup r.streams
    /\ r.rwait # None /\ r.rwait.type # "pong" => r.rwait.id \in r.released \cup r.streams

\* Both ends, and the frames under way between them.
Session ==
    /\ m \in [Ends -> Muxes] /\ \A e \in Ends : Sound(m[e])
    /\ wire \in [Ends -> Seq(Frames)]

\* Commands have their type and their stream.
LEMMA CommandTyped ==
    ASSUME NEW t \in {"ping", "pong", "open"}, NEW id \in Ids
    PROVE  Command(t, id) \in Commands /\ Command(t, id).type = t /\ Command(t, id).id = id
BY DEF Command, Commands

\* What is queued when a command is added or taken.
LEMMA QueuedAppend ==
    ASSUME NEW r \in Muxes, NEW R, NEW f \in Commands, R.cmd = Append(r.cmd, f)
    PROVE  Queued(R) = Queued(r) \cup (IF f.type = "open" THEN {f.id} ELSE {})
<1>1. Range(R.cmd) = Range(r.cmd) \cup {f}
  BY RangeAppend DEF Muxes
<1> QED BY <1>1 DEF Queued

\* Streams whose OPEN is queued are streams.
LEMMA QueuedIds == ASSUME NEW r \in Muxes PROVE Queued(r) \subseteq Ids
<1>1. r.cmd \in Seq(Commands)
  BY DEF Muxes
<1>2. \A i \in 1..Len(r.cmd) : r.cmd[i] \in Commands
  BY <1>1
<1>3. \A g \in Range(r.cmd) : g \in Commands
  BY <1>1, <1>2, RangeIs
<1>4. \A g \in Commands : g.id \in Ids
  BY DEF Commands
<1> QED BY <1>3, <1>4 DEF Queued

\* The writer takes a command off the queue.
LEMMA QueuedTail ==
    ASSUME NEW r \in Muxes, NEW R, r.cmd # <<>>, R.cmd = Tail(r.cmd)
    PROVE  /\ Head(r.cmd) \in Commands /\ Tail(r.cmd) \in Seq(Commands)
           /\ Queued(r) = Queued(R) \cup (IF Head(r.cmd).type = "open" THEN {Head(r.cmd).id} ELSE {})
<1>1. r.cmd \in Seq(Commands)
  BY DEF Muxes
<1>2. Head(r.cmd) \in Commands /\ Tail(r.cmd) \in Seq(Commands)
      /\ Range(r.cmd) = {Head(r.cmd)} \cup Range(R.cmd)
  BY <1>1, RangeTail
<1> QED BY <1>2 DEF Queued

\* What was negotiated is left as it is, and an end that failed or aborted
\* stays so.
Kept(r, R) ==
    /\ R.hello = r.hello /\ R.peer = r.peer /\ R.tol = r.tol /\ R.grace = r.grace
    /\ R.phase = "up" <=> r.phase = "up"
    /\ r.phase = "failed" => R.phase = "failed"
    /\ r.aborted => R.aborted

\* A step of one end.
LEMMA OneEnd ==
    ASSUME Session, NEW e \in Ends, NEW R, Sound(R), m' = [m EXCEPT ![e] = R],
           wire' \in [Ends -> Seq(Frames)]
    PROVE  Session' /\ (Kept(m[e], R) => \A x \in Ends : Kept(m[x], m'[x]))
BY ZenonT(40) DEF Session, Sound, Kept

\* Clocks, negotiation and the open under way do not matter to a stream.
LEMMA SoundSame ==
    ASSUME NEW r, Sound(r), NEW R \in Muxes, R.phase = r.phase, R.reader = r.reader,
           R.writer = r.writer, R.cmd = r.cmd, R.open = r.open, R.incoming = r.incoming,
           R.rwait = r.rwait, R.streams = r.streams, R.handles = r.handles,
           R.released = r.released
    PROVE  Sound(R)
BY DEF Sound, Queued

\* A mux that is not up yet holds nothing.
LEMMA SoundStarting ==
    ASSUME NEW r, Sound(r), r.phase \notin {"up", "failed"}, NEW R,
           \/ \E p \in {"msg2", "hello", "answer"} : R = [r EXCEPT !.phase = p]
           \/ R = [r EXCEPT !.phase = "failed", !.closed = TRUE]
    PROVE  Sound(R) /\ Kept(r, R)
<1>0. r \in Muxes
  BY DEF Sound
<1>1. ASSUME NEW p \in {"msg2", "hello", "answer"}, R = [r EXCEPT !.phase = p] PROVE Sound(R) /\ Kept(r, R)
  <2>1. R \in Muxes
    BY <1>0, <1>1 DEF Muxes
  <2> QED BY <1>0, <1>1, <2>1, ZenonT(40) DEF Sound, Kept, Queued, Muxes
<1>2. ASSUME R = [r EXCEPT !.phase = "failed", !.closed = TRUE] PROVE Sound(R) /\ Kept(r, R)
  <2>1. R \in Muxes
    BY <1>0, <1>2 DEF Muxes
  <2> QED BY <1>0, <1>2, <2>1 DEF Sound, Kept, Queued, Muxes
<1> QED BY <1>1, <1>2

\* The wire after a write, and after a read.
LEMMA WireSend ==
    ASSUME Session, NEW e \in Ends, NEW f \in Frames, Send(e, f)
    PROVE  wire' \in [Ends -> Seq(Frames)]
<1>1. Peer(e) \in Ends /\ Append(wire[Peer(e)], f) \in Seq(Frames)
  BY DEF Session, Peer, Ends
<1> QED BY <1>1 DEF Session, Send

\* A frame is read off the wire.
LEMMA WireTail ==
    ASSUME Session, NEW e \in Ends, wire[e] # <<>>, wire' = [wire EXCEPT ![e] = Tail(@)]
    PROVE  wire' \in [Ends -> Seq(Frames)] /\ Head(wire[e]) \in Frames
<1>1. wire[e] \in Seq(Frames)
  BY DEF Session
<1>2. Head(wire[e]) \in Frames /\ Tail(wire[e]) \in Seq(Frames)
  BY <1>1, RangeTail
<1> QED BY <1>2 DEF Session

Settled == \A x \in Ends : Kept(m[x], m'[x])

-----------------------------------------------------------------------------
(* The steps.                                                              *)

\* The Noise messages touch no stream.
LEMMA HandshakeSound == Session /\ Handshake => Session' /\ Settled
<1> SUFFICES ASSUME Session, Handshake PROVE Session' /\ Settled
  OBVIOUS
<1>0. /\ "client" \in Ends /\ "server" \in Ends /\ Sound(m["client"]) /\ Sound(m["server"])
      /\ m["client"] \in Muxes
  BY DEF Session, Ends
<1>1. CASE NoiseStart
  <2>1. m' = [m EXCEPT !["client"] = [m["client"] EXCEPT !.phase = "msg2"]] /\ m["client"].phase = "noise"
    BY <1>1 DEF NoiseStart, Session
  <2>2. [type |-> "msg1", major |-> m["client"].hello.major] \in Frames
    BY <1>0 DEF Frames, Muxes, HelloRecords
  <2>3. wire' \in [Ends -> Seq(Frames)]
    BY <1>0, <1>1, <2>2, WireSend DEF NoiseStart
  <2> QED BY <1>0, <2>1, <2>3, SoundStarting, OneEnd DEF Settled
<1>2. CASE NoiseAccept
  <2>1. wire' \in [Ends -> Seq(Frames)] /\ m["server"].phase = "noise"
    BY <1>0, <1>2, WireTail DEF NoiseAccept, Recv
  <2>2. \/ m' = [m EXCEPT !["server"] = [m["server"] EXCEPT !.phase = "msg2"]]
        \/ m' = [m EXCEPT !["server"] = [m["server"] EXCEPT !.phase = "failed", !.closed = TRUE]]
    BY <1>2 DEF NoiseAccept, Fail, Session
  <2>3. CASE m' = [m EXCEPT !["server"] = [m["server"] EXCEPT !.phase = "msg2"]]
    BY <1>0, <2>1, <2>3, SoundStarting, OneEnd DEF Settled
  <2>4. CASE m' = [m EXCEPT !["server"] = [m["server"] EXCEPT !.phase = "failed", !.closed = TRUE]]
    BY <1>0, <2>1, <2>4, SoundStarting, OneEnd DEF Settled
  <2> QED BY <2>2, <2>3, <2>4
<1>3. CASE NoiseReply
  <2>1. m' = [m EXCEPT !["server"] = [m["server"] EXCEPT !.phase = "hello"]] /\ m["server"].phase = "msg2"
    BY <1>3 DEF NoiseReply, Session
  <2>2. wire' \in [Ends -> Seq(Frames)]
    BY <1>0, <1>3, WireSend DEF NoiseReply, Frames
  <2> QED BY <1>0, <2>1, <2>2, SoundStarting, OneEnd DEF Settled
<1>4. CASE NoiseDone
  <2>1. m' = [m EXCEPT !["client"] = [m["client"] EXCEPT !.phase = "hello"]] /\ m["client"].phase = "msg2"
    BY <1>4 DEF NoiseDone, Session
  <2>2. wire' \in [Ends -> Seq(Frames)]
    BY <1>0, <1>4, WireTail DEF NoiseDone, Recv
  <2> QED BY <1>0, <2>1, <2>2, SoundStarting, OneEnd DEF Settled
<1> QED BY <1>1, <1>2, <1>3, <1>4 DEF Handshake

\* A negotiated tolerance is a number of ticks.
LEMMA ToleranceTyped ==
    ASSUME NEW h \in HelloRecords, NEW p \in HelloRecords
    PROVE  HelloDecode(p) \in HelloRecords /\ Tolerance(h, p) \in Nat
BY LifecycleAssumption DEF HelloDecode, HelloRecords, Tolerance, ClampTolerance

\* Writing the HELLO, or failing before it, touches no stream.
LEMMA HelloWriteSound ==
    ASSUME Session, NEW e \in Ends, HelloWrite(e) \/ StartFails(e)
    PROVE  Session' /\ Settled
<1>0. Sound(m[e]) /\ m[e] \in Muxes /\ m[e].hello \in HelloRecords
  BY DEF Session, Muxes
<1>1. CASE HelloWrite(e)
  <2>1. m' = [m EXCEPT ![e] = [m[e] EXCEPT !.phase = "answer"]] /\ m[e].phase = "hello"
    BY <1>1 DEF HelloWrite, Session
  <2>2. wire' \in [Ends -> Seq(Frames)]
    BY <1>0, <1>1, WireSend DEF HelloWrite, Frames
  <2> QED BY <1>0, <2>1, <2>2, SoundStarting, OneEnd DEF Settled
<1>2. CASE StartFails(e)
  <2>1. /\ m' = [m EXCEPT ![e] = [m[e] EXCEPT !.phase = "failed", !.closed = TRUE]]
        /\ m[e].phase \notin {"up", "failed"} /\ wire' = wire
    BY <1>2 DEF StartFails, Fail, Session
  <2> QED BY <1>0, <2>1, SoundStarting, OneEnd DEF Settled, Session
<1> QED BY <1>1, <1>2

\* A session that comes up starts with both loops and no stream.
LEMMA HelloReadSound ==
    ASSUME Session, NEW e \in Ends, HelloRead(e)
    PROVE  Session'
<1>0. Sound(m[e]) /\ m[e] \in Muxes /\ m[e].hello \in HelloRecords
  BY DEF Session, Muxes
<1>1. /\ wire' \in [Ends -> Seq(Frames)] /\ m[e].phase = "answer"
      /\ Head(wire[e]) \in Frames /\ Head(wire[e]).type = "hello"
  BY WireTail DEF HelloRead, Recv
<1> DEFINE l == m[e].hello
           p == HelloDecode(Head(wire[e]).hello)
           R == [m[e] EXCEPT !.phase = "up", !.peer = p, !.tol = Tolerance(l, p),
                             !.grace = Tolerance(p, l), !.reader = "run", !.writer = "run",
                             !.open = TRUE]
<1>2. \/ m' = [m EXCEPT ![e] = R]
      \/ m' = [m EXCEPT ![e] = [m[e] EXCEPT !.phase = "failed", !.closed = TRUE]]
  BY DEF HelloRead, Fail, Session
<1>3. p \in HelloRecords /\ Tolerance(l, p) \in Nat /\ Tolerance(p, l) \in Nat
  BY <1>0, <1>1, ToleranceTyped DEF Frames, Commands
<1>4. R \in Muxes
  BY <1>0, <1>3 DEF Muxes
<1>5. Sound(R)
  BY <1>0, <1>1, <1>4 DEF Sound, Queued, Muxes
<1> QED BY <1>0, <1>1, <1>2, <1>5, SoundStarting, OneEnd

\* The reader: a frame is stamped, a stream registered before it is offered.
LEMMA ReaderTakeSound ==
    ASSUME Session, NEW e \in Ends, ReaderTake(e) PROVE Session' /\ Settled
<1> DEFINE f == Head(wire[e])
           r == ReaderStamps(e)
<1>0. /\ Sound(m[e]) /\ m[e] \in Muxes /\ m[e].phase = "up" /\ m[e].reader = "run" /\ m[e].rwait = None
      /\ wire' \in [Ends -> Seq(Frames)] /\ f \in Frames
  BY WireTail DEF Session, ReaderTake, Up
<1>1. r \in Muxes /\ Sound(r)
  <2>1. r \in Muxes
    BY <1>0, ZenonT(40) DEF ReaderStamps, Muxes
  <2> QED BY <1>0, <2>1, SoundSame, ZenonT(40) DEF ReaderStamps, Muxes
<1>f. r.phase = "up" /\ r.reader = "run" /\ r.rwait = None /\ Kept(m[e], r)
  BY <1>0 DEF ReaderStamps, Muxes, Kept
<1>2. \/ m' = [m EXCEPT ![e] = [r EXCEPT !.rwait = Command("pong", 0)]]
      \/ m' = [m EXCEPT ![e] = [r EXCEPT !.reader = "stop", !.aborted = TRUE]]
      \/ f.type = "open" /\ m' = [m EXCEPT ![e] = [r EXCEPT !.streams = @ \cup {f.id}, !.rwait = f]]
      \/ m' = [m EXCEPT ![e] = r]
  BY DEF ReaderTake, Session
<1> HIDE DEF f, r
<1>3. CASE m' = [m EXCEPT ![e] = [r EXCEPT !.rwait = Command("pong", 0)]]
  <2> DEFINE R == [r EXCEPT !.rwait = Command("pong", 0)]
  <2>1. Command("pong", 0) \in Commands /\ Command("pong", 0).type = "pong"
    BY CommandTyped DEF Ids
  <2>2. R \in Muxes
    BY <1>1, <2>1 DEF Muxes
  <2>3. Sound(R)
    BY <1>1, <1>f, <2>1, <2>2, ZenonT(40) DEF Sound, Muxes, Queued
  <2>z. Kept(m[e], R)
    BY <1>1, <1>f DEF Kept, Muxes
  <2> QED BY <1>0, <1>3, <2>3, <2>z, OneEnd DEF Settled
<1>4. CASE m' = [m EXCEPT ![e] = [r EXCEPT !.reader = "stop", !.aborted = TRUE]]
  <2> DEFINE R == [r EXCEPT !.reader = "stop", !.aborted = TRUE]
  <2>2. R \in Muxes
    BY <1>1 DEF Muxes
  <2>3. Sound(R)
    BY <1>1, <1>f, <2>2, SMTT(20) DEF Sound, Muxes, Queued
  <2>z. Kept(m[e], R)
    BY <1>1, <1>f DEF Kept, Muxes
  <2> QED BY <1>0, <1>4, <2>3, <2>z, OneEnd DEF Settled
<1>5. CASE f.type = "open" /\ m' = [m EXCEPT ![e] = [r EXCEPT !.streams = @ \cup {f.id}, !.rwait = f]]
  <2> DEFINE R == [r EXCEPT !.streams = r.streams \cup {f.id}, !.rwait = f]
  <2>1. f \in Commands /\ f.id \in Ids
    BY <1>0, <1>5 DEF Frames, Commands
  <2>2. R \in Muxes
    BY <1>1, <2>1 DEF Muxes
  <2>3. Sound(R)
    BY <1>1, <1>f, <2>2, SMTT(30) DEF Sound, Muxes, Queued
  <2>z. Kept(m[e], R)
    BY <1>1, <1>f DEF Kept, Muxes
  <2> QED BY <1>0, <1>5, <2>3, <2>z, OneEnd DEF Settled
<1>6. CASE m' = [m EXCEPT ![e] = r]
  BY <1>0, <1>1, <1>f, <1>6, OneEnd DEF Settled
<1> QED BY <1>2, <1>3, <1>4, <1>5, <1>6

\* The reader's Pong, or the stream in its hand, finds its place.
LEMMA ReaderQueueSound ==
    ASSUME Session, NEW e \in Ends, ReaderQueue(e) PROVE Session' /\ Settled
<1>0. /\ m[e] \in Muxes /\ Sound(m[e]) /\ m[e].rwait \in Commands /\ m[e].rwait # None
      /\ m[e].phase = "up" /\ m[e].reader = "run"
      /\ m[e].cmd \in Seq(Commands) /\ m[e].incoming \in Seq(Ids) /\ wire' \in [Ends -> Seq(Frames)]
  BY DEF Session, ReaderQueue, Muxes, Up
<1>1. CASE m[e].rwait.type = "pong" /\ m[e].open
  <2> DEFINE R == [m[e] EXCEPT !.rwait = None, !.cmd = Append(m[e].cmd, m[e].rwait)]
  <2>1. m' = [m EXCEPT ![e] = R]
    BY <1>1 DEF ReaderQueue, Session
  <2>3. R \in Muxes
    BY <1>0, RangeAppend DEF Muxes
  <2>4. R.cmd = Append(m[e].cmd, m[e].rwait)
    BY <1>0 DEF Muxes
  <2> HIDE DEF R
  <2>5. Queued(R) = Queued(m[e]) \cup (IF m[e].rwait.type = "open" THEN {m[e].rwait.id} ELSE {})
    BY <1>0, <2>4, QueuedAppend
  <2> USE DEF R
  <2>6. Sound(R)
    BY <1>0, <1>1, <2>3, <2>4, <2>5 DEF Sound, Muxes
  <2>z. Kept(m[e], R)
    BY <1>0 DEF Kept, Muxes
  <2> QED BY <1>0, <2>1, <2>6, <2>z, OneEnd DEF Settled
<1>2. CASE m[e].rwait.type = "pong" /\ ~m[e].open
  <2> DEFINE R == [m[e] EXCEPT !.rwait = None]
  <2>1. m' = [m EXCEPT ![e] = R]
    BY <1>2, <1>0, SMTT(20) DEF ReaderQueue, Session, Muxes
  <2>3. R \in Muxes
    BY <1>0 DEF Muxes
  <2>6. Sound(R)
    BY <1>0, <1>2, <2>3 DEF Sound, Muxes, Queued
  <2>z. Kept(m[e], R)
    BY <1>0 DEF Kept, Muxes
  <2> QED BY <1>0, <2>1, <2>6, <2>z, OneEnd DEF Settled
<1>3. CASE m[e].rwait.type # "pong"
  <2> DEFINE R == [m[e] EXCEPT !.rwait = None, !.incoming = Append(m[e].incoming, m[e].rwait.id)]
  <2>1. m' = [m EXCEPT ![e] = R]
    BY <1>3 DEF ReaderQueue, Session
  <2>2. /\ Append(m[e].incoming, m[e].rwait.id) \in Seq(Ids)
        /\ Range(Append(m[e].incoming, m[e].rwait.id)) = Range(m[e].incoming) \cup {m[e].rwait.id}
    BY <1>0, RangeAppend DEF Commands
  <2>3. R \in Muxes
    BY <1>0, <2>2 DEF Muxes
  <2>6. Sound(R)
    BY <1>0, <1>3, <2>2, <2>3 DEF Sound, Muxes, Queued
  <2>z. Kept(m[e], R)
    BY <1>0 DEF Kept, Muxes
  <2> QED BY <1>0, <2>1, <2>6, <2>z, OneEnd DEF Settled
<1> QED BY <1>1, <1>2, <1>3

\* The reader that ends takes the registry with it.
LEMMA ReaderEndsSound ==
    ASSUME Session, NEW e \in Ends, ReaderStops(e) \/ ReaderCloses(e) PROVE Session' /\ Settled
<1>0. /\ m[e] \in Muxes /\ Sound(m[e]) /\ m[e].phase = "up" /\ wire' \in [Ends -> Seq(Frames)]
  BY DEF Session, ReaderStops, ReaderCloses, Up
<1>1. CASE ReaderStops(e)
  <2> DEFINE R == [m[e] EXCEPT !.reader = "stop"]
  <2>1. m' = [m EXCEPT ![e] = R] /\ m[e].reader = "run"
    BY <1>1 DEF ReaderStops, Session
  <2>2. R \in Muxes
    BY <1>0 DEF Muxes
  <2>3. Sound(R)
    BY <1>0, <2>1, <2>2 DEF Sound, Muxes, Queued
  <2>z. Kept(m[e], R)
    BY <1>0 DEF Kept, Muxes
  <2> QED BY <1>0, <2>1, <2>3, <2>z, OneEnd DEF Settled
<1>2. CASE ReaderCloses(e) /\ m[e].reader = "stop"
  <2> DEFINE R == [m[e] EXCEPT !.released = m[e].released \cup m[e].streams, !.streams = {},
                               !.reader = "close", !.rwait = None]
  <2>1. m' = [m EXCEPT ![e] = R]
    BY <1>0, <1>2 DEF ReaderCloses, CloseAll, Session, Muxes
  <2>2. R \in Muxes
    BY <1>0 DEF Muxes
  <2>3. Sound(R)
    BY <1>0, <1>2, <2>2, ZenonT(40) DEF Sound, Muxes, Queued
  <2>z. Kept(m[e], R)
    BY <1>0 DEF Kept, Muxes
  <2> QED BY <1>0, <2>1, <2>3, <2>z, OneEnd DEF Settled
<1>3. CASE ReaderCloses(e) /\ m[e].reader = "close"
  <2> DEFINE R == [m[e] EXCEPT !.reader = "ended", !.closed = TRUE]
  <2>1. m' = [m EXCEPT ![e] = R]
    BY <1>0, <1>3 DEF ReaderCloses, Session
  <2>2. R \in Muxes
    BY <1>0 DEF Muxes
  <2>3. Sound(R)
    BY <1>0, <1>3, <2>2 DEF Sound, Muxes, Queued
  <2>z. Kept(m[e], R)
    BY <1>0 DEF Kept, Muxes
  <2> QED BY <1>0, <2>1, <2>3, <2>z, OneEnd DEF Settled
<1> QED BY <1>1, <1>2, <1>3 DEF ReaderCloses

\* The writer: an OPEN leaves the queue for the registry, and what is still
\* queued when the loop ends is released with the rest.
LEMMA WriterPutSound ==
    ASSUME Session, NEW e \in Ends, WriterPut(e) PROVE Session' /\ Settled
<1> DEFINE f == Head(m[e].cmd)
           r == [m[e] EXCEPT !.cmd = Tail(m[e].cmd)]
<1>0. /\ m[e] \in Muxes /\ Sound(m[e]) /\ m[e].phase = "up" /\ m[e].writer = "run" /\ m[e].cmd # <<>>
      /\ r.cmd = Tail(m[e].cmd)
  BY DEF Session, WriterPut, Up, Muxes
<1> HIDE DEF r
<1>1. /\ f \in Commands /\ Tail(m[e].cmd) \in Seq(Commands)
      /\ Queued(m[e]) = Queued(r) \cup (IF f.type = "open" THEN {f.id} ELSE {})
  BY <1>0, QueuedTail
<1>2. wire' \in [Ends -> Seq(Frames)]
  BY <1>1, WireSend DEF WriterPut, Frames
<1> USE DEF r
<1>3. CASE f.type = "open"
  <2> DEFINE R == [m[e] EXCEPT !.cmd = Tail(m[e].cmd), !.streams = m[e].streams \cup {f.id}]
  <2>1. m' = [m EXCEPT ![e] = R]
    BY <1>0, <1>3 DEF WriterPut, Session, Muxes
  <2>2. R \in Muxes
    BY <1>0, <1>1 DEF Muxes, Commands
  <2>3. Queued(R) = Queued(r)
    BY <1>0 DEF Queued, Muxes
  <2>4. Sound(R)
    BY <1>0, <1>1, <1>3, <2>2, <2>3 DEF Sound, Muxes
  <2>z. Kept(m[e], R)
    BY <1>0 DEF Kept, Muxes
  <2> QED BY <1>2, <2>1, <2>4, <2>z, OneEnd DEF Settled
<1>4. CASE f.type # "open"
  <2>1. m' = [m EXCEPT ![e] = r]
    BY <1>4 DEF WriterPut, Session
  <2>2. r \in Muxes
    BY <1>0, <1>1 DEF Muxes
  <2>3. Sound(r)
    BY <1>0, <1>1, <1>4, <2>2 DEF Sound, Muxes
  <2>z. Kept(m[e], r)
    BY <1>0 DEF Kept, Muxes
  <2> QED BY <1>2, <2>1, <2>3, <2>z, OneEnd DEF Settled
<1> QED BY <1>3, <1>4

\* The writer that ends releases the streams of the opens still queued.
LEMMA WriterEndsSound ==
    ASSUME Session, NEW e \in Ends, WriterStops(e) \/ WriterDrains(e) PROVE Session' /\ Settled
<1>0. /\ m[e] \in Muxes /\ Sound(m[e]) /\ m[e].phase = "up" /\ wire' \in [Ends -> Seq(Frames)]
  BY DEF Session, WriterStops, WriterDrains, Up
<1>1. CASE WriterStops(e)
  <2> DEFINE R == [m[e] EXCEPT !.writer = "drain", !.open = FALSE]
  <2>1. m' = [m EXCEPT ![e] = R]
    BY <1>1 DEF WriterStops, Session
  <2>2. R \in Muxes
    BY <1>0 DEF Muxes
  <2>3. Sound(R)
    BY <1>0, <2>2, ZenonT(40) DEF Sound, Muxes, Queued
  <2>z. Kept(m[e], R)
    BY <1>0 DEF Kept, Muxes
  <2> QED BY <1>0, <2>1, <2>3, <2>z, OneEnd DEF Settled
<1>2. CASE WriterDrains(e)
  <2> DEFINE R == [m[e] EXCEPT !.released = m[e].released \cup m[e].streams \cup Queued(m[e]),
                               !.streams = {}, !.cmd = <<>>, !.writer = "ended", !.closed = TRUE]
  <2>1. m' = [m EXCEPT ![e] = R] /\ m[e].writer = "drain"
    BY <1>0, <1>2 DEF WriterDrains, CloseAll, Queued, Session, Muxes
  <2>q. Queued(m[e]) \subseteq Ids
    BY <1>0, QueuedIds
  <2>u. <<>> \in Seq(Commands) /\ m[e].released \cup m[e].streams \cup Queued(m[e]) \in SUBSET Ids
    BY <1>0, <2>q DEF Muxes
  <2>2. R \in Muxes
    BY <1>0, <2>u DEF Muxes
  <2>3. R.cmd = <<>> /\ R.released = m[e].released \cup m[e].streams \cup Queued(m[e])
    BY <1>0 DEF Muxes
  <2>4. Sound(R)
    BY <1>0, <2>1, <2>2, <2>3, ZenonT(40) DEF Sound, Muxes
  <2>z. Kept(m[e], R)
    BY <1>0 DEF Kept, Muxes
  <2> QED BY <1>0, <2>1, <2>4, <2>z, OneEnd DEF Settled
<1> QED BY <1>1, <1>2

\* A Ping is queued; the watchdog releases what is registered.
LEMMA TimersSound ==
    ASSUME Session, NEW e \in Ends, KeepalivePing(e) \/ Watchdog(e) PROVE Session' /\ Settled
<1>0. /\ m[e] \in Muxes /\ Sound(m[e]) /\ m[e].phase = "up" /\ wire' \in [Ends -> Seq(Frames)]
      /\ m[e].cmd \in Seq(Commands)
  BY DEF Session, KeepalivePing, PingDue, Watchdog, WatchdogDue, Up, Muxes
<1>1. CASE KeepalivePing(e)
  <2> DEFINE R == [m[e] EXCEPT !.cmd = Append(m[e].cmd, Command("ping", 0)), !.ping = 0]
  <2>1. m' = [m EXCEPT ![e] = R] /\ m[e].open
    BY <1>1 DEF KeepalivePing, PingDue, Slot, Session
  <2>2. Command("ping", 0) \in Commands /\ Command("ping", 0).type = "ping"
    BY CommandTyped DEF Ids
  <2>3. R \in Muxes
    BY <1>0, <2>2, RangeAppend DEF Muxes
  <2>4. R.cmd = Append(m[e].cmd, Command("ping", 0))
    BY <1>0 DEF Muxes
  <2> HIDE DEF R
  <2>5. Queued(R) = Queued(m[e]) \cup (IF Command("ping", 0).type = "open" THEN {Command("ping", 0).id} ELSE {})
    BY <1>0, <2>2, <2>4, QueuedAppend
  <2> USE DEF R
  <2>6. Sound(R)
    BY <1>0, <2>1, <2>2, <2>3, <2>4, <2>5 DEF Sound, Muxes
  <2>z. Kept(m[e], R)
    BY <1>0 DEF Kept, Muxes
  <2> QED BY <1>0, <2>1, <2>6, <2>z, OneEnd DEF Settled
<1>2. CASE Watchdog(e) /\ m[e].tearing
  <2> DEFINE R == [m[e] EXCEPT !.closed = TRUE]
  <2>1. m' = [m EXCEPT ![e] = R]
    BY <1>2 DEF Watchdog, Session
  <2>2. R \in Muxes
    BY <1>0 DEF Muxes
  <2>3. Sound(R)
    BY <1>0, <2>2, SoundSame DEF Muxes
  <2>z. Kept(m[e], R)
    BY <1>0 DEF Kept, Muxes
  <2> QED BY <1>0, <2>1, <2>3, <2>z, OneEnd DEF Settled
<1>3. CASE Watchdog(e) /\ ~m[e].tearing
  <2> DEFINE R == [m[e] EXCEPT !.released = m[e].released \cup m[e].streams, !.streams = {},
                               !.tearing = TRUE]
  <2>1. m' = [m EXCEPT ![e] = R]
    BY <1>0, <1>3 DEF Watchdog, CloseAll, Session, Muxes
  <2>2. R \in Muxes
    BY <1>0 DEF Muxes
  <2>3. Sound(R)
    BY <1>0, <2>2, ZenonT(40) DEF Sound, Muxes, Queued
  <2>z. Kept(m[e], R)
    BY <1>0 DEF Kept, Muxes
  <2> QED BY <1>0, <2>1, <2>3, <2>z, OneEnd DEF Settled
<1> QED BY <1>1, <1>2, <1>3

\* A stream that open or accept returns is queued, registered or released.
LEMMA ApplicationSound ==
    ASSUME Session, NEW e \in Ends, Open(e) \/ OpenReturns(e) \/ Accept(e) PROVE Session' /\ Settled
<1>0. /\ m[e] \in Muxes /\ Sound(m[e]) /\ m[e].phase = "up" /\ wire' \in [Ends -> Seq(Frames)]
      /\ m[e].cmd \in Seq(Commands) /\ m[e].incoming \in Seq(Ids) /\ m[e].next \in Nat
  BY DEF Session, Open, OpenReturns, Accept, Up, Muxes
<1>1. CASE Open(e)
  <2> DEFINE R == [m[e] EXCEPT !.opening = <<e, m[e].next>>, !.next = m[e].next + 1]
  <2>1. m' = [m EXCEPT ![e] = R]
    BY <1>1 DEF Open, Session
  <2>2. <<e, m[e].next>> \in Ids /\ m[e].next + 1 \in Nat
    BY <1>0 DEF Ids
  <2>3. R \in Muxes
    BY <1>0, <2>2 DEF Muxes
  <2>4. Sound(R)
    BY <1>0, <2>3, SoundSame DEF Muxes
  <2>z. Kept(m[e], R)
    BY <1>0 DEF Kept, Muxes
  <2> QED BY <1>0, <2>1, <2>4, <2>z, OneEnd DEF Settled
<1>2. CASE OpenReturns(e)
  <2>0. m[e].opening \in Ids
    BY <1>0, <1>2 DEF OpenReturns, Muxes
  <2>a. CASE m[e].open
    <3> DEFINE f == Command("open", m[e].opening)
               R == [m[e] EXCEPT !.opening = None, !.handles = m[e].handles \cup {m[e].opening},
                                 !.cmd = Append(m[e].cmd, f)]
    <3>1. m' = [m EXCEPT ![e] = R]
      BY <1>2, <2>a DEF OpenReturns, Session
    <3>2. f \in Commands /\ f.type = "open" /\ f.id = m[e].opening
      BY <2>0, CommandTyped
    <3> HIDE DEF f
    <3>3. R \in Muxes
      BY <1>0, <2>0, <3>2, RangeAppend DEF Muxes
    <3>4. R.cmd = Append(m[e].cmd, f)
      BY <1>0 DEF Muxes
    <3> HIDE DEF R
    <3>5. Queued(R) = Queued(m[e]) \cup (IF f.type = "open" THEN {f.id} ELSE {})
      BY <1>0, <3>2, <3>4, QueuedAppend, ZenonT(40)
    <3> USE DEF R
    <3>6. Sound(R)
      BY <1>0, <2>a, <3>2, <3>3, <3>4, <3>5 DEF Sound, Muxes
    <3>z. Kept(m[e], R)
      BY <1>0 DEF Kept, Muxes
    <3> QED BY <1>0, <3>1, <3>6, <3>z, OneEnd DEF Settled
  <2>b. CASE ~m[e].open
    <3> DEFINE R == [m[e] EXCEPT !.opening = None]
    <3>1. m' = [m EXCEPT ![e] = R]
      BY <1>2, <2>b DEF OpenReturns, Slot, Session
    <3>2. R \in Muxes
      BY <1>0 DEF Muxes
    <3>3. Sound(R)
      BY <1>0, <3>2, SoundSame DEF Muxes
    <3>z. Kept(m[e], R)
      BY <1>0 DEF Kept, Muxes
    <3> QED BY <1>0, <3>1, <3>3, <3>z, OneEnd DEF Settled
  <2> QED BY <2>a, <2>b
<1>3. CASE Accept(e)
  <2> DEFINE R == [m[e] EXCEPT !.handles = m[e].handles \cup {Head(m[e].incoming)},
                               !.incoming = Tail(m[e].incoming)]
  <2>1. m' = [m EXCEPT ![e] = R] /\ m[e].incoming # <<>>
    BY <1>3 DEF Accept, Session
  <2>2. /\ Head(m[e].incoming) \in Ids /\ Tail(m[e].incoming) \in Seq(Ids)
        /\ Range(m[e].incoming) = {Head(m[e].incoming)} \cup Range(Tail(m[e].incoming))
    BY <1>0, <2>1, RangeTail
  <2>3. R \in Muxes
    BY <1>0, <2>2 DEF Muxes
  <2>4. Sound(R)
    BY <1>0, <2>2, <2>3 DEF Sound, Muxes, Queued
  <2>z. Kept(m[e], R)
    BY <1>0 DEF Kept, Muxes
  <2> QED BY <1>0, <2>1, <2>4, <2>z, OneEnd DEF Settled
<1> QED BY <1>1, <1>2, <1>3

\* Time touches clocks only.
LEMMA TickSound == Session /\ Tick => Session' /\ Settled
<1> SUFFICES ASSUME Session, Tick PROVE Session' /\ Settled
  OBVIOUS
<1>1. wire' \in [Ends -> Seq(Frames)]
  BY DEF Tick, Session
<1>i. \A n \in Nat : Inc(n) \in Nat /\ Older(n) \in Nat
  BY DEF Inc, Older
<1>2. ASSUME NEW e \in Ends PROVE m'[e] \in Muxes /\ Sound(m'[e]) /\ Kept(m[e], m'[e])
  <2>0. m[e] \in Muxes /\ Sound(m[e]) /\ m[e].silent \in Nat /\ m[e].mono \in Nat /\ m[e].ping \in Nat
    BY DEF Session, Muxes
  <2>1. \/ m'[e] = m[e]
        \/ m'[e] = [m[e] EXCEPT !.silent = Inc(m[e].silent), !.ping = Older(m[e].ping), !.mono = Inc(m[e].mono)]
        \/ m'[e] = [m[e] EXCEPT !.silent = Inc(m[e].silent), !.ping = Older(m[e].ping), !.mono = m[e].mono]
    <3>1. m' = [x \in Ends |-> IF m[x].closed THEN m[x]
                              ELSE [m[x] EXCEPT !.silent = Inc(@), !.ping = Older(@),
                                      !.mono = IF Running(x) THEN Inc(@) ELSE @]]
      BY DEF Tick
    <3>2. m'[e] = IF m[e].closed THEN m[e]
                  ELSE [m[e] EXCEPT !.silent = Inc(m[e].silent), !.ping = Older(m[e].ping),
                          !.mono = IF Running(e) THEN Inc(m[e].mono) ELSE m[e].mono]
      BY <3>1
    <3>3. CASE Running(e)
      BY <3>2, <3>3
    <3>4. CASE ~Running(e)
      BY <3>2, <3>4
    <3> QED BY <3>3, <3>4
  <2>i. Inc(m[e].silent) \in Nat /\ Inc(m[e].mono) \in Nat /\ Older(m[e].ping) \in Nat
    BY <1>i, <2>0
  <2>2. m'[e] \in Muxes
    <3>2. PICK a \in Nat, b \in Nat, c \in Nat, d \in Nat :
            a = Inc(m[e].silent) /\ b = Inc(m[e].mono) /\ c = Older(m[e].ping) /\ d = m[e].mono
      BY <2>i, <2>0
    <3>3. \/ m'[e] = m[e] \/ m'[e] = [m[e] EXCEPT !.silent = a, !.ping = c, !.mono = b]
          \/ m'[e] = [m[e] EXCEPT !.silent = a, !.ping = c, !.mono = d]
      BY <2>1, <3>2
    <3>4. /\ [m[e] EXCEPT !.silent = a, !.ping = c, !.mono = b] \in Muxes
          /\ [m[e] EXCEPT !.silent = a, !.ping = c, !.mono = d] \in Muxes
      BY <2>0 DEF Muxes
    <3> QED BY <2>0, <3>3, <3>4
  <2>3. /\ m'[e].phase = m[e].phase /\ m'[e].reader = m[e].reader /\ m'[e].writer = m[e].writer
        /\ m'[e].cmd = m[e].cmd /\ m'[e].open = m[e].open /\ m'[e].incoming = m[e].incoming
        /\ m'[e].rwait = m[e].rwait /\ m'[e].streams = m[e].streams
        /\ m'[e].handles = m[e].handles /\ m'[e].released = m[e].released
    BY <2>0, <2>1, ZenonT(40) DEF Muxes
  <2>4. Kept(m[e], m'[e])
    BY <2>0, <2>1 DEF Kept, Muxes
  <2> QED BY <2>0, <2>2, <2>3, <2>4, SoundSame
<1>3. m' \in [Ends -> Muxes]
  <2>1. m' = [e \in Ends |-> m'[e]]
    BY DEF Tick
  <2> QED BY <1>2, <2>1
<1> QED BY <1>1, <1>2, <1>3 DEF Session, Settled

\* Every step keeps both ends sound.
LEMMA SessionStep == Session /\ [LifecycleNext]_lifecycleVars => Session'
<1> SUFFICES ASSUME Session, [LifecycleNext]_lifecycleVars PROVE Session'
  OBVIOUS
<1>1. ASSUME NEW e \in Ends, Tasks(e) \/ Open(e) PROVE Session'
  BY <1>1, HelloWriteSound, HelloReadSound, ReaderTakeSound, ReaderQueueSound, ReaderEndsSound, WriterPutSound,
     WriterEndsSound, TimersSound, ApplicationSound DEF Tasks
<1>2. ASSUME Cut \/ Sleep \/ Wake \/ UNCHANGED lifecycleVars PROVE Session'
  <2>1. m' = m /\ wire' = wire
    BY <1>2 DEF Cut, Sleep, Wake, lifecycleVars
  <2> QED BY <2>1 DEF Session
<1> QED BY <1>1, <1>2, HandshakeSound, TickSound DEF LifecycleNext

\* Both ends start without streams.
LEMMA SessionStart == LifecycleInit => Session
<1> SUFFICES ASSUME LifecycleInit PROVE Session
  OBVIOUS
<1>1. PICK h \in Hellos :
        m = [e \in Ends |-> [phase |-> "noise", hello |-> h[e], peer |-> None, tol |-> 0, grace |-> 0,
                        reader |-> "off", rwait |-> None, writer |-> "off",
                        cmd |-> <<>>, open |-> FALSE, streams |-> {}, incoming |-> <<>>,
                        handles |-> {}, released |-> {}, opening |-> None, next |-> 0,
                        closed |-> FALSE, tearing |-> FALSE, aborted |-> FALSE,
                        silent |-> 0, mono |-> 0, ping |-> Period]]
  BY DEF LifecycleInit
<1>2. h \in [Ends -> HelloRecords] /\ <<>> \in Seq(Commands) /\ <<>> \in Seq(Ids) /\ <<>> \in Seq(Frames)
  BY LifecycleAssumption
<1>3. wire \in [Ends -> Seq(Frames)]
  BY <1>2 DEF LifecycleInit
<1>4. ASSUME NEW e \in Ends PROVE m[e] \in Muxes /\ Sound(m[e])
  <2>1. m[e] = [phase |-> "noise", hello |-> h[e], peer |-> None, tol |-> 0, grace |-> 0,
                reader |-> "off", rwait |-> None, writer |-> "off",
                cmd |-> <<>>, open |-> FALSE, streams |-> {}, incoming |-> <<>>,
                handles |-> {}, released |-> {}, opening |-> None, next |-> 0,
                closed |-> FALSE, tearing |-> FALSE, aborted |-> FALSE,
                silent |-> 0, mono |-> 0, ping |-> Period]
    BY <1>1
  <2>2. m[e] \in Muxes
    BY <1>2, <2>1, LifecycleAssumption DEF Muxes
  <2> QED BY <2>1, <2>2, RangeEmpty DEF Sound
<1>5. m \in [Ends -> Muxes]
  BY <1>1, <1>4
<1> QED BY <1>3, <1>4, <1>5 DEF Session

\* However a session ends, whichever tasks were in the middle of whatever,
\* once an end has nothing left to do no stream is left hanging.
THEOREM NoStreamLeftHanging == LifecycleSpec => []NothingLeftHanging
<1>1. Session => NothingLeftHanging
  <2> SUFFICES ASSUME Session, NEW e \in Ends, Up(e), m[e].closed, ~Busy(e)
               PROVE  /\ m[e].reader = "ended" /\ m[e].writer = "ended" /\ m[e].opening = None
                      /\ m[e].streams = {} /\ m[e].handles \subseteq m[e].released
    BY DEF NothingLeftHanging
  <2>0. m[e] \in Muxes /\ Sound(m[e]) /\ m[e].phase = "up"
    BY DEF Session, Up
  <2>1. m[e].reader = "ended" /\ m[e].writer = "ended"
    BY <2>0 DEF Busy, Sound, Muxes
  <2>2. m[e].opening = None
    BY <2>0, <2>1 DEF Busy, Sound
  <2>3. m[e].streams = {} /\ m[e].cmd = <<>>
    BY <2>0, <2>1 DEF Sound
  <2>4. Queued(m[e]) = {}
    BY <2>3, RangeEmpty DEF Queued
  <2> QED BY <2>0, <2>1, <2>2, <2>3, <2>4 DEF Sound
<1> QED BY <1>1, SessionStart, SessionStep, PTL DEF LifecycleSpec

-----------------------------------------------------------------------------
(* What the two ends agreed on in the HELLO.                               *)

\* A HELLO under way is its sender's, and an end that is up computed its
\* tolerances from it.
Agreed ==
    \A e \in Ends :
        /\ \A f \in Range(wire[e]) : f.type = "hello" => f.hello = m[Peer(e)].hello
        /\ m[e].phase = "up" =>
             LET p == HelloDecode(m[Peer(e)].hello)
             IN  /\ m[e].peer = p
                 /\ m[e].tol = Tolerance(m[e].hello, p) /\ m[e].grace = Tolerance(p, m[e].hello)

\* Both ends arrive at the same number for each direction, although one of
\* them read the other's HELLO through decode's default.
LEMMA ToleranceAgrees ==
    ASSUME NEW c \in HelloRecords, NEW s \in HelloRecords
    PROVE  Tolerance(HelloDecode(s), c) = Tolerance(s, HelloDecode(c))
BY DEF Tolerance, HelloDecode, HelloRecords

\* A step that adds no HELLO to the wire and negotiates nothing.
LEMMA AgreedSame ==
    ASSUME Session, Agreed,
           \A e \in Ends : \A f \in Range(wire'[e]) : f \in Range(wire[e]) \/ f.type # "hello",
           Settled
    PROVE  Agreed'
<1>1. \A e \in Ends : Peer(e) \in Ends
  BY DEF Ends, Peer
<1> QED BY <1>1 DEF Agreed, Settled, Kept

\* Reading adds no frame to a wire.
LEMMA WireKept ==
    ASSUME Session, NEW e \in Ends, wire[e] # <<>>, wire' = [wire EXCEPT ![e] = Tail(@)]
    PROVE  /\ \A x \in Ends : \A f \in Range(wire'[x]) : f \in Range(wire[x])
           /\ Head(wire[e]) \in Range(wire[e])
<1>1. wire[e] \in Seq(Frames) /\ Range(wire[e]) = {Head(wire[e])} \cup Range(Tail(wire[e]))
  BY RangeTail DEF Session
<1> QED BY <1>1 DEF Session

\* Writing adds the frame written, and no other.
LEMMA WireGrows ==
    ASSUME Session, NEW e \in Ends, NEW f \in Frames, Send(e, f)
    PROVE  \A x \in Ends : \A g \in Range(wire'[x]) : g \in Range(wire[x]) \/ (x = Peer(e) /\ g = f)
<1>1. Peer(e) \in Ends /\ wire[Peer(e)] \in Seq(Frames)
  BY DEF Session, Peer, Ends
<1>2. Range(Append(wire[Peer(e)], f)) = Range(wire[Peer(e)]) \cup {f}
  BY <1>1, RangeAppend
<1> QED BY <1>1, <1>2 DEF Session, Send

\* Every step keeps the HELLOs under way true and the tolerances agreed.
LEMMA AgreedStep == Session /\ Agreed /\ [LifecycleNext]_lifecycleVars => Agreed'
<1> SUFFICES ASSUME Session, Agreed, [LifecycleNext]_lifecycleVars PROVE Agreed'
  OBVIOUS
<1>0. \A e \in Ends : Peer(e) \in Ends /\ Peer(Peer(e)) = e
  BY DEF Ends, Peer
<1>k. /\ "client" \in Ends /\ "server" \in Ends /\ m["client"].hello \in HelloRecords
      /\ \A e \in Ends : wire[e] \in Seq(Frames) /\ m[e].hello \in HelloRecords
  BY DEF Session, Ends, Muxes
<1>1. CASE Handshake
  <2>1. Settled
    BY <1>1, HandshakeSound
  <2>2. \A x \in Ends : \A f \in Range(wire'[x]) : f \in Range(wire[x]) \/ f.type # "hello"
    <3>1. CASE NoiseStart
      <4> DEFINE g == [type |-> "msg1", major |-> m["client"].hello.major]
      <4>1. g \in Frames /\ g.type # "hello" /\ Send("client", g)
        BY <1>k, <3>1 DEF Frames, HelloRecords, NoiseStart
      <4> HIDE DEF g
      <4>2. "client" \in Ends /\ g \in Frames /\ Send("client", g)
        BY <1>k, <4>1
      <4>3. \A x \in Ends : \A f \in Range(wire'[x]) : f \in Range(wire[x]) \/ (x = Peer("client") /\ f = g)
        BY <4>2, WireGrows
      <4> QED BY <4>1, <4>3
    <3>2. CASE NoiseReply
      <4> DEFINE g == [type |-> "msg2"]
      <4>1. g \in Frames /\ g.type # "hello" /\ Send("server", g)
        BY <3>2 DEF Frames, NoiseReply
      <4> HIDE DEF g
      <4>2. "server" \in Ends /\ g \in Frames /\ Send("server", g)
        BY <1>k, <4>1
      <4>3. \A x \in Ends : \A f \in Range(wire'[x]) : f \in Range(wire[x]) \/ (x = Peer("server") /\ f = g)
        BY <4>2, WireGrows
      <4> QED BY <4>1, <4>3
    <3>3. CASE NoiseAccept
      BY <1>k, <3>3, WireKept DEF NoiseAccept, Recv
    <3>4. CASE NoiseDone
      BY <1>k, <3>4, WireKept DEF NoiseDone, Recv
    <3> QED BY <1>1, <3>1, <3>2, <3>3, <3>4 DEF Handshake
  <2> QED BY <2>1, <2>2, AgreedSame
<1>2. CASE Tick \/ Cut \/ Sleep \/ Wake \/ UNCHANGED lifecycleVars
  <2>1. Settled
    BY <1>2, TickSound DEF Cut, Sleep, Wake, lifecycleVars, Settled, Kept
  <2>2. wire' = wire
    BY <1>2 DEF Tick, Cut, Sleep, Wake, lifecycleVars
  <2> QED BY <2>1, <2>2, AgreedSame
<1>3. ASSUME NEW e \in Ends, HelloWrite(e) PROVE Agreed'
  <2>1. Settled
    BY <1>3, HelloWriteSound
  <2> DEFINE g == [type |-> "hello", hello |-> m[e].hello]
  <2>2. g \in Frames /\ Send(e, g)
    BY <1>3, <1>k DEF HelloWrite, Frames
  <2>3. \A x \in Ends : \A f \in Range(wire'[x]) : f \in Range(wire[x]) \/ (x = Peer(e) /\ f = g)
    BY <2>2, WireGrows
  <2> QED BY <1>0, <2>1, <2>3 DEF Agreed, Settled, Kept
<1>4. ASSUME NEW e \in Ends, HelloRead(e) PROVE Agreed'
  <2>1. /\ wire[e] # <<>> /\ Head(wire[e]).type = "hello" /\ wire' = [wire EXCEPT ![e] = Tail(@)]
    BY <1>4 DEF HelloRead, Recv
  <2>2. /\ \A x \in Ends : \A f \in Range(wire'[x]) : f \in Range(wire[x])
        /\ Head(wire[e]) \in Range(wire[e])
    BY <2>1, WireKept
  <2>3. Head(wire[e]).hello = m[Peer(e)].hello
    BY <2>1, <2>2 DEF Agreed
  <2> DEFINE p == HelloDecode(m[Peer(e)].hello)
  <2>4. \A x \in Ends : /\ m'[x].hello = m[x].hello
                        /\ x # e => m'[x] = m[x]
                        /\ x = e /\ m'[x].phase = "up" => /\ m'[x].peer = p
                                                          /\ m'[x].tol = Tolerance(m[e].hello, p)
                                                          /\ m'[x].grace = Tolerance(p, m[e].hello)
    <3>1. m \in [Ends -> Muxes] /\ m[e] \in Muxes
      BY DEF Session
    <3> QED BY <1>4, <2>3, <3>1, SMTT(30) DEF HelloRead, Fail, Muxes
  <2> HIDE DEF p
  <2>5. \A x \in Ends : \A f \in Range(wire'[x]) : f.type = "hello" => f.hello = m'[Peer(x)].hello
    BY <1>0, <2>2, <2>4 DEF Agreed
  <2> USE DEF p
  <2>6. ASSUME NEW x \in Ends, m'[x].phase = "up"
        PROVE  /\ m'[x].peer = HelloDecode(m'[Peer(x)].hello)
               /\ m'[x].tol = Tolerance(m'[x].hello, HelloDecode(m'[Peer(x)].hello))
               /\ m'[x].grace = Tolerance(HelloDecode(m'[Peer(x)].hello), m'[x].hello)
    <3>1. CASE x = e
      BY <1>0, <2>4, <2>6, <3>1
    <3>2. CASE x # e
      BY <1>0, <2>4, <2>6, <3>2 DEF Agreed
    <3> QED BY <3>1, <3>2
  <2> QED BY <2>5, <2>6 DEF Agreed
<1>5. ASSUME NEW e \in Ends, ReaderTake(e) PROVE Agreed'
  <2>1. Settled
    BY <1>5, ReaderTakeSound
  <2>2. \A x \in Ends : \A f \in Range(wire'[x]) : f \in Range(wire[x])
    BY <1>5, WireKept DEF ReaderTake
  <2> QED BY <2>1, <2>2, AgreedSame
<1>6. ASSUME NEW e \in Ends, WriterPut(e) PROVE Agreed'
  <2>1. Settled
    BY <1>6, WriterPutSound
  <2>2. Head(m[e].cmd) \in Commands /\ Send(e, Head(m[e].cmd))
    <3>1. m[e].cmd \in Seq(Commands) /\ m[e].cmd # <<>>
      BY <1>6 DEF Session, WriterPut, Muxes
    <3> QED BY <1>6, <3>1, RangeTail DEF WriterPut
  <2>3. Head(m[e].cmd) \in Frames /\ Head(m[e].cmd).type # "hello"
    BY <2>2 DEF Frames, Commands
  <2>4. \A x \in Ends : \A f \in Range(wire'[x]) : f \in Range(wire[x]) \/ f.type # "hello"
    BY <2>2, <2>3, WireGrows
  <2> QED BY <2>1, <2>4, AgreedSame
<1>7. ASSUME NEW e \in Ends,
             \/ StartFails(e) \/ ReaderQueue(e) \/ ReaderStops(e) \/ ReaderCloses(e)
             \/ WriterStops(e) \/ WriterDrains(e) \/ KeepalivePing(e) \/ Watchdog(e)
             \/ OpenReturns(e) \/ Accept(e) \/ Open(e)
      PROVE  Agreed'
  <2>1. Settled
    BY <1>7, HelloWriteSound, ReaderQueueSound, ReaderEndsSound, WriterEndsSound, TimersSound,
       ApplicationSound
  <2>2. wire' = wire
    BY <1>7 DEF StartFails, ReaderQueue, ReaderStops, ReaderCloses, WriterStops, WriterDrains,
          KeepalivePing, Watchdog, OpenReturns, Accept, Open
  <2> QED BY <2>1, <2>2, AgreedSame
<1> QED BY <1>1, <1>2, <1>3, <1>4, <1>5, <1>6, <1>7 DEF LifecycleNext, Tasks

\* A client that is awake and still believes in its session is within the
\* silence its server granted, for every pair of HELLOs: old peers, clamped
\* requests and any sleep included.
THEOREM GivenUpIsNoticed == LifecycleSpec => []GivenUpNoticed
<1>1. LifecycleInit => Agreed
  <2> SUFFICES ASSUME LifecycleInit PROVE Agreed
    OBVIOUS
  <2>1. \A e \in Ends : wire[e] = <<>> /\ m[e].phase # "up"
    BY DEF LifecycleInit
  <2> QED BY <2>1, RangeEmpty DEF Agreed
<1>2. Session /\ Agreed => GivenUpNoticed
  <2> SUFFICES ASSUME Session, Agreed, Up("client"), Keepalive("client"), ~m["client"].closed,
                      ~Busy("client"), m["server"].phase = "up"
               PROVE  m["client"].silent <= m["server"].tol
    BY DEF GivenUpNoticed
  <2>1. ~WatchdogDue("client") /\ m["client"].phase = "up"
    BY DEF Busy, Up
  <2>2. /\ m["client"].silent \in Nat /\ m["client"].grace \in Nat /\ m["client"].hello \in HelloRecords
        /\ m["server"].hello \in HelloRecords
    BY DEF Session, Muxes, Ends
  <2>3. m["client"].silent <= m["client"].grace
    BY <2>1, <2>2 DEF WatchdogDue, WallClockStale
  <2>4. m["client"].grace = m["server"].tol
    BY <2>1, <2>2, ToleranceAgrees DEF Agreed, Ends, Peer
  <2> QED BY <2>3, <2>4
<1> QED BY <1>1, <1>2, SessionStart, SessionStep, AgreedStep, PTL DEF LifecycleSpec

-----------------------------------------------------------------------------
(* A session nobody disturbs.                                              *)

\* Sleeping is what makes the client mute, and it sleeps after the handshake.
Clocks ==
    /\ slept \in Nat /\ mute \in Nat /\ mute <= slept /\ (~awake => mute = slept)
    /\ slept > 0 => \A e \in Ends : m[e].phase \in {"up", "failed"}

Quiet == ~cut /\ ~jam /\ \A e \in Ends : m[e].phase # "failed"

\* What NoSpuriousDeath allows as the cause of a death.
Excused ==
    UsedUp \/ \E x \in Ends : m[x].aborted

CalmEnd(r) ==
    /\ ~r.closed /\ ~r.tearing /\ ~r.aborted
    /\ IF r.phase = "up" THEN r.reader = "run" /\ r.writer = "run" ELSE r.ping = Period

\* The last Ping of e is queued, or under way behind other frames, or its peer
\* has not been without a frame for longer than that Ping is old and e slept.
Pinged(e) ==
    Keepalive(e) => \/ m[e].cmd # <<>> \/ wire[Peer(e)] # <<>>
                    \/ m[Peer(e)].silent <= m[e].ping + slept /\ m[Peer(e)].mono <= m[e].ping + slept

\* Nobody tears anything down, and no clock ran further than the sleep and a
\* ping period.
Calm ==
    /\ fin = {}
    /\ \A e \in Ends : /\ CalmEnd(m[e]) /\ Pinged(e)
                       /\ Keepalive(e) => m[e].silent <= Silence /\ m[e].mono <= Silence
    /\ (\E e \in Ends : m[e].phase # "up") => \A e \in Ends : m[e].silent = 0 /\ m[e].mono = 0

CalmInv == Clocks /\ (Quiet /\ ~Excused => Calm)

\* The other end of the other end.
LEMMA PeerIs == \A e \in Ends : Peer(e) \in Ends /\ Peer(e) # e /\ Peer(Peer(e)) = e /\ Ends = {e, Peer(e)}
BY DEF Ends, Peer

\* No tolerance is zero.
LEMMA ToleranceAtLeastOne ==
    ASSUME NEW h \in HelloRecords, NEW p \in HelloRecords PROVE Tolerance(h, p) >= 1
BY LifecycleAssumption DEF Tolerance, ClampTolerance, HelloRecords

\* Decoding a HELLO keeps its capabilities.
LEMMA DecodeKeepsCaps ==
    ASSUME NEW h \in HelloRecords
    PROVE  HelloDecode(h) \in HelloRecords /\ HelloDecode(h) # None /\ HelloDecode(h).caps = h.caps
BY LifecycleAssumption DEF HelloDecode, HelloRecords

\* Two ends that are up both send Pings or neither does.
LEMMA KeepaliveShared ==
    ASSUME Session, Agreed, NEW e \in Ends, m[e].phase = "up", m[Peer(e)].phase = "up", Keepalive(e)
    PROVE  Keepalive(Peer(e))
<1>1. Peer(e) \in Ends /\ Peer(Peer(e)) = e /\ m[e].hello \in HelloRecords /\ m[Peer(e)].hello \in HelloRecords
  BY PeerIs DEF Session, Muxes
<1>2. m[e].peer = HelloDecode(m[Peer(e)].hello) /\ m[Peer(e)].peer = HelloDecode(m[e].hello)
  BY <1>1 DEF Agreed
<1>3. Caps(e) = m[e].hello.caps \cap m[Peer(e)].hello.caps
  BY <1>1, <1>2, DecodeKeepsCaps DEF Caps
<1>4. Caps(Peer(e)) = m[Peer(e)].hello.caps \cap m[e].hello.caps
  BY <1>1, <1>2, DecodeKeepsCaps DEF Caps
<1> QED BY <1>3, <1>4 DEF Keepalive

\* In a calm session no timer and no watchdog is due.
LEMMA NoneStale ==
    ASSUME Session, Agreed, Clocks, Calm, ~Excused, NEW e \in Ends, m[e].phase = "up", Keepalive(e)
    PROVE  m[e].silent <= m[e].grace /\ m[e].mono < m[e].tol
<1>0. /\ "client" \in Ends /\ "server" \in Ends /\ Peer("client") = "server" /\ Peer("server") = "client"
      /\ Silence \in Nat
      /\ \A x \in Ends : /\ m[x].silent \in Nat /\ m[x].mono \in Nat /\ m[x].tol \in Nat /\ m[x].grace \in Nat
                         /\ m[x].hello \in HelloRecords
  BY LifecycleAssumption DEF Session, Muxes, Ends, Peer, Clocks, Silence
<1>1. CASE \E x \in Ends : m[x].phase # "up"
  <2>1. m[e].silent = 0 /\ m[e].mono = 0
    BY <1>1 DEF Calm
  <2>2. m[e].tol >= 1
    BY <1>0, PeerIs, DecodeKeepsCaps, ToleranceAtLeastOne DEF Agreed
  <2> QED BY <1>0, <2>1, <2>2
<1>2. CASE \A x \in Ends : m[x].phase = "up"
  <2>1. m[e].silent <= Silence /\ m[e].mono <= Silence
    BY DEF Calm
  <2>2. m["client"].grace = m["server"].tol /\ m["client"].tol = m["server"].grace
    <3>1. \A x \in Ends : m[x].tol = Tolerance(m[x].hello, HelloDecode(m[Peer(x)].hello))
                          /\ m[x].grace = Tolerance(HelloDecode(m[Peer(x)].hello), m[x].hello)
      BY <1>2 DEF Agreed
    <3> QED BY <1>0, <3>1, ToleranceAgrees
  <2>3. Silence < m["server"].tol /\ Silence < m["server"].grace
    BY <1>0, <1>2 DEF Excused, UsedUp
  <2>4. Silence < m[e].tol /\ Silence < m[e].grace
    BY <2>2, <2>3 DEF Ends
  <2> QED BY <1>0, <2>1, <2>4
<1> QED BY <1>1, <1>2

\* A step of an end that is not up yet.
LEMMA CalmStarting ==
    ASSUME Session, Calm, NEW e \in Ends, m[e].phase # "up", NEW R, CalmEnd(R),
           R.silent = m[e].silent, R.mono = m[e].mono, R.ping = m[e].ping, m' = [m EXCEPT ![e] = R],
           fin' = fin, slept' = slept, slept \in Nat
    PROVE  Calm'
<1>1. \A x \in Ends : m[x].silent = 0 /\ m[x].mono = 0 /\ CalmEnd(m[x])
  BY DEF Calm
<1>2. \A x \in Ends : m'[x] = IF x = e THEN R ELSE m[x]
  BY DEF Session
<1>3. \A x \in Ends : m'[x].silent = 0 /\ m'[x].mono = 0 /\ CalmEnd(m'[x])
  BY <1>1, <1>2
<1>4. \A x \in Ends : Pinged(x)'
  <2>1. \A x \in Ends : m'[x].ping \in Nat
    BY <1>2, PeerIs DEF Session, Muxes
  <2> QED BY <1>3, <2>1, PeerIs DEF Pinged
<1>5. \A x \in Ends : CalmEnd(m[x])'
  BY <1>3 DEF CalmEnd
<1>6. \A x \in Ends : m'[x].silent <= Silence' /\ m'[x].mono <= Silence'
  BY <1>3, LifecycleAssumption DEF Silence
<1>7. fin' = {}
  BY DEF Calm
<1> QED BY <1>3, <1>4, <1>5, <1>6, <1>7 DEF Calm

\* A step of one end that is up: what it does to its clocks, its queue and
\* the wires.
LEMMA CalmOne ==
    ASSUME Session, Calm, Settled, NEW e \in Ends, NEW R, CalmEnd(R), m' = [m EXCEPT ![e] = R],
           fin' = fin, slept' = slept, slept \in Nat,
           (R.silent = m[e].silent /\ R.mono = m[e].mono) \/ (R.silent = 0 /\ R.mono = 0),
           R.ping = m[e].ping \/ R.cmd # <<>>,
           R.cmd # <<>> \/ R.cmd = m[e].cmd \/ wire'[Peer(e)] # <<>>,
           \A x \in Ends : wire'[x] # <<>> \/ wire'[x] = wire[x] \/ (x = e /\ R.silent = 0 /\ R.mono = 0)
    PROVE  Calm'
<1>0. Peer(e) \in Ends /\ Peer(e) # e /\ Peer(Peer(e)) = e /\ Ends = {e, Peer(e)}
  BY PeerIs
<1>2. m'[e] = R /\ m'[Peer(e)] = m[Peer(e)]
  BY <1>0 DEF Session
<1>3. \A x \in Ends : (m'[x].silent = m[x].silent /\ m'[x].mono = m[x].mono) \/ (m'[x].silent = 0 /\ m'[x].mono = 0)
  BY <1>0, <1>2
<1>4. \A x \in Ends : CalmEnd(m[x])'
  BY <1>0, <1>2 DEF CalmEnd, Calm
<1>7. \A x \in Ends : Keepalive(x)' => Keepalive(x)
  BY DEF Settled, Kept, Keepalive, Caps
<1>5. Pinged(e)'
  <2>1. SUFFICES ASSUME Keepalive(e), R.cmd = <<>>, wire'[Peer(e)] = <<>>
                 PROVE  m[Peer(e)].silent <= m[e].ping + slept /\ m[Peer(e)].mono <= m[e].ping + slept
    BY <1>0, <1>2, <1>7 DEF Pinged
  <2>2. m[e].cmd = <<>> /\ wire[Peer(e)] = <<>>
    BY <1>0, <2>1
  <2> QED BY <1>0, <2>1, <2>2 DEF Pinged, Calm
<1>6. Pinged(Peer(e))'
  <2>1. SUFFICES ASSUME Keepalive(Peer(e)), m[Peer(e)].cmd = <<>>, wire'[e] = <<>>
                 PROVE  R.silent <= m[Peer(e)].ping + slept /\ R.mono <= m[Peer(e)].ping + slept
    BY <1>0, <1>2, <1>7 DEF Pinged
  <2>2. m[Peer(e)].ping \in Nat
    BY <1>0 DEF Session, Muxes
  <2>3. CASE R.silent = 0 /\ R.mono = 0
    BY <2>2, <2>3
  <2>4. CASE R.silent = m[e].silent /\ R.mono = m[e].mono /\ wire[e] = <<>>
    BY <1>0, <2>1, <2>4 DEF Pinged, Calm
  <2> QED BY <1>0, <2>1, <2>3, <2>4
<1>8. \A x \in Ends : Keepalive(x)' => m'[x].silent <= Silence' /\ m'[x].mono <= Silence'
  BY <1>3, <1>7, LifecycleAssumption DEF Calm, Silence
<1>9. (\E x \in Ends : m'[x].phase # "up") => \A x \in Ends : m'[x].silent = 0 /\ m'[x].mono = 0
  BY <1>3 DEF Calm, Settled, Kept
<1>10. fin' = {}
  BY DEF Calm
<1> QED BY <1>0, <1>4, <1>5, <1>6, <1>8, <1>9, <1>10 DEF Calm

\* The handshake, while it does not fail.
LEMMA HandshakeCalm ==
    ASSUME Session, Calm, Clocks, Quiet',
           \/ Handshake
           \/ \E e \in Ends : HelloWrite(e) \/ HelloRead(e) \/ StartFails(e)
    PROVE  Calm'
<1>0. /\ "client" \in Ends /\ "server" \in Ends /\ m \in [Ends -> Muxes] /\ slept \in Nat
      /\ \A x \in Ends : CalmEnd(m[x]) /\ m[x] \in Muxes /\ m'[x].phase # "failed"
  BY DEF Session, Ends, Calm, Clocks, Quiet
<1>1. ASSUME NEW e \in Ends, NEW p \in {"msg2", "hello", "answer"}, m[e].phase # "up",
             m' = [m EXCEPT ![e].phase = p], fin' = fin, slept' = slept
      PROVE  Calm'
  <2> DEFINE R == [m[e] EXCEPT !.phase = p]
  <2>1. m' = [m EXCEPT ![e] = R]
    BY <1>0, <1>1
  <2>2. /\ R.closed = m[e].closed /\ R.tearing = m[e].tearing /\ R.aborted = m[e].aborted
        /\ R.phase = p /\ R.ping = m[e].ping /\ R.silent = m[e].silent /\ R.mono = m[e].mono
    BY <1>0 DEF Muxes
  <2> HIDE DEF R
  <2>3. CalmEnd(R)
    BY <1>0, <1>1, <2>2 DEF CalmEnd
  <2> QED BY <1>0, <1>1, <2>3, <2>1, <2>2, CalmStarting
<1>2. ASSUME NEW e \in Ends, Fail(e) PROVE FALSE
  BY <1>0, <1>2 DEF Fail, Muxes
<1>3. CASE Handshake
  BY <1>0, <1>1, <1>2, <1>3 DEF Handshake, NoiseStart, NoiseAccept, NoiseReply, NoiseDone, world
<1>4. ASSUME NEW e \in Ends, HelloWrite(e) PROVE Calm'
  BY <1>1, <1>4 DEF HelloWrite, world
<1>5. ASSUME NEW e \in Ends, HelloRead(e) PROVE Calm'
  <2> DEFINE l == m[e].hello
             p == HelloDecode(Head(wire[e]).hello)
             R == [m[e] EXCEPT !.phase = "up", !.peer = p, !.tol = Tolerance(l, p),
                               !.grace = Tolerance(p, l), !.reader = "run", !.writer = "run",
                               !.open = TRUE]
  <2>1. m' = [m EXCEPT ![e] = R] /\ fin' = fin /\ slept' = slept /\ m[e].phase # "up"
    BY <1>0, <1>2, <1>5 DEF HelloRead, world
  <2>2. CalmEnd(R) /\ R.silent = m[e].silent /\ R.mono = m[e].mono /\ R.ping = m[e].ping
    BY <1>0 DEF CalmEnd, Muxes
  <2> HIDE DEF R
  <2> QED BY <1>0, <2>1, <2>2, CalmStarting
<1>6. ASSUME NEW e \in Ends, StartFails(e) PROVE Calm'
  BY <1>2, <1>6 DEF StartFails
<1> QED BY <1>3, <1>4, <1>5, <1>6

\* Nothing that ends a session happens in a calm one.
LEMMA NothingEnds ==
    ASSUME Session, Agreed, Clocks, Calm, ~Excused, NEW e \in Ends,
           ReaderStops(e) \/ ReaderCloses(e) \/ WriterStops(e) \/ WriterDrains(e) \/ Watchdog(e)
    PROVE  FALSE
<1>0. m[e].phase = "up" /\ CalmEnd(m[e]) /\ fin = {} /\ m[e] \in Muxes
  BY DEF Session, Calm, ReaderStops, ReaderCloses, WriterStops, WriterDrains, Watchdog, WatchdogDue, Up
<1>1. Keepalive(e) => ~(m[e].silent > m[e].grace) /\ ~(m[e].mono >= m[e].tol)
  BY <1>0, NoneStale DEF Muxes
<1>2. ~ReaderStops(e)
  BY <1>0, <1>1 DEF ReaderStops, TimedOut, CalmEnd
<1>3. ~ReaderCloses(e) /\ ~WriterStops(e) /\ ~WriterDrains(e)
  BY <1>0 DEF ReaderCloses, WriterStops, WriterDrains, CalmEnd
<1>4. ~Watchdog(e)
  BY <1>0, <1>1 DEF Watchdog, WatchdogDue, WallClockStale, CalmEnd
<1> QED BY <1>2, <1>3, <1>4

\* The same loops, flags and clocks.
Alike(r, R) ==
    /\ R.closed = r.closed /\ R.tearing = r.tearing /\ R.aborted = r.aborted /\ R.phase = r.phase
    /\ R.reader = r.reader /\ R.writer = r.writer /\ R.silent = r.silent /\ R.mono = r.mono

\* Calm is a matter of loops, flags and the Ping.
LEMMA CalmAlike ==
    ASSUME NEW r, NEW R, Alike(r, R), R.ping = r.ping \/ r.phase = "up", CalmEnd(r) PROVE CalmEnd(R)
BY DEF Alike, CalmEnd

\* The tasks and the applications of an end that is up.
LEMMA TasksCalm ==
    ASSUME Session, Calm, Clocks, ~Excused', NEW e \in Ends,
           \/ ReaderTake(e) \/ ReaderQueue(e) \/ WriterPut(e) \/ KeepalivePing(e)
           \/ Open(e) \/ OpenReturns(e) \/ Accept(e)
    PROVE  Calm'
<1>0. /\ m \in [Ends -> Muxes] /\ m[e] \in Muxes /\ CalmEnd(m[e]) /\ slept \in Nat /\ m[e].phase = "up"
      /\ Peer(e) \in Ends /\ Peer(e) # e /\ wire[Peer(e)] \in Seq(Frames) /\ m[e].cmd \in Seq(Commands)
  BY PeerIs DEF Session, Calm, Clocks, Muxes, ReaderTake, ReaderQueue, WriterPut, KeepalivePing, PingDue,
     Open, OpenReturns, Accept, Up
<1>a. \A f : Append(m[e].cmd, f) # <<>>
  BY <1>0
<1>1. CASE ReaderTake(e)
  <2> DEFINE r == ReaderStamps(e)
             f == Head(wire[e])
  <2>1. PICK R : /\ m' = [m EXCEPT ![e] = R]
                 /\ \/ R = [r EXCEPT !.rwait = Command("pong", 0)]
                    \/ R = [r EXCEPT !.reader = "stop", !.aborted = TRUE]
                    \/ R = [r EXCEPT !.streams = @ \cup {f.id}, !.rwait = f]
                    \/ R = r
    BY <1>1 DEF ReaderTake
  <2>2. R.aborted = m[e].aborted
    <3>1. R.aborted = TRUE \/ R.aborted = m[e].aborted
      BY <1>0, <2>1 DEF ReaderStamps, Muxes
    <3>2. ~R.aborted
      BY <1>0, <2>1 DEF Excused
    <3> QED BY <1>0, <3>1, <3>2
  <2>3. R # [r EXCEPT !.reader = "stop", !.aborted = TRUE]
    BY <1>0, <2>2 DEF ReaderStamps, Muxes, CalmEnd
  <2>4. /\ R.closed = m[e].closed /\ R.tearing = m[e].tearing /\ R.phase = m[e].phase
        /\ R.reader = m[e].reader /\ R.writer = m[e].writer /\ R.cmd = m[e].cmd /\ R.ping = m[e].ping
        /\ R.silent = 0 /\ R.mono = 0
    BY <1>0, <2>1, <2>3, ZenonT(40) DEF ReaderStamps, Muxes
  <2>5. CalmEnd(R)
    BY <1>0, <2>2, <2>4 DEF CalmEnd
  <2>6. Settled /\ fin' = fin /\ slept' = slept /\ \A x \in Ends : x # e => wire'[x] = wire[x]
    BY <1>1, ReaderTakeSound DEF ReaderTake, world, Session
  <2> QED BY <1>0, <2>1, <2>4, <2>5, <2>6, CalmOne
<1>2. CASE ReaderQueue(e)
  <2>0. Settled /\ fin' = fin /\ slept' = slept /\ wire' = wire
    BY <1>2, ReaderQueueSound DEF ReaderQueue, world
  <2>1. CASE m[e].rwait.type = "pong"
    <3> DEFINE q == IF m[e].open THEN Append(m[e].cmd, m[e].rwait) ELSE m[e].cmd
               R == [m[e] EXCEPT !.rwait = None, !.cmd = q]
    <3>1. m' = [m EXCEPT ![e] = R]
      BY <1>0, <1>2, <2>1 DEF ReaderQueue
    <3>2. q # <<>> \/ q = m[e].cmd
      BY <1>a
    <3> HIDE DEF q
    <3>3. Alike(m[e], R) /\ R.cmd = q /\ R.ping = m[e].ping
      BY <1>0 DEF Muxes, Alike
    <3> HIDE DEF R
    <3> QED BY <1>0, <2>0, <3>1, <3>2, <3>3, CalmAlike, CalmOne DEF Alike
  <2>2. CASE m[e].rwait.type # "pong"
    <3> DEFINE q == Append(m[e].incoming, m[e].rwait.id)
               R == [m[e] EXCEPT !.rwait = None, !.incoming = q]
    <3>1. m' = [m EXCEPT ![e] = R]
      BY <1>0, <1>2, <2>2 DEF ReaderQueue
    <3> HIDE DEF q
    <3>3. Alike(m[e], R) /\ R.cmd = m[e].cmd /\ R.ping = m[e].ping
      BY <1>0 DEF Muxes, Alike
    <3> HIDE DEF R
    <3> QED BY <1>0, <2>0, <3>1, <3>3, CalmAlike, CalmOne DEF Alike
  <2> QED BY <2>1, <2>2
<1>3. CASE WriterPut(e)
  <2> DEFINE q == Tail(m[e].cmd)
             S == m[e].streams \cup {Head(m[e].cmd).id}
             R == [m[e] EXCEPT !.cmd = q, !.streams = S]
             Q == [m[e] EXCEPT !.cmd = q]
  <2>0. Settled /\ fin' = fin /\ slept' = slept
    BY <1>3, WriterPutSound DEF WriterPut
  <2>1. m' = [m EXCEPT ![e] = R] \/ m' = [m EXCEPT ![e] = Q]
    BY <1>0, <1>3 DEF WriterPut, Muxes
  <2>2. wire'[Peer(e)] # <<>> /\ \A x \in Ends : x # Peer(e) => wire'[x] = wire[x]
    BY <1>0, <1>3 DEF WriterPut, Send, Session
  <2> HIDE DEF q, S
  <2>3. Alike(m[e], R) /\ R.ping = m[e].ping /\ Alike(m[e], Q) /\ Q.ping = m[e].ping
    BY <1>0 DEF Muxes, Alike
  <2> HIDE DEF R, Q
  <2>4. CASE m' = [m EXCEPT ![e] = R]
    BY <1>0, <2>0, <2>2, <2>3, <2>4, CalmAlike, CalmOne, ZenonT(40) DEF Alike
  <2>5. CASE m' = [m EXCEPT ![e] = Q]
    BY <1>0, <2>0, <2>2, <2>3, <2>5, CalmAlike, CalmOne, ZenonT(40) DEF Alike
  <2> QED BY <2>1, <2>4, <2>5
<1>4. CASE KeepalivePing(e)
  <2> DEFINE q == Append(m[e].cmd, Command("ping", 0))
             R == [m[e] EXCEPT !.cmd = q, !.ping = 0]
  <2>0. Settled /\ fin' = fin /\ slept' = slept /\ wire' = wire
    BY <1>4, TimersSound DEF KeepalivePing, world
  <2>1. m' = [m EXCEPT ![e] = R] /\ q # <<>>
    BY <1>0, <1>4, <1>a DEF KeepalivePing
  <2> HIDE DEF q
  <2>2. Alike(m[e], R) /\ R.cmd = q
    BY <1>0 DEF Muxes, Alike
  <2> HIDE DEF R
  <2> QED BY <1>0, <2>0, <2>1, <2>2, CalmAlike, CalmOne DEF Alike
<1>5. CASE Open(e) \/ OpenReturns(e) \/ Accept(e)
  <2>0. Settled /\ fin' = fin /\ slept' = slept /\ wire' = wire
    BY <1>5, ApplicationSound DEF Open, OpenReturns, Accept, world
  <2>1. CASE Open(e)
    <3> DEFINE o == <<e, m[e].next>>
               n == m[e].next + 1
               R == [m[e] EXCEPT !.opening = o, !.next = n]
    <3>1. m' = [m EXCEPT ![e] = R]
      BY <1>0, <2>1 DEF Open
    <3> HIDE DEF o, n
    <3>2. Alike(m[e], R) /\ R.cmd = m[e].cmd /\ R.ping = m[e].ping
      BY <1>0 DEF Muxes, Alike
    <3> HIDE DEF R
    <3> QED BY <1>0, <2>0, <3>1, <3>2, CalmAlike, CalmOne DEF Alike
  <2>2. CASE OpenReturns(e)
    <3> DEFINE S == m[e].handles \cup {m[e].opening}
               q == Append(m[e].cmd, Command("open", m[e].opening))
               R == [m[e] EXCEPT !.opening = None, !.handles = S, !.cmd = q]
               Q == [m[e] EXCEPT !.opening = None]
    <3>1. m' = [m EXCEPT ![e] = R] \/ m' = [m EXCEPT ![e] = Q]
      BY <1>0, <2>2 DEF OpenReturns
    <3>2. q # <<>>
      BY <1>a
    <3> HIDE DEF S, q
    <3>3. Alike(m[e], R) /\ R.cmd = q /\ R.ping = m[e].ping
      BY <1>0 DEF Muxes, Alike
    <3>4. Alike(m[e], Q) /\ Q.cmd = m[e].cmd /\ Q.ping = m[e].ping
      BY <1>0 DEF Muxes, Alike
    <3> HIDE DEF R, Q
    <3>5. CASE m' = [m EXCEPT ![e] = R]
      BY <1>0, <2>0, <3>2, <3>3, <3>5, CalmAlike, CalmOne DEF Alike
    <3>6. CASE m' = [m EXCEPT ![e] = Q]
      BY <1>0, <2>0, <3>4, <3>6, CalmAlike, CalmOne DEF Alike
    <3> QED BY <3>1, <3>5, <3>6
  <2>3. CASE Accept(e)
    <3> DEFINE S == m[e].handles \cup {Head(m[e].incoming)}
               q == Tail(m[e].incoming)
               R == [m[e] EXCEPT !.handles = S, !.incoming = q]
    <3>1. m' = [m EXCEPT ![e] = R]
      BY <1>0, <2>3 DEF Accept
    <3> HIDE DEF S, q
    <3>2. Alike(m[e], R) /\ R.cmd = m[e].cmd /\ R.ping = m[e].ping
      BY <1>0 DEF Muxes, Alike
    <3> HIDE DEF R
    <3> QED BY <1>0, <2>0, <3>1, <3>2, CalmAlike, CalmOne DEF Alike
  <2> QED BY <1>5, <2>1, <2>2, <2>3
<1> QED BY <1>1, <1>2, <1>3, <1>4, <1>5

\* Time passes for both ends when neither has anything to do: unless their
\* readers block each other nothing is queued or under way, so the last Ping
\* of each end has been read.
LEMMA NothingUnderWay ==
    ASSUME Session, Calm, ~cut, ~Jammed, awake, \A x \in Ends : m[x].phase = "up" /\ ~Busy(x)
    PROVE  \A x \in Ends : wire[x] = <<>> /\ m[x].cmd = <<>>
<1>0. ASSUME NEW x \in Ends
      PROVE  /\ Up(x) /\ m[x].reader = "run" /\ m[x].writer = "run" /\ m[x].open /\ x \notin fin
             /\ m[x].cmd \in Seq(Commands) /\ m[x].incoming \in Seq(Ids)
             /\ wire[x] \in Seq(Frames) /\ Peer(x) \in Ends /\ wire[Peer(x)] \in Seq(Frames)
  BY PeerIs, ZenonT(40) DEF Session, Sound, Calm, CalmEnd, Up, Running, Muxes
<1>1. ASSUME NEW x \in Ends, m[x].cmd # <<>> PROVE wire[Peer(x)] # <<>>
  <2>1. ~(Len(wire[Peer(x)]) < LinkCap)
    BY <1>0, <1>1 DEF Busy
  <2> QED BY <1>0, <2>1, LifecycleAssumption
<1>2. ASSUME NEW x \in Ends, wire[x] # <<>>
      PROVE  m[x].rwait # None /\ m[x].rwait.type = "pong" /\ ~Slot(x) /\ m[x].cmd # <<>>
  <2>1. m[x].rwait # None
    BY <1>0, <1>2 DEF Busy
  <2>2. m[x].incoming = <<>>
    BY <1>0 DEF Busy
  <2>3. Len(m[x].incoming) < Backlog
    BY <2>2, LifecycleAssumption
  <2>4. m[x].rwait.type = "pong" /\ ~Slot(x)
    BY <1>0, <2>1, <2>3 DEF Busy
  <2>5. ~(Len(m[x].cmd) < QueueCap)
    BY <1>0, <2>4 DEF Slot
  <2>6. m[x].cmd # <<>>
    BY <1>0, <2>5, LifecycleAssumption
  <2> QED BY <2>1, <2>4, <2>6
<1>3. ASSUME NEW x \in Ends, wire[x] # <<>> PROVE FALSE
  <2>1. Peer(x) \in Ends /\ wire[Peer(x)] # <<>> /\ Ends = {x, Peer(x)}
    BY <1>1, <1>2, <1>3, PeerIs
  <2>2. \A y \in Ends : /\ m[y].reader = "run" /\ m[y].rwait # None /\ m[y].rwait.type = "pong"
                        /\ ~Slot(y)
    BY <1>0, <1>2, <1>3, <2>1
  <2> QED BY <2>2 DEF Jammed
<1> QED BY <1>0, <1>1, <1>3

\* A tick leaves a quiet session calm: asleep or awake, the clocks stay within the sleep.
LEMMA TickCalm ==
    ASSUME Session, Agreed, Clocks, Calm, Quiet', Tick PROVE Calm'
<1>0. /\ Session' /\ Settled /\ ~cut /\ ~jam /\ ~Jammed /\ slept \in Nat /\ mute \in Nat
      /\ \A x \in Ends : m[x].phase = "up" /\ ~Busy(x) /\ m[x] \in Muxes /\ CalmEnd(m[x])
  <2>1. Session' /\ Settled
    BY TickSound
  <2>2. ~cut /\ ~jam /\ ~Jammed
    BY DEF Tick, Quiet
  <2>3. \A x \in Ends : m'[x].phase # "failed"
    BY DEF Quiet
  <2>4. \A x \in Ends : m[x].phase # "failed"
    BY <2>1, <2>3 DEF Settled, Kept
  <2> QED BY <2>1, <2>2, <2>4 DEF Tick, Session, Calm, Clocks
<1>1. ASSUME NEW x \in Ends
      PROVE  /\ m'[x] = [m[x] EXCEPT !.silent = Inc(m[x].silent),
                                     !.ping = Older(m[x].ping),
                                     !.mono = IF Running(x) THEN Inc(m[x].mono) ELSE m[x].mono]
  <2>1. ~m[x].closed
    BY <1>0 DEF CalmEnd
  <2> QED BY <2>1 DEF Tick
<1>2. \A n \in Nat : Inc(n) \in Nat /\ Inc(n) <= n + 1
  BY DEF Inc
<1>3. ASSUME NEW x \in Ends
      PROVE  /\ m'[x].closed = m[x].closed /\ m'[x].tearing = m[x].tearing /\ m'[x].aborted = m[x].aborted
             /\ m'[x].phase = m[x].phase /\ m'[x].reader = m[x].reader /\ m'[x].writer = m[x].writer
             /\ m'[x].cmd = m[x].cmd
             /\ m[x].ping \in Nat /\ m'[x].ping = Older(m[x].ping) /\ m'[x].silent <= m[x].silent + 1 /\ m'[x].mono <= m[x].mono + 1
             /\ m[x].silent \in Nat /\ m[x].mono \in Nat /\ m'[x].silent \in Nat /\ m'[x].mono \in Nat
  <2>1. m[x].silent \in Nat /\ m[x].mono \in Nat /\ m[x].ping \in Nat /\ m[x] \in Muxes
    BY <1>0 DEF Muxes
  <2>2. PICK a \in Nat, b \in Nat : /\ a <= m[x].silent + 1 /\ b <= m[x].mono + 1
                                    /\ m'[x] = [m[x] EXCEPT !.silent = a, !.ping = Older(m[x].ping), !.mono = b]
    <3> DEFINE b == IF Running(x) THEN Inc(m[x].mono) ELSE m[x].mono
    <3>1. b \in Nat /\ b <= m[x].mono + 1
      BY <1>2, <2>1
    <3>2. Inc(m[x].silent) \in Nat /\ Inc(m[x].silent) <= m[x].silent + 1
      BY <1>2, <2>1
    <3>3. m'[x] = [m[x] EXCEPT !.silent = Inc(m[x].silent), !.ping = Older(m[x].ping), !.mono = b]
      BY <1>1
    <3> HIDE DEF b
    <3> QED BY <3>1, <3>2, <3>3
  <2>3. m'[x].ping = Older(m[x].ping)
    BY <2>1, <2>2 DEF Muxes
  <2>4. m'[x].closed = m[x].closed /\ m'[x].tearing = m[x].tearing /\ m'[x].aborted = m[x].aborted
        /\ m'[x].phase = m[x].phase /\ m'[x].reader = m[x].reader /\ m'[x].writer = m[x].writer
        /\ m'[x].silent <= m[x].silent + 1 /\ m'[x].mono <= m[x].mono + 1 /\ m'[x].silent \in Nat /\ m'[x].mono \in Nat
        /\ m'[x].cmd = m[x].cmd
    BY <2>1, <2>2 DEF Muxes
  <2> QED BY <2>1, <2>3, <2>4
<1>4. \A x \in Ends : CalmEnd(m[x])'
  BY <1>0, <1>3 DEF CalmEnd
<1>5. \A x \in Ends : Keepalive(x)' => Keepalive(x)
  BY <1>0 DEF Settled, Kept, Keepalive, Caps
<1>a. wire' = wire
  BY DEF Tick
<1>b. ASSUME ~awake
      PROVE  \A x \in Ends : Pinged(x)' /\ (Keepalive(x)' => m'[x].silent <= Silence' /\ m'[x].mono <= Silence')
  <2>0. slept' = (IF ~awake /\ mute + 1 > slept THEN mute + 1 ELSE slept) /\ mute = slept
    BY <1>b DEF Tick, Clocks
  <2>1. slept' = slept + 1
    BY <1>0, <1>b, <2>0
  <2>2. ASSUME NEW x \in Ends, Keepalive(x) PROVE m'[x].silent <= Silence' /\ m'[x].mono <= Silence'
    <3>1. m[x].silent <= slept + Period /\ m[x].mono <= slept + Period
      BY <2>2 DEF Calm, Silence
    <3> QED BY <1>0, <1>3, <2>1, <3>1, LifecycleAssumption DEF Silence
  <2>3. ASSUME NEW x \in Ends PROVE Pinged(x)'
    <3>1. SUFFICES ASSUME Keepalive(x), m[x].cmd = <<>>, wire[Peer(x)] = <<>>
                   PROVE  /\ m'[Peer(x)].silent <= m'[x].ping + slept'
                          /\ m'[Peer(x)].mono <= m'[x].ping + slept'
      BY <1>3, <1>5, <1>a DEF Pinged
    <3>2. Peer(x) \in Ends /\ m[Peer(x)].silent <= m[x].ping + slept /\ m[Peer(x)].mono <= m[x].ping + slept
      BY <3>1, PeerIs DEF Calm, Pinged
    <3>3. m'[x].ping \in Nat /\ m'[x].ping >= m[x].ping /\ m[x].ping \in Nat
      BY <1>3, LifecycleAssumption DEF Older
    <3>4. /\ m'[Peer(x)].silent <= m[Peer(x)].silent + 1 /\ m'[Peer(x)].mono <= m[Peer(x)].mono + 1
          /\ m[Peer(x)].silent \in Nat /\ m[Peer(x)].mono \in Nat
          /\ m'[Peer(x)].silent \in Nat /\ m'[Peer(x)].mono \in Nat
      BY <1>3, <3>2
    <3> QED BY <1>0, <2>1, <3>2, <3>3, <3>4
  <2> QED BY <2>2, <2>3, <1>5
<1>c. ASSUME awake
      PROVE  \A x \in Ends : Pinged(x)' /\ (Keepalive(x)' => m'[x].silent <= Silence' /\ m'[x].mono <= Silence')
  <2>1. slept' = slept
    BY <1>c DEF Tick
  <2>2. \A y \in Ends : wire[y] = <<>> /\ m[y].cmd = <<>>
    BY <1>0, <1>c, NothingUnderWay
  <2>3. ASSUME NEW y \in Ends, Keepalive(y)
        PROVE  /\ m'[Peer(y)].silent <= m'[y].ping + slept /\ m'[Peer(y)].mono <= m'[y].ping + slept
               /\ m'[y].ping \in Nat /\ m'[y].ping <= Period
    <3>4. Up(y) /\ m[y].open /\ ~m[y].closed /\ m[y].ping \in Nat /\ Peer(y) \in Ends
      BY <1>0, <1>c, PeerIs DEF Up, Running, Session, Sound, CalmEnd, Muxes
    <3>5. Slot(y)
      BY <2>2, <3>4, LifecycleAssumption DEF Slot
    <3>6. ~PingDue(y)
      BY <1>0, <3>4 DEF Busy
    <3>7. m[y].ping < Period
      BY <2>3, <3>4, <3>5, <3>6, LifecycleAssumption DEF PingDue
    <3>8. m[Peer(y)].silent <= m[y].ping + slept /\ m[Peer(y)].mono <= m[y].ping + slept
      BY <2>2, <2>3, <3>4 DEF Calm, Pinged
    <3>9. m'[y].ping = m[y].ping + 1
      BY <1>3, <3>7 DEF Older
    <3>10. /\ m'[Peer(y)].silent <= m[Peer(y)].silent + 1 /\ m'[Peer(y)].mono <= m[Peer(y)].mono + 1
           /\ m[Peer(y)].silent \in Nat /\ m[Peer(y)].mono \in Nat
           /\ m'[Peer(y)].silent \in Nat /\ m'[Peer(y)].mono \in Nat
      BY <1>3, <3>4
    <3> QED BY <1>0, <3>4, <3>7, <3>8, <3>9, <3>10, LifecycleAssumption
  <2>4. \A x \in Ends : Pinged(x)'
    BY <1>5, <2>1, <2>3 DEF Pinged
  <2>5. ASSUME NEW x \in Ends, Keepalive(x) PROVE m'[x].silent <= Silence' /\ m'[x].mono <= Silence'
    <3>1. Peer(x) \in Ends /\ Peer(Peer(x)) = x /\ Keepalive(Peer(x))
      BY <1>0, <2>5, PeerIs, KeepaliveShared
    <3>2. /\ m'[x].silent <= m'[Peer(x)].ping + slept /\ m'[x].mono <= m'[Peer(x)].ping + slept
          /\ m'[Peer(x)].ping \in Nat /\ m'[Peer(x)].ping <= Period
      BY <2>3, <3>1
    <3>3. m'[x].silent \in Nat /\ m'[x].mono \in Nat
      BY <1>3
    <3> QED BY <1>0, <2>1, <3>2, <3>3, LifecycleAssumption DEF Silence
  <2> QED BY <1>5, <2>4, <2>5
<1>6. \A x \in Ends : Pinged(x)' /\ (Keepalive(x)' => m'[x].silent <= Silence' /\ m'[x].mono <= Silence')
  <2>1. CASE ~awake
    BY <1>b, <2>1
  <2>2. CASE awake
    BY <1>c, <2>2
  <2> QED BY <2>1, <2>2
<1>7. fin' = {} /\ \A x \in Ends : m'[x].phase = "up"
  BY <1>0, <1>3 DEF Tick, Calm
<1> QED BY <1>4, <1>6, <1>7 DEF Calm

\* Every step but the answer to a HELLO leaves the negotiation alone.
LEMMA SettledStep ==
    ASSUME Session, [LifecycleNext]_lifecycleVars PROVE Settled \/ \E e \in Ends : HelloRead(e)
<1>1. ASSUME NEW e \in Ends, Tasks(e) \/ Open(e), ~HelloRead(e) PROVE Settled
  BY <1>1, HelloWriteSound, ReaderTakeSound, ReaderQueueSound, ReaderEndsSound, WriterPutSound,
     WriterEndsSound, TimersSound, ApplicationSound DEF Tasks
<1>2. ASSUME Cut \/ Sleep \/ Wake \/ UNCHANGED lifecycleVars PROVE Settled
  <2>1. m' = m
    BY <1>2 DEF Cut, Sleep, Wake, lifecycleVars
  <2> QED BY <2>1 DEF Settled, Kept
<1> QED BY <1>1, <1>2, HandshakeSound, TickSound DEF LifecycleNext

\* What a step does to the world's variables.
LEMMA WorldStep ==
    ASSUME [LifecycleNext]_lifecycleVars
    PROVE  /\ cut => cut'
           /\ jam => jam'
           /\ ~Tick => slept' = slept
           /\ \/ Tick \/ Sleep \/ Wake \/ UNCHANGED <<mute, awake>>
              \/ (awake /\ mute' = 0 /\ awake' = awake)
<1>1. ASSUME NEW e \in Ends, Tasks(e) \/ Open(e)
      PROVE  cut' = cut /\ jam' = jam /\ slept' = slept
             /\ (UNCHANGED <<mute, awake>> \/ (awake /\ mute' = 0 /\ awake' = awake))
  <2>1. ASSUME ~WriterPut(e) PROVE cut' = cut /\ jam' = jam /\ slept' = slept /\ UNCHANGED <<mute, awake>>
    BY <1>1, <2>1 DEF Tasks, HelloWrite, HelloRead, StartFails, ReaderTake, ReaderQueue, ReaderStops,
       ReaderCloses, WriterStops, WriterDrains, KeepalivePing, Watchdog, OpenReturns, Accept, Open, world
  <2>2. CASE WriterPut(e)
    BY <2>2 DEF WriterPut, Up, Running
  <2> QED BY <2>1, <2>2
<1>2. CASE Handshake
  BY <1>2 DEF Handshake, NoiseStart, NoiseAccept, NoiseReply, NoiseDone, world
<1>3. CASE Cut \/ Sleep \/ Wake \/ UNCHANGED lifecycleVars
  BY <1>3 DEF Cut, Sleep, Wake, lifecycleVars
<1>4. CASE Tick
  BY <1>4 DEF Tick
<1> QED BY <1>1, <1>2, <1>3, <1>4 DEF LifecycleNext

\* Every step keeps the count of the sleep.
LEMMA ClocksStep ==
    ASSUME Session, Clocks, [LifecycleNext]_lifecycleVars PROVE Clocks'
<1>0. slept \in Nat /\ mute \in Nat /\ mute <= slept
  BY DEF Clocks
<1>1. CASE Tick
  <2>1. /\ slept' = IF ~awake /\ mute + 1 > slept THEN mute + 1 ELSE slept
        /\ mute' = IF awake THEN mute ELSE mute + 1
        /\ awake' = awake /\ \A x \in Ends : m[x].phase \in {"up", "failed"}
    BY <1>1 DEF Tick
  <2>2. \A x \in Ends : m'[x].phase \in {"up", "failed"}
    BY <1>1, <2>1, TickSound DEF Settled, Kept
  <2>3. ~awake => mute = slept
    BY DEF Clocks
  <2>4. slept' \in Nat /\ mute' \in Nat /\ mute' <= slept' /\ (~awake' => mute' = slept')
    <3>1. CASE awake
      BY <1>0, <2>1, <3>1
    <3>2. CASE ~awake
      BY <1>0, <2>1, <2>3, <3>2
    <3> QED BY <3>1, <3>2
  <2> QED BY <2>2, <2>4 DEF Clocks
<1>2. CASE ~Tick
  <2>1. slept' = slept
    BY <1>2, WorldStep
  <2>2. mute' \in Nat /\ mute' <= slept /\ (~awake' => mute' = slept)
    <3>1. CASE Sleep
      BY <1>0, <3>1 DEF Sleep
    <3>2. CASE Wake
      BY <1>0, <3>2 DEF Wake
    <3>3. CASE UNCHANGED <<mute, awake>>
      BY <3>3 DEF Clocks
    <3>4. CASE awake /\ mute' = 0 /\ awake' = awake
      BY <1>0, <3>4
    <3> QED BY <1>2, <3>1, <3>2, <3>3, <3>4, WorldStep
  <2>3. ASSUME slept > 0 PROVE \A x \in Ends : m'[x].phase \in {"up", "failed"}
    <3>1. \A x \in Ends : m[x].phase \in {"up", "failed"}
      BY <2>3 DEF Clocks
    <3>2. \A e \in Ends : ~HelloRead(e)
      BY <3>1 DEF HelloRead
    <3> QED BY <3>1, <3>2, SettledStep DEF Settled, Kept
  <2> QED BY <1>0, <2>1, <2>2, <2>3 DEF Clocks
<1> QED BY <1>1, <1>2

\* A longer sleep is a longer silence.
LEMMA Longer ==
    ASSUME NEW a \in Nat, NEW b \in Nat, NEW p \in Nat, b >= a, NEW s, NEW t, s = a + p, t = b + p
    PROVE  t >= s /\ s \in Nat /\ t \in Nat
OBVIOUS

\* A disturbance, and an excuse, stay.
LEMMA DisturbanceStays ==
    ASSUME Session, Clocks, [LifecycleNext]_lifecycleVars
    PROVE  (Quiet' => Quiet) /\ (Excused => Excused')
<1>0. /\ slept \in Nat /\ slept' \in Nat /\ m \in [Ends -> Muxes] /\ m["server"].tol \in Nat /\ m["server"].grace \in Nat
      /\ "server" \in Ends
  BY ClocksStep DEF Clocks, Session, Muxes, Ends
<1>1. slept' >= slept
  <2>1. CASE Tick
    <3>1. slept' = (IF ~awake /\ mute + 1 > slept THEN mute + 1 ELSE slept) /\ mute \in Nat
      BY <2>1 DEF Tick, Clocks
    <3> QED BY <1>0, <3>1
  <2>2. CASE ~Tick
    BY <1>0, <2>2, WorldStep
  <2> QED BY <2>1, <2>2
<1>2. CASE Settled
  <2>1. Quiet' => Quiet
    BY <1>2, WorldStep DEF Quiet, Settled, Kept
  <2>2. Silence' >= Silence /\ Silence \in Nat /\ Silence' \in Nat
    <3>1. Silence = slept + Period /\ Silence' = slept' + Period /\ Period \in Nat
      BY LifecycleAssumption DEF Silence
    <3>2. slept \in Nat /\ slept' \in Nat
      BY <1>0
    <3> QED BY <1>1, <3>1, <3>2, Longer
  <2>3. m'["server"].tol = m["server"].tol /\ m'["server"].grace = m["server"].grace
        /\ \A x \in Ends : m[x].aborted => m'[x].aborted
    BY <1>0, <1>2 DEF Settled, Kept
  <2>4. Excused => Excused'
    <3>1. m'["server"].phase = m["server"].phase \/ m["server"].phase # "up"
      BY <1>0, <1>2 DEF Settled, Kept
    <3>2. UsedUp => UsedUp'
      BY <1>0, <2>2, <2>3, <3>1 DEF UsedUp
    <3> QED BY <2>3, <3>2 DEF Excused
  <2> QED BY <2>1, <2>4
<1>3. ASSUME NEW e \in Ends, HelloRead(e) PROVE (Quiet' => Quiet) /\ (Excused => Excused')
  <2>1. m[e].phase = "answer" /\ cut' = cut /\ jam' = jam /\ m[e] \in Muxes
    BY <1>3 DEF HelloRead, world, Session
  <2>2. \A x \in Ends : (x # e => m'[x] = m[x]) /\ m'[x].aborted = m[x].aborted
    <3> DEFINE l == m[e].hello
               p == HelloDecode(Head(wire[e]).hello)
               R == [m[e] EXCEPT !.phase = "up", !.peer = p, !.tol = Tolerance(l, p),
                                 !.grace = Tolerance(p, l), !.reader = "run", !.writer = "run",
                                 !.open = TRUE]
               F == [m[e] EXCEPT !.phase = "failed", !.closed = TRUE]
    <3>1. m' = [m EXCEPT ![e] = R] \/ m' = [m EXCEPT ![e] = F]
      BY <1>0, <1>3 DEF HelloRead, Fail
    <3>2. R.aborted = m[e].aborted /\ F.aborted = m[e].aborted
      BY <2>1 DEF Muxes
    <3> HIDE DEF R, F
    <3> QED BY <1>0, <3>1, <3>2
  <2>3. Quiet' => Quiet
    BY <2>1, <2>2 DEF Quiet
  <2>4. UsedUp => UsedUp'
    <3>1. CASE e = "server"
      BY <2>1, <3>1 DEF UsedUp
    <3>2. CASE e # "server"
      BY <1>0, <1>3, <2>2, <3>2 DEF UsedUp, Silence, HelloRead, world
    <3> QED BY <3>1, <3>2
  <2>7. Excused => Excused'
    BY <2>2, <2>4 DEF Excused
  <2> QED BY <2>3, <2>7
<1> QED BY <1>2, <1>3, SettledStep

\* Every step keeps a quiet session calm.
LEMMA CalmStep ==
    ASSUME Session, Agreed, CalmInv, [LifecycleNext]_lifecycleVars PROVE CalmInv'
<1>1. Clocks /\ Clocks'
  BY ClocksStep DEF CalmInv
<1>2. SUFFICES ASSUME Quiet', ~Excused' PROVE Calm'
  BY <1>1 DEF CalmInv
<1>3. Calm /\ ~Excused
  BY <1>1, <1>2, DisturbanceStays DEF CalmInv
<1>4. CASE Handshake
  BY <1>1, <1>2, <1>3, <1>4, HandshakeCalm
<1>5. ASSUME NEW e \in Ends, Tasks(e) \/ Open(e) PROVE Calm'
  BY <1>1, <1>2, <1>3, <1>5, HandshakeCalm, NothingEnds, TasksCalm DEF Tasks
<1>6. CASE Tick
  BY <1>1, <1>2, <1>3, <1>6, TickCalm
<1>7. CASE Cut
  BY <1>2, <1>7 DEF Cut, Quiet
<1>8. CASE Sleep \/ Wake \/ UNCHANGED lifecycleVars
  <2>1. UNCHANGED <<m, wire, fin, slept>>
    BY <1>8 DEF Sleep, Wake, lifecycleVars
  <2> QED BY <1>3, <2>1 DEF Calm, CalmEnd, Pinged, Keepalive, Caps, Silence
<1> QED BY <1>4, <1>5, <1>6, <1>7, <1>8 DEF LifecycleNext

\* A session starts calm.
LEMMA CalmStart == LifecycleInit => CalmInv
<1> SUFFICES ASSUME LifecycleInit PROVE CalmInv
  OBVIOUS
<1>1. \A e \in Ends : /\ ~m[e].closed /\ ~m[e].tearing /\ ~m[e].aborted /\ m[e].phase # "up" /\ m[e].ping = Period
                      /\ m[e].silent = 0 /\ m[e].mono = 0
  BY DEF LifecycleInit
<1>2. slept = 0 /\ mute = 0 /\ awake /\ fin = {}
  BY DEF LifecycleInit
<1>3. Clocks
  BY <1>2 DEF Clocks
<1>4. \A e \in Ends : m[e].silent <= Silence /\ m[e].mono <= Silence /\ CalmEnd(m[e]) /\ Pinged(e)
  BY <1>1, <1>2, PeerIs, LifecycleAssumption DEF CalmEnd, Pinged, Silence
<1> QED BY <1>1, <1>2, <1>3, <1>4 DEF CalmInv, Calm

\* For every negotiation, queue and link size, ping period and length of
\* sleep: a session dies undisturbed only of a sleep that together with a ping
\* period reaches what one of the server's clocks grants, or of a peer that
\* opens too many streams.  A tolerance above the period is never used up by
\* an end that is awake.
THEOREM DeathHasACause == LifecycleSpec => []NoSpuriousDeath
<1>1. LifecycleInit => Agreed
  <2> SUFFICES ASSUME LifecycleInit PROVE Agreed
    OBVIOUS
  <2>1. \A e \in Ends : wire[e] = <<>> /\ m[e].phase # "up"
    BY DEF LifecycleInit
  <2> QED BY <2>1, RangeEmpty DEF Agreed
<1>2. CalmInv => NoSpuriousDeath
  <2> SUFFICES ASSUME CalmInv, NEW e \in Ends, m[e].phase = "up", m[e].closed, Undisturbed(e)
               PROVE  Excused
    BY DEF NoSpuriousDeath, Excused
  <2>1. Quiet
    BY PeerIs DEF Quiet, Undisturbed
  <2> QED BY <2>1 DEF CalmInv, Calm, CalmEnd
<1> QED BY <1>1, <1>2, SessionStart, SessionStep, AgreedStep, CalmStart, CalmStep, PTL DEF LifecycleSpec
=============================================================================
