--------------------------- MODULE EventLog_proofs ---------------------------
(* What the operators of EventLog preserve and bound. *)
EXTENDS EventLog, FiniteSetTheorems, TLAPS

\* Sets of events are finite.
LEMMA EventsFinite ==
  ASSUME NEW S, S \subseteq Event
  PROVE  IsFiniteSet(S) /\ Cardinality(S) \in Nat
<1>1. IsFiniteSet(S)
  BY EventFinite, FS_Subset
<1>2. QED
  BY <1>1, FS_CardinalityType

\* The rank of an event in a set is a position of that set: below its size for a
\* member (Vec indices).
LEMMA RankBound ==
  ASSUME NEW S, S \subseteq Event, NEW order, \A f \in S : order[f] \in Nat, NEW e \in S
  PROVE  Rank(S, order, e) \in Nat /\ Rank(S, order, e) < Cardinality(S)
<1> DEFINE before == {f \in S : order[f] < order[e]}
<1>1. IsFiniteSet(S) /\ Cardinality(S) \in Nat
  BY EventsFinite
<1>2. before \in SUBSET S /\ e \notin before
  OBVIOUS
<1>3. Cardinality(before) \in Nat
  BY <1>2, EventsFinite
<1>4. Cardinality(before) <= Cardinality(S) /\ Cardinality(before) # Cardinality(S)
  BY <1>1, <1>2, FS_Subset
<1>5. QED
  BY <1>1, <1>3, <1>4 DEF Rank

\* Ranks keep the order: an event before another has the smaller rank.
LEMMA RankMonotone ==
  ASSUME NEW S, S \subseteq Event, NEW order, \A f \in S : order[f] \in Nat,
         NEW e \in S, NEW g \in S, order[e] < order[g]
  PROVE  Rank(S, order, e) < Rank(S, order, g)
<1> DEFINE before(x) == {f \in S : order[f] < order[x]}
<1>1. before(e) \in SUBSET before(g) /\ e \in before(g) /\ e \notin before(e)
  OBVIOUS
<1>2. before(g) \subseteq Event /\ before(e) \subseteq Event
  OBVIOUS
<1> HIDE DEF before
<1>3. IsFiniteSet(before(g)) /\ Cardinality(before(g)) \in Nat /\ Cardinality(before(e)) \in Nat
  BY <1>2, EventsFinite
<1>4. Cardinality(before(e)) <= Cardinality(before(g))
      /\ Cardinality(before(e)) # Cardinality(before(g))
  BY <1>1, <1>3, FS_Subset
<1>5. QED
  BY <1>3, <1>4 DEF Rank, before

\* ... and one that is not behind it has no greater rank.
LEMMA RankWeaklyMonotone ==
  ASSUME NEW S, S \subseteq Event, NEW order, \A f \in S : order[f] \in Nat,
         NEW e \in S, NEW g \in S, order[e] <= order[g]
  PROVE  Rank(S, order, e) <= Rank(S, order, g)
<1> DEFINE before(x) == {f \in S : order[f] < order[x]}
<1>1. before(e) \in SUBSET before(g)
  OBVIOUS
<1>2. before(g) \subseteq Event /\ before(e) \subseteq Event
  OBVIOUS
<1> HIDE DEF before
<1>3. IsFiniteSet(before(g))
  BY <1>2, EventsFinite
<1>4. Cardinality(before(e)) <= Cardinality(before(g))
  BY <1>1, <1>3, FS_Subset
<1>5. QED
  BY <1>4 DEF Rank, before

\* Pushing events, new or not, leaves a log.
LEMMA PushAllIsLog ==
  ASSUME NEW l, IsLog(l), NEW new, new \subseteq Event, NEW order, NEW first \in Nat
  PROVE  IsLog(PushAll(l, new, order, first)) /\ DOMAIN PushAll(l, new, order, first) = DOMAIN l \cup new
<1>1. ASSUME NEW e PROVE Rank(new, order, e) \in Nat
  BY EventsFinite DEF Rank
<1>2. QED
  BY <1>1 DEF IsLog, PushAll

\* Pushing events that are not in a dense log, in a total order and at its end,
\* leaves a dense log: this is what makes offsets and positions unique.
LEMMA PushAllDense ==
  ASSUME NEW l, IsLog(l), Dense(l),
         NEW new, new \subseteq Event, new \cap DOMAIN l = {},
         NEW order, \A f \in new : order[f] \in Nat,
         \A f, g \in new : order[f] = order[g] => f = g,
         NEW first, first = Cardinality(DOMAIN l) + 1
  PROVE  /\ Dense(PushAll(l, new, order, first))
         /\ Cardinality(DOMAIN l \cup new) = Cardinality(DOMAIN l) + Cardinality(new)
<1> DEFINE m == PushAll(l, new, order, first)
           n == Cardinality(DOMAIN l)
           k == Cardinality(new)
<1>1. IsFiniteSet(DOMAIN l) /\ n \in Nat /\ IsFiniteSet(new) /\ k \in Nat
  BY EventsFinite DEF IsLog
<1>2. Cardinality(DOMAIN l \cup new) = n + k
  <2>1. Cardinality(DOMAIN l \cap new) = 0
    BY FS_EmptySet
  <2>2. Cardinality(DOMAIN l \cup new) = n + k - Cardinality(DOMAIN l \cap new)
    BY <1>1, FS_Union
  <2>3. QED
    BY <1>1, <2>1, <2>2
<1>3. DOMAIN m = DOMAIN l \cup new
  BY DEF PushAll
<1>4. ASSUME NEW e \in DOMAIN l PROVE m[e] = l[e] /\ m[e] \in 1 .. n
  BY <1>4 DEF PushAll, Dense
<1>5. ASSUME NEW e \in new PROVE m[e] = n + 1 + Rank(new, order, e) /\ m[e] \in (n + 1) .. (n + k)
  <2>1. m[e] = n + 1 + Rank(new, order, e)
    BY <1>5 DEF PushAll
  <2>2. Rank(new, order, e) \in Nat /\ Rank(new, order, e) < k
    BY <1>5, RankBound
  <2>3. QED
    BY <1>1, <2>1, <2>2
<1>6. ASSUME NEW e \in DOMAIN m PROVE m[e] \in 1 .. (n + k)
  BY <1>1, <1>3, <1>4, <1>5
<1>7. ASSUME NEW e \in DOMAIN m, NEW f \in DOMAIN m, m[e] = m[f] PROVE e = f
  <2>1. CASE e \in DOMAIN l /\ f \in DOMAIN l
    BY <1>4, <1>7, <2>1 DEF Dense
  <2>2. CASE e \in DOMAIN l /\ f \in new
    BY <1>1, <1>4, <1>5, <1>7, <2>2
  <2>3. CASE e \in new /\ f \in DOMAIN l
    BY <1>1, <1>4, <1>5, <1>7, <2>3
  <2>4. CASE e \in new /\ f \in new
    <3>1. Rank(new, order, e) \in Nat /\ Rank(new, order, f) \in Nat
      BY <2>4, RankBound
    <3>2. Rank(new, order, e) = Rank(new, order, f)
      BY <1>1, <1>5, <1>7, <2>4, <3>1
    <3>3. ~(order[e] < order[f]) /\ ~(order[f] < order[e])
      BY <2>4, <3>1, <3>2, RankMonotone
    <3>4. order[e] = order[f]
      BY <2>4, <3>3
    <3>5. QED
      BY <2>4, <3>4
  <2>5. QED
    BY <1>3, <1>7, <2>1, <2>2, <2>3, <2>4
<1>8. QED
  BY <1>2, <1>3, <1>6, <1>7 DEF Dense

\* Taking the first n events keeps what comes before a taken event: the selection
\* has no hole (Vec::truncate).
LEMMA FirstOfPrefix ==
  ASSUME NEW S, S \subseteq Event, NEW order, \A f \in S : order[f] \in Nat, NEW n \in Nat,
         NEW g \in FirstOf(S, order, n), NEW e \in S, order[e] <= order[g]
  PROVE  e \in FirstOf(S, order, n)
<1> DEFINE before(x) == {f \in S : order[f] < order[x]}
<1>1. g \in S /\ Rank(S, order, g) < n
  BY DEF FirstOf
<1>2. before(e) \in SUBSET before(g)
  BY <1>1
<1>3. before(g) \subseteq Event /\ before(e) \subseteq Event
  OBVIOUS
<1> HIDE DEF before
<1>4. IsFiniteSet(before(g)) /\ Cardinality(before(g)) \in Nat /\ Cardinality(before(e)) \in Nat
  BY <1>3, EventsFinite
<1>5. Cardinality(before(e)) <= Cardinality(before(g))
  BY <1>2, <1>4, FS_Subset
<1>6. Rank(S, order, e) < n
  BY <1>1, <1>4, <1>5 DEF Rank, before
<1>7. QED
  BY <1>6 DEF FirstOf
=============================================================================
