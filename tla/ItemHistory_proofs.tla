------------------------- MODULE ItemHistory_proofs -------------------------
(* What an item is, for every value of the constants: replicas with the same *)
(* events show the same item, since the key that sort_events sorts by is a   *)
(* total order and no event differs from replica to replica; the fold has a  *)
(* closed form; and an edit made with a clock that is ahead shows at once.   *)
EXTENDS ItemHistory, FiniteSetTheorems, SequenceTheorems, WellFoundedInduction, TLAPS

(***************************************************************************)
(* The positions of a sequence, counted up.                                *)
(***************************************************************************)

\* If every member of a finite set has the set of those up to it, in a total order,
\* then the sizes of these sets number the members from 1.
LEMMA Ladder ==
  ASSUME NEW I, IsFiniteSet(I), NEW U \in [I -> SUBSET I],
         \A i \in I : i \in U[i],
         \A i, j \in I : j \in U[i] => U[j] \subseteq U[i],
         \A i, j \in I : i # j => (j \in U[i] <=> i \notin U[j])
  PROVE  /\ Cardinality(I) \in Nat
         /\ \A i \in I : Cardinality(U[i]) \in 1 .. Cardinality(I)
         /\ \A i, j \in I : Cardinality(U[i]) = Cardinality(U[j]) => i = j
         /\ \A k \in 1 .. Cardinality(I) : \E i \in I : Cardinality(U[i]) = k
<1> DEFINE n == Cardinality(I)
           f == [i \in I |-> Cardinality(U[i])]
<1>1. n \in Nat
  BY FS_CardinalityType
<1>2. ASSUME NEW i \in I PROVE IsFiniteSet(U[i]) /\ Cardinality(U[i]) \in 1 .. n
  <2>1. IsFiniteSet(U[i]) /\ Cardinality(U[i]) <= n
    BY FS_Subset
  <2>2. Cardinality(U[i]) \in Nat /\ Cardinality(U[i]) # 0
    BY <2>1, FS_CardinalityType, FS_EmptySet
  <2>3. QED
    BY <1>1, <2>1, <2>2
<1>3. ASSUME NEW i \in I, NEW j \in I, i # j, j \in U[i]
      PROVE  Cardinality(U[i]) # Cardinality(U[j])
  <2>1. U[j] \in SUBSET U[i] /\ U[j] # U[i]
    BY <1>3
  <2>2. QED
    BY <1>2, <2>1, FS_Subset
<1>4. \A i, j \in I : Cardinality(U[i]) = Cardinality(U[j]) => i = j
  BY <1>3
<1>5. f \in Injection(I, 1 .. n)
  BY <1>2, <1>4 DEF Injection, IsInjective
<1>6. IsFiniteSet(1 .. n) /\ Cardinality(1 .. n) = n
  BY <1>1, FS_Interval
<1>7. f \in Surjection(I, 1 .. n)
  BY <1>5, <1>6, FS_Injection
<1>8. \A k \in 1 .. n : \E i \in I : Cardinality(U[i]) = k
  BY <1>7 DEF Surjection
<1>9. QED
  BY <1>1, <1>2, <1>4, <1>8

\* iter().filter() takes each position it keeps once.
LEMMA FilteredFrom ==
  ASSUME NEW S, NEW s \in Seq(S), NEW kept \in SUBSET DOMAIN s
  PROVE  \E f : /\ f \in Injection(1 .. Cardinality(kept), kept)
                /\ Filtered(s, kept) = [k \in 1 .. Cardinality(kept) |-> s[f[k]]]
                /\ Filtered(s, kept) \in Seq(S)
                /\ Len(Filtered(s, kept)) = Cardinality(kept)
<1> DEFINE U == [i \in kept |-> {j \in kept : j <= i}]
           n == Cardinality(kept)
           f == [k \in 1 .. n |-> CHOOSE i \in kept : Cardinality({j \in kept : j <= i}) = k]
<1>1. IsFiniteSet(kept) /\ kept \subseteq Nat
  BY FS_Interval, FS_Subset
<1>2. /\ U \in [kept -> SUBSET kept]
      /\ \A i \in kept : i \in U[i]
      /\ \A i, j \in kept : j \in U[i] => U[j] \subseteq U[i]
      /\ \A i, j \in kept : i # j => (j \in U[i] <=> i \notin U[j])
  BY <1>1
<1>3. Filtered(s, kept) = [k \in 1 .. n |-> s[f[k]]]
  BY DEF Filtered
<1>4. n \in Nat /\ \A k \in 1 .. n : \E i \in kept : Cardinality({j \in kept : j <= i}) = k
  <2>1. \A i \in kept : U[i] = {j \in kept : j <= i}
    OBVIOUS
  <2> HIDE DEF U
  <2>2. n \in Nat /\ \A k \in 1 .. n : \E i \in kept : Cardinality(U[i]) = k
    BY <1>1, <1>2, Ladder
  <2>3. QED
    BY <2>1, <2>2
<1> HIDE DEF U
<1>5. \A k \in 1 .. n : f[k] \in kept /\ Cardinality({j \in kept : j <= f[k]}) = k
  BY <1>4
<1>6. f \in Injection(1 .. n, kept)
  <2>1. f \in [1 .. n -> kept]
    BY <1>5
  <2>2. ASSUME NEW k \in 1 .. n, NEW l \in 1 .. n, f[k] = f[l] PROVE k = l
    BY <1>5, <2>2
  <2> HIDE DEF f
  <2>3. QED
    BY <2>1, <2>2 DEF Injection, IsInjective
<1> HIDE DEF f
<1>7. Filtered(s, kept) \in Seq(S) /\ Len(Filtered(s, kept)) = n
  <2>1. \A k \in 1 .. n : s[f[k]] \in S
    <3>1. \A i \in kept : s[i] \in S
      BY ElementOfSeq
    <3>2. QED
      BY <1>5, <3>1
  <2>2. Filtered(s, kept) \in [1 .. n -> S]
    BY <1>3, <2>1
  <2>3. QED
    BY <1>4, <2>2
<1>8. QED
  BY <1>3, <1>6, <1>7

-----------------------------------------------------------------------------
(***************************************************************************)
(* The key of sort_events is a total order on events with different ids,   *)
(* so the sorted history does not depend on the arrival order.             *)
(***************************************************************************)

StoredEvent ==
  [replica_event_id : Ids, replica_time_ms : Times, replica_id : Replicas,
   payload : Edits \cup {"Created"}, replica_write_offset : Nat]

\* No two entries of a log have the same id.
Distinct(l) ==
  \A i, j \in DOMAIN l : l[i].replica_event_id = l[j].replica_event_id => i = j

\* An id names the same event in both logs.
Agree(l, m) ==
  \A i \in DOMAIN l, j \in DOMAIN m :
    l[i].replica_event_id = m[j].replica_event_id => l[i] = m[j]

\* order_key orders any two events, and in one way only.
LEMMA BeforeIsOrder ==
  ASSUME NEW a \in StoredEvent, NEW b \in StoredEvent, NEW c \in StoredEvent
  PROVE  /\ a.replica_event_id # b.replica_event_id => (Before(a, b) <=> ~Before(b, a))
         /\ a.replica_event_id = b.replica_event_id => ~Before(a, b) \/ ~Before(b, a)
         /\ Before(a, b) /\ Before(b, c) => Before(a, c)
<1>1. ASSUME NEW e \in StoredEvent
      PROVE  e.replica_event_id \in Nat /\ e.replica_time_ms \in Nat /\ e.replica_write_offset \in Nat
  BY IdsAndTimes DEF StoredEvent
<1>2. QED
  BY <1>1 DEF Before

\* In a log, what is up to an entry in the sorted history is the entry and what comes
\* before it by its key: the arrival order has no say.
LEMMA UpToByKey ==
  ASSUME NEW s \in Seq(StoredEvent), Distinct(s), NEW i \in DOMAIN s, NEW j \in DOMAIN s
  PROVE  j \in UpTo(s, i) <=> j = i \/ Before(s[j], s[i])
<1>1. s[i] \in StoredEvent /\ s[j] \in StoredEvent /\ i \in Nat
  BY ElementOfSeq, LenProperties
<1>2. CASE j = i
  <2>1. ~Before(s[i], s[i])
    BY <1>1, BeforeIsOrder
  <2>2. QED
    BY <1>1, <1>2, <2>1 DEF UpTo
<1>3. CASE j # i
  <2>1. s[i].replica_event_id # s[j].replica_event_id
    BY <1>3 DEF Distinct
  <2>2. Before(s[j], s[i]) <=> ~Before(s[i], s[j])
    BY <1>1, <2>1, BeforeIsOrder
  <2>3. QED
    BY <1>3, <2>2 DEF UpTo
<1>4. QED
  BY <1>2, <1>3

\* Sorting a log gives every entry one place of its own.
LEMMA Places ==
  ASSUME NEW s \in Seq(StoredEvent), Distinct(s)
  PROVE  /\ IsFiniteSet(DOMAIN s) /\ Cardinality(DOMAIN s) \in Nat
         /\ DOMAIN s = 1 .. Cardinality(DOMAIN s)
         /\ \A i, j \in DOMAIN s : Cardinality(UpTo(s, i)) = Cardinality(UpTo(s, j)) => i = j
         /\ \A k \in DOMAIN s : \E i \in DOMAIN s : Cardinality(UpTo(s, i)) = k
<1> DEFINE I == DOMAIN s
           U == [i \in I |-> UpTo(s, i)]
<1>1. I = 1 .. Len(s) /\ Len(s) \in Nat
  BY LenProperties
<1>2. IsFiniteSet(I) /\ Cardinality(I) = Len(s)
  BY <1>1, FS_Interval
<1>3. \A i \in I : s[i] \in StoredEvent
  BY ElementOfSeq, <1>1
<1>4. \A i, j \in I : j \in UpTo(s, i) <=> j = i \/ Before(s[j], s[i])
  BY UpToByKey
<1>5. U \in [I -> SUBSET I] /\ \A i \in I : U[i] = UpTo(s, i)
  BY DEF UpTo
<1>6. \A i \in I : i \in UpTo(s, i)
  BY <1>4
<1>7. ASSUME NEW i \in I, NEW j \in I, j \in UpTo(s, i) PROVE UpTo(s, j) \subseteq UpTo(s, i)
  <2>1. SUFFICES ASSUME NEW k \in I, k \in UpTo(s, j) PROVE k \in UpTo(s, i)
    BY DEF UpTo
  <2>2. (j = i \/ Before(s[j], s[i])) /\ (k = j \/ Before(s[k], s[j]))
    BY <1>4, <1>7, <2>1
  <2>3. k = i \/ Before(s[k], s[i])
    BY <1>3, <2>2, BeforeIsOrder
  <2>4. QED
    BY <1>4, <2>3
<1>8. ASSUME NEW i \in I, NEW j \in I, i # j PROVE j \in UpTo(s, i) <=> i \notin UpTo(s, j)
  <2>1. s[i].replica_event_id # s[j].replica_event_id
    BY <1>8 DEF Distinct
  <2>2. QED
    BY <1>3, <1>4, <1>8, <2>1, BeforeIsOrder
<1> HIDE DEF U, I
<1>9. /\ \A i, j \in I : Cardinality(U[i]) = Cardinality(U[j]) => i = j
      /\ \A k \in 1 .. Cardinality(I) : \E i \in I : Cardinality(U[i]) = k
  <2>1. /\ \A i \in I : i \in U[i]
        /\ \A i, j \in I : j \in U[i] => U[j] \subseteq U[i]
        /\ \A i, j \in I : i # j => (j \in U[i] <=> i \notin U[j])
    BY <1>5, <1>6, <1>7, <1>8
  <2>2. QED
    BY <1>2, <1>5, <2>1, Ladder
<1>10. QED
  BY <1>1, <1>2, <1>5, <1>9 DEF I

\* An entry has the same place in the sorted histories of two logs of the same events.
LEMMA SamePlace ==
  ASSUME NEW s \in Seq(StoredEvent), Distinct(s), NEW t \in Seq(StoredEvent), Distinct(t),
         NEW b \in [DOMAIN s -> DOMAIN t],
         \A i \in DOMAIN s : t[b[i]] = s[i],
         \A j \in DOMAIN t : \E i \in DOMAIN s : b[i] = j,
         NEW i \in DOMAIN s
  PROVE  Cardinality(UpTo(s, i)) = Cardinality(UpTo(t, b[i]))
<1> DEFINE g == [j \in UpTo(s, i) |-> b[j]]
<1>1. ASSUME NEW j \in DOMAIN s, NEW k \in DOMAIN s, b[j] = b[k] PROVE j = k
  <2>1. s[j] = s[k]
    BY <1>1
  <2>2. QED
    BY <2>1 DEF Distinct
<1>2. \A j \in DOMAIN s : j \in UpTo(s, i) <=> b[j] \in UpTo(t, b[i])
  BY <1>1, UpToByKey
<1>3. UpTo(s, i) \subseteq DOMAIN s /\ UpTo(t, b[i]) \subseteq DOMAIN t
  BY DEF UpTo
<1>4. g \in [UpTo(s, i) -> UpTo(t, b[i])]
  BY <1>2, <1>3
<1>5. \A j, k \in UpTo(s, i) : g[j] = g[k] => j = k
  BY <1>1, <1>3
<1>6. \A j \in UpTo(t, b[i]) : \E k \in UpTo(s, i) : g[k] = j
  BY <1>2, <1>3
<1>7. g \in Bijection(UpTo(s, i), UpTo(t, b[i]))
  <2> HIDE DEF g
  <2>1. QED
    BY <1>4, <1>5, <1>6 DEF Bijection, Injection, Surjection, IsInjective
<1>8. ExistsBijection(UpTo(s, i), UpTo(t, b[i]))
  BY <1>7 DEF ExistsBijection
<1>9. IsFiniteSet(UpTo(s, i))
  BY <1>3, Places, FS_Subset
<1>10. QED
  BY <1>8, <1>9, FS_Bijection

\* Two logs of the same events sort into the same history.
LEMMA SameHistory ==
  ASSUME NEW s \in Seq(StoredEvent), Distinct(s), NEW t \in Seq(StoredEvent), Distinct(t),
         Agree(s, t), IdsOf(s) = IdsOf(t)
  PROVE  SortEvents(s) = SortEvents(t)
<1> DEFINE b == [i \in DOMAIN s |-> CHOOSE j \in DOMAIN t : t[j] = s[i]]
<1>1. ASSUME NEW i \in DOMAIN s PROVE b[i] \in DOMAIN t /\ t[b[i]] = s[i]
  <2>1. s[i].replica_event_id \in IdsOf(t)
    BY DEF IdsOf
  <2>2. \E j \in DOMAIN t : t[j] = s[i]
    BY <2>1 DEF IdsOf, Agree
  <2>3. QED
    BY <2>2
<1>2. b \in [DOMAIN s -> DOMAIN t]
  BY <1>1
<1>3. ASSUME NEW j \in DOMAIN t PROVE \E i \in DOMAIN s : b[i] = j
  <2>1. t[j].replica_event_id \in IdsOf(s)
    BY DEF IdsOf
  <2>2. PICK i \in DOMAIN s : s[i] = t[j]
    BY <2>1 DEF IdsOf, Agree
  <2>3. b[i] \in DOMAIN t /\ t[b[i]] = t[j]
    BY <1>1, <2>2
  <2>4. QED
    BY <2>3 DEF Distinct
<1> HIDE DEF b
<1>4. \A i, j \in DOMAIN s : b[i] = b[j] => i = j
  BY <1>1 DEF Distinct
<1>5. DOMAIN s = DOMAIN t
  <2>1. b \in Bijection(DOMAIN s, DOMAIN t)
    BY <1>2, <1>3, <1>4 DEF Bijection, Injection, Surjection, IsInjective
  <2>2. Cardinality(DOMAIN s) = Cardinality(DOMAIN t)
    BY <2>1, Places, FS_Bijection DEF ExistsBijection
  <2>3. QED
    BY <2>2, Places
<1>6. ASSUME NEW k \in DOMAIN s
      PROVE  s[CHOOSE i \in DOMAIN s : Cardinality(UpTo(s, i)) = k]
               = t[CHOOSE i \in DOMAIN t : Cardinality(UpTo(t, i)) = k]
  <2> DEFINE i == CHOOSE i \in DOMAIN s : Cardinality(UpTo(s, i)) = k
             j == CHOOSE j \in DOMAIN t : Cardinality(UpTo(t, j)) = k
  <2>1. i \in DOMAIN s /\ Cardinality(UpTo(s, i)) = k
    BY Places
  <2>2. j \in DOMAIN t /\ Cardinality(UpTo(t, j)) = k
    BY <1>5, Places
  <2> HIDE DEF i, j
  <2>3. Cardinality(UpTo(t, b[i])) = k
    <3>1. \A x \in DOMAIN s : t[b[x]] = s[x]
      BY <1>1
    <3>2. \A y \in DOMAIN t : \E x \in DOMAIN s : b[x] = y
      BY <1>3
    <3>3. Cardinality(UpTo(s, i)) = Cardinality(UpTo(t, b[i]))
      BY <1>2, <2>1, <3>1, <3>2, SamePlace
    <3>4. QED
      BY <2>1, <3>3
  <2>4. b[i] = j
    BY <1>1, <2>1, <2>2, <2>3, Places
  <2>5. s[i] = t[j]
    BY <1>1, <2>1, <2>4
  <2>6. QED
    BY <2>5 DEF i, j
<1>7. ASSUME NEW k \in DOMAIN s PROVE SortEvents(s)[k] = SortEvents(t)[k]
  <2>1. SortEvents(s)[k] = s[CHOOSE i \in DOMAIN s : Cardinality(UpTo(s, i)) = k]
    BY <1>7 DEF SortEvents
  <2>2. SortEvents(t)[k] = t[CHOOSE i \in DOMAIN t : Cardinality(UpTo(t, i)) = k]
    BY <1>5, <1>7 DEF SortEvents
  <2>3. QED
    BY <1>6, <1>7, <2>1, <2>2
<1>8. /\ SortEvents(s) = [k \in DOMAIN s |-> SortEvents(s)[k]]
      /\ SortEvents(t) = [k \in DOMAIN t |-> SortEvents(t)[k]]
  BY DEF SortEvents
<1>9. QED
  BY <1>5, <1>7, <1>8

-----------------------------------------------------------------------------
(***************************************************************************)
(* The logs: each holds an event once, and the same event everywhere, its  *)
(* author included.                                                        *)
(***************************************************************************)

\* Replica r holds what it wrote, if l does.
Own(l, r) ==
  \A i \in DOMAIN l : l[i].replica_id = r => l[i].replica_event_id \in IdsOf(entries[r])

HInv ==
  /\ entries \in [Replicas -> Seq(StoredEvent)]
  /\ pulled \in [Phones -> Nat]
  /\ \A r \in Replicas : Distinct(entries[r])
  /\ \A r, s \in Replicas : Agree(entries[r], entries[s]) /\ Own(entries[s], r)

\* Initially no log holds anything.
LEMMA InitHInv == Init => HInv
<1> SUFFICES ASSUME Init PROVE HInv
  OBVIOUS
<1>1. \A r \in Replicas : entries[r] = <<>> /\ entries[r] \in Seq(StoredEvent)
  BY EmptySeq DEF Init
<1>2. entries \in [Replicas -> Seq(StoredEvent)] /\ pulled \in [Phones -> Nat]
  BY <1>1 DEF Init
<1>3. \A r \in Replicas : DOMAIN entries[r] = {}
  BY <1>1, LenProperties, EmptySeq
<1>4. QED
  BY <1>2, <1>3 DEF HInv, Distinct, Agree, Own

\* Entries at kept positions are entries, each once.
LEMMA FilteredLog ==
  ASSUME NEW s \in Seq(StoredEvent), Distinct(s), NEW kept \in SUBSET DOMAIN s
  PROVE  /\ Filtered(s, kept) \in Seq(StoredEvent)
         /\ Distinct(Filtered(s, kept))
         /\ \A k \in DOMAIN Filtered(s, kept) : \E i \in kept : Filtered(s, kept)[k] = s[i]
<1>1. PICK f : /\ f \in Injection(1 .. Cardinality(kept), kept)
               /\ Filtered(s, kept) = [k \in 1 .. Cardinality(kept) |-> s[f[k]]]
               /\ Filtered(s, kept) \in Seq(StoredEvent)
  BY FilteredFrom
<1>2. /\ \A k \in 1 .. Cardinality(kept) : f[k] \in kept
      /\ \A k, l \in 1 .. Cardinality(kept) : f[k] = f[l] => k = l
  BY <1>1 DEF Injection, IsInjective
<1>3. /\ DOMAIN Filtered(s, kept) = 1 .. Cardinality(kept)
      /\ \A k \in 1 .. Cardinality(kept) : Filtered(s, kept)[k] = s[f[k]]
  BY <1>1
<1>4. Distinct(Filtered(s, kept))
  BY <1>2, <1>3 DEF Distinct
<1>5. QED
  BY <1>1, <1>2, <1>3, <1>4

\* append adds entries of the batch to a log, each event once.
LEMMA AppendReplicatedLog ==
  ASSUME NEW l \in Seq(StoredEvent), Distinct(l), NEW batch \in Seq(StoredEvent), Distinct(batch)
  PROVE  /\ AppendReplicated(l, batch) \in Seq(StoredEvent)
         /\ Distinct(AppendReplicated(l, batch))
         /\ \A i \in DOMAIN l : /\ i \in DOMAIN AppendReplicated(l, batch)
                                /\ AppendReplicated(l, batch)[i] = l[i]
         /\ \A i \in DOMAIN AppendReplicated(l, batch) :
              \/ \E j \in DOMAIN l : AppendReplicated(l, batch)[i] = l[j]
              \/ \E j \in DOMAIN batch : AppendReplicated(l, batch)[i] = batch[j]
<1> DEFINE kept == {i \in DOMAIN batch : batch[i].replica_event_id \notin IdsOf(l)}
           new == Filtered(batch, kept)
           m == l \o new
<1>1. /\ new \in Seq(StoredEvent) /\ Distinct(new)
      /\ \A k \in DOMAIN new : \E i \in kept : new[k] = batch[i]
  <2>1. kept \in SUBSET DOMAIN batch
    OBVIOUS
  <2> HIDE DEF kept
  <2>2. QED
    BY <2>1, FilteredLog
<1>2. AppendReplicated(l, batch) = m
  BY DEF AppendReplicated, Fresh
<1>3. \A k \in DOMAIN new : new[k].replica_event_id \notin IdsOf(l)
  BY <1>1
<1>4. \A k \in DOMAIN new : \E i \in DOMAIN batch : new[k] = batch[i]
  BY <1>1
<1> HIDE DEF new, kept
<1>5. /\ m \in Seq(StoredEvent)
      /\ DOMAIN l = 1 .. Len(l) /\ DOMAIN new = 1 .. Len(new) /\ Len(l) \in Nat /\ Len(new) \in Nat
      /\ DOMAIN m = 1 .. (Len(l) + Len(new))
      /\ \A i \in 1 .. (Len(l) + Len(new)) : m[i] = IF i <= Len(l) THEN l[i] ELSE new[i - Len(l)]
  BY <1>1, ConcatProperties, LenProperties
<1> HIDE DEF m
<1>6. ASSUME NEW i \in DOMAIN m
      PROVE  \/ i \in DOMAIN l /\ m[i] = l[i]
             \/ i - Len(l) \in DOMAIN new /\ m[i] = new[i - Len(l)]
  BY <1>5
<1>7. Distinct(m)
  <2> SUFFICES ASSUME NEW i \in DOMAIN m, NEW j \in DOMAIN m, m[i].replica_event_id = m[j].replica_event_id
               PROVE  i = j
    BY DEF Distinct
  <2>1. CASE i \in DOMAIN l /\ m[i] = l[i] /\ j \in DOMAIN l /\ m[j] = l[j]
    BY <2>1 DEF Distinct
  <2>2. CASE /\ i - Len(l) \in DOMAIN new /\ m[i] = new[i - Len(l)]
             /\ j - Len(l) \in DOMAIN new /\ m[j] = new[j - Len(l)]
    <3>1. i - Len(l) = j - Len(l)
      BY <1>1, <2>2 DEF Distinct
    <3>2. i \in Nat /\ j \in Nat
      BY <1>5
    <3>3. QED
      BY <1>5, <3>1, <3>2
  <2>3. ASSUME NEW k \in DOMAIN l, NEW n \in DOMAIN new
        PROVE  l[k].replica_event_id # new[n].replica_event_id
    BY <1>3, <2>3 DEF IdsOf
  <2>4. QED
    BY <1>6, <2>1, <2>2, <2>3
<1>8. \A i \in DOMAIN l : i \in DOMAIN m /\ m[i] = l[i]
  BY <1>5
<1>9. QED
  BY <1>2, <1>4, <1>5, <1>6, <1>7, <1>8

\* iter().filter() of one event that is kept is that event.
LEMMA FilteredOne ==
  ASSUME NEW S, NEW s \in Seq(S), DOMAIN s = {1}
  PROVE  DOMAIN Filtered(s, {1}) = {1} /\ Filtered(s, {1})[1] = s[1]
<1>1. Cardinality({1}) = 1 /\ {1} \in SUBSET DOMAIN s
  BY FS_Singleton
<1>2. PICK f : /\ f \in Injection(1 .. 1, {1})
               /\ Filtered(s, {1}) = [k \in 1 .. 1 |-> s[f[k]]]
  BY <1>1, FilteredFrom
<1>3. f[1] = 1
  BY <1>2 DEF Injection
<1>4. QED
  BY <1>2, <1>3

\* append_local adds the one event of a service call, with write offset 1.
LEMMA AppendLocalLog ==
  ASSUME NEW l \in Seq(StoredEvent), Distinct(l),
         NEW e \in StoredEvent, e.replica_write_offset = 0, e.replica_event_id \notin IdsOf(l)
  PROVE  /\ AppendLocal(l, <<e>>) \in Seq(StoredEvent)
         /\ Distinct(AppendLocal(l, <<e>>))
         /\ Len(AppendLocal(l, <<e>>)) = Len(l) + 1
         /\ \A i \in DOMAIN l : AppendLocal(l, <<e>>)[i] = l[i]
         /\ AppendLocal(l, <<e>>)[Len(l) + 1].replica_event_id = e.replica_event_id
         /\ AppendLocal(l, <<e>>)[Len(l) + 1].replica_id = e.replica_id
<1> DEFINE kept == {i \in DOMAIN <<e>> : <<e>>[i].replica_event_id \notin IdsOf(l)}
           new == Fresh(l, <<e>>)
           numbered == [i \in DOMAIN new |->
                          [new[i] EXCEPT !.replica_write_offset = IF @ = 0 THEN i ELSE @]]
           m == l \o numbered
<1>1. <<e>> \in Seq(StoredEvent) /\ DOMAIN <<e>> = {1} /\ <<e>>[1] = e /\ kept = {1}
  OBVIOUS
<1>2. DOMAIN new = {1} /\ new[1] = e
  <2>1. new = Filtered(<<e>>, {1})
    BY <1>1 DEF Fresh
  <2>2. QED
    BY <1>1, <2>1, FilteredOne
<1> HIDE DEF new, kept
<1>3. /\ DOMAIN numbered = 1 .. 1
      /\ numbered[1] \in StoredEvent
      /\ numbered[1].replica_event_id = e.replica_event_id
      /\ numbered[1].replica_id = e.replica_id
  BY <1>2 DEF StoredEvent
<1>4. numbered \in Seq(StoredEvent) /\ Len(numbered) = 1
  BY <1>3
<1>5. AppendLocal(l, <<e>>) = m
  BY DEF AppendLocal, new
<1> HIDE DEF numbered
<1>6. /\ m \in Seq(StoredEvent) /\ Len(m) = Len(l) + 1
      /\ DOMAIN l = 1 .. Len(l) /\ Len(l) \in Nat
      /\ DOMAIN m = 1 .. (Len(l) + 1)
      /\ \A i \in 1 .. (Len(l) + 1) : m[i] = IF i <= Len(l) THEN l[i] ELSE numbered[i - Len(l)]
  <2>1. /\ m \in Seq(StoredEvent)
        /\ Len(m) = Len(l) + Len(numbered)
        /\ \A i \in 1 .. Len(l) + Len(numbered) :
             m[i] = IF i <= Len(l) THEN l[i] ELSE numbered[i - Len(l)]
    <3>1. numbered \in Seq(StoredEvent)
      BY <1>4
    <3>2. QED
      BY ONLY l \in Seq(StoredEvent), <3>1, ConcatProperties
  <2> HIDE DEF m
  <2>2. QED
    BY <1>4, <2>1, LenProperties
<1> HIDE DEF m
<1>7. ASSUME NEW i \in DOMAIN m
      PROVE  \/ i \in DOMAIN l /\ m[i] = l[i]
             \/ i = Len(l) + 1 /\ m[i].replica_event_id = e.replica_event_id
  <2>1. CASE i <= Len(l)
    BY <1>6, <2>1
  <2>2. CASE ~(i <= Len(l))
    <3>1. i = Len(l) + 1 /\ i - Len(l) = 1
      BY <1>6, <2>2
    <3>2. QED
      BY <1>3, <1>6, <2>2, <3>1
  <2>3. QED
    BY <2>1, <2>2
<1>8. Distinct(m)
  <2>1. \A k \in DOMAIN l : l[k].replica_event_id # e.replica_event_id
    BY DEF IdsOf
  <2>2. QED
    BY <1>7, <2>1 DEF Distinct
<1>9. /\ \A i \in DOMAIN l : m[i] = l[i]
      /\ m[Len(l) + 1] = numbered[1]
  BY <1>6
<1>10. QED
  BY <1>3, <1>5, <1>6, <1>8, <1>9

\* The next log of r has only what some log has.
Took(r) ==
  \A i \in DOMAIN entries'[r] :
    \E s \in Replicas : \E j \in DOMAIN entries[s] : entries'[r][i] = entries[s][j]

\* The next log of r has one event more, of its own.
Wrote(r) ==
  \E e \in StoredEvent :
    /\ e.replica_write_offset = 0 /\ e.replica_id = r /\ e.replica_event_id \notin IdsOf(entries[r])
    /\ entries'[r] = AppendLocal(entries[r], <<e>>)

\* An event that some log has, or one of r's own that none has.
KnownOrOwn(e, r) ==
  \/ \E s \in Replicas : \E j \in DOMAIN entries[s] : e = entries[s][j]
  \/ /\ e.replica_id = r
     /\ \A s \in Replicas : e.replica_event_id \notin IdsOf(entries[s])

\* A log may grow by what another log holds and by events of its own that nobody has.
LEMMA LogStep ==
  ASSUME HInv, NEW r \in Replicas, NEW m \in Seq(StoredEvent), Distinct(m),
         entries' = [entries EXCEPT ![r] = m], pulled' \in [Phones -> Nat],
         \A i \in DOMAIN entries[r] : i \in DOMAIN m /\ m[i] = entries[r][i],
         \A i \in DOMAIN m : KnownOrOwn(m[i], r)
  PROVE  HInv'
<1>1. entries' \in [Replicas -> Seq(StoredEvent)] /\ entries'[r] = m
      /\ \A s \in Replicas \ {r} : entries'[s] = entries[s]
  BY DEF HInv
<1>2. ASSUME NEW s \in Replicas PROVE Agree(m, entries[s]) /\ Agree(entries[s], m)
  <2>1. ASSUME NEW i \in DOMAIN m, NEW j \in DOMAIN entries[s],
               m[i].replica_event_id = entries[s][j].replica_event_id
        PROVE  m[i] = entries[s][j]
    <3>1. entries[s][j].replica_event_id \in IdsOf(entries[s])
      BY DEF IdsOf
    <3>2. PICK t \in Replicas : \E k \in DOMAIN entries[t] : m[i] = entries[t][k]
      BY <2>1, <3>1 DEF KnownOrOwn
    <3>3. Agree(entries[t], entries[s])
      BY DEF HInv
    <3>4. QED
      BY <2>1, <3>2, <3>3 DEF Agree
  <2>2. QED
    BY <2>1 DEF Agree
<1>3. Agree(m, m)
  BY DEF Distinct, Agree
<1>4. \A s, t \in Replicas : Agree(entries'[s], entries'[t])
  BY <1>1, <1>2, <1>3 DEF HInv
<1>5. \A s \in Replicas : Distinct(entries'[s])
  BY <1>1 DEF HInv
<1>6. ASSUME NEW s \in Replicas, NEW i \in DOMAIN entries'[s], NEW t \in Replicas,
             entries'[s][i].replica_id = t
      PROVE  entries'[s][i].replica_event_id \in IdsOf(entries'[t])
  <2>1. \A q \in Replicas : \A x \in IdsOf(entries[q]) : x \in IdsOf(entries'[q])
    <3>1. \A x \in IdsOf(entries[r]) : x \in IdsOf(m)
      BY DEF IdsOf
    <3>2. QED
      BY <1>1, <3>1
  <2>2. CASE \E q \in Replicas : \E j \in DOMAIN entries[q] : entries'[s][i] = entries[q][j]
    <3>1. entries'[s][i].replica_event_id \in IdsOf(entries[t])
      BY <1>6, <2>2 DEF HInv, Own
    <3>2. QED
      BY <2>1, <3>1
  <2>3. CASE s = r /\ m[i].replica_id = r
    <3>1. t = s
      BY <1>1, <1>6, <2>3
    <3>2. QED
      BY <3>1 DEF IdsOf
  <2>4. QED
    BY <1>1, <2>2, <2>3 DEF KnownOrOwn
<1>7. \A s, t \in Replicas : Agree(entries[s], entries[t])' /\ Own(entries[t], s)'
  BY <1>4, <1>6 DEF Agree, Own
<1>8. \A s \in Replicas : Distinct(entries[s])'
  BY <1>5 DEF Distinct
<1>9. QED
  BY <1>1, <1>7, <1>8 DEF HInv

\* What leaves a log alone takes nothing new.
LEMMA TookSame ==
  ASSUME NEW r \in Replicas, entries'[r] = entries[r]
  PROVE  Took(r)
BY DEF Took

\* A service call adds one event to the log of its replica, with an id of its own.
LEMMA AuthorStep ==
  ASSUME HInv, NEW r \in Replicas, NEW id \in Ids, NEW now \in Times,
         NEW p \in Edits \cup {"Created"}, Author(r, id, now, p)
  PROVE  HInv' /\ \A t \in Replicas : Took(t) \/ Wrote(t)
<1> DEFINE e == [replica_event_id |-> id, replica_time_ms |-> now, replica_id |-> r, payload |-> p,
                 replica_write_offset |-> 0]
           l == entries[r]
           m == AppendLocal(l, <<e>>)
<1>1. /\ \A s \in Replicas : id \notin IdsOf(entries[s])
      /\ entries' = [entries EXCEPT ![r] = m]
      /\ pulled' = pulled
  BY DEF Author
<1>2. /\ e \in StoredEvent /\ e.replica_write_offset = 0 /\ e.replica_event_id = id
      /\ e.replica_id = r
  BY DEF StoredEvent
<1>3. l \in Seq(StoredEvent) /\ Distinct(l) /\ pulled \in [Phones -> Nat]
  BY DEF HInv
<1> HIDE DEF e
<1>4. /\ m \in Seq(StoredEvent) /\ Distinct(m) /\ Len(m) = Len(l) + 1
      /\ \A i \in DOMAIN l : m[i] = l[i]
      /\ m[Len(l) + 1].replica_event_id = id /\ m[Len(l) + 1].replica_id = r
  BY <1>1, <1>2, <1>3, AppendLocalLog
<1>5. \A t \in Replicas : Took(t) \/ Wrote(t)
  <2>1. entries'[r] = m /\ \A t \in Replicas \ {r} : entries'[t] = entries[t]
    BY <1>1 DEF HInv
  <2>2. Wrote(r)
    BY <1>1, <1>2, <2>1 DEF Wrote
  <2>3. QED
    BY <2>1, <2>2, TookSame
<1> HIDE DEF m
<1>6. /\ DOMAIN l = 1 .. Len(l) /\ Len(l) \in Nat /\ DOMAIN m = 1 .. Len(l) + 1
  BY <1>3, <1>4, LenProperties
<1>7. /\ \A i \in DOMAIN l : i \in DOMAIN m /\ m[i] = l[i]
      /\ \A i \in DOMAIN m : i \in DOMAIN l \/ i = Len(l) + 1
  BY <1>4, <1>6
<1>8. ASSUME NEW i \in DOMAIN m
      PROVE  KnownOrOwn(m[i], r)
  BY <1>1, <1>4, <1>7 DEF KnownOrOwn
<1>9. HInv'
  <2>1. pulled' \in [Phones -> Nat]
    BY <1>1, <1>3
  <2>2. QED
    BY <1>1, <1>4, <1>7, <1>8, <2>1, LogStep
<1>10. QED
  BY <1>5, <1>9

\* A batch of entries of one log is appended to another: nothing new is written.
LEMMA ReplicatedStep ==
  ASSUME HInv, NEW r \in Replicas, NEW s \in Replicas,
         NEW batch \in Seq(StoredEvent), Distinct(batch),
         \A k \in DOMAIN batch : \E j \in DOMAIN entries[s] : batch[k] = entries[s][j],
         entries' = [entries EXCEPT ![r] = AppendReplicated(entries[r], batch)],
         pulled' \in [Phones -> Nat]
  PROVE  HInv' /\ \A t \in Replicas : Took(t)
<1> DEFINE m == AppendReplicated(entries[r], batch)
<1>1. entries[r] \in Seq(StoredEvent) /\ Distinct(entries[r])
  BY DEF HInv
<1>2. /\ m \in Seq(StoredEvent) /\ Distinct(m)
      /\ \A i \in DOMAIN entries[r] : i \in DOMAIN m /\ m[i] = entries[r][i]
      /\ \A i \in DOMAIN m :
           \/ \E j \in DOMAIN entries[r] : m[i] = entries[r][j]
           \/ \E k \in DOMAIN batch : m[i] = batch[k]
  BY <1>1, AppendReplicatedLog
<1>3. entries' = [entries EXCEPT ![r] = m]
  OBVIOUS
<1> HIDE DEF m
<1>4. ASSUME NEW i \in DOMAIN m
      PROVE  \E t \in Replicas : \E j \in DOMAIN entries[t] : m[i] = entries[t][j]
  <2>1. CASE \E j \in DOMAIN entries[r] : m[i] = entries[r][j]
    BY <2>1
  <2>2. CASE \E k \in DOMAIN batch : m[i] = batch[k]
    BY <2>2
  <2>3. QED
    BY <1>2, <2>1, <2>2
<1>5. HInv'
  <2>1. /\ m \in Seq(StoredEvent) /\ Distinct(m)
        /\ \A i \in DOMAIN entries[r] : i \in DOMAIN m /\ m[i] = entries[r][i]
    BY <1>2
  <2>2. \A i \in DOMAIN m : KnownOrOwn(m[i], r)
    BY <1>4 DEF KnownOrOwn
  <2>3. QED
    BY ONLY HInv, r \in Replicas, pulled' \in [Phones -> Nat], <1>3, <2>1, <2>2, LogStep
<1>6. \A t \in Replicas : Took(t)
  <2>1. entries'[r] = m /\ \A t \in Replicas \ {r} : entries'[t] = entries[t]
    BY <1>3 DEF HInv
  <2>2. Took(r)
    BY <1>4, <2>1 DEF Took
  <2>3. QED
    BY <2>1, <2>2, TookSame
<1>7. QED
  BY <1>5, <1>6

\* The server takes a device's events as the device holds them.
LEMMA PushStep ==
  ASSUME HInv, NEW r \in Phones, Push(r)
  PROVE  HInv' /\ \A t \in Replicas : Took(t)
<1> DEFINE kept == {i \in DOMAIN entries[r] : entries[r][i].replica_id = r}
           sent == Filtered(entries[r], kept)
<1>1. /\ entries' = [entries EXCEPT ![Server] = AppendReplicated(entries[Server], sent)]
      /\ pulled' = pulled
  BY DEF Push, Ship
<1>2. r \in Replicas /\ Server \in Replicas
  BY DEF Replicas
<1>3. entries[r] \in Seq(StoredEvent) /\ Distinct(entries[r]) /\ pulled \in [Phones -> Nat]
  BY <1>2 DEF HInv
<1>4. kept \in SUBSET DOMAIN entries[r]
  OBVIOUS
<1> HIDE DEF kept
<1>5. /\ sent \in Seq(StoredEvent) /\ Distinct(sent)
      /\ \A k \in DOMAIN sent : \E j \in DOMAIN entries[r] : sent[k] = entries[r][j]
  BY <1>3, <1>4, FilteredLog
<1> HIDE DEF sent
<1>6. QED
  BY <1>1, <1>2, <1>3, <1>5, ReplicatedStep

\* A device takes the server's events as the server holds them.
LEMMA PullStep ==
  ASSUME HInv, NEW r \in Phones, Pull(r)
  PROVE  HInv' /\ \A t \in Replicas : Took(t)
<1> DEFINE l == entries[Server]
           from == pulled[r] + 1
           page == SubSeq(l, from, Len(l))
<1>1. /\ entries' = [entries EXCEPT ![r] = AppendReplicated(entries[r], page)]
      /\ pulled' = [pulled EXCEPT ![r] = Len(l)]
  BY DEF Pull, Ship
<1>2. r \in Replicas /\ Server \in Replicas
  BY DEF Replicas
<1>3. /\ l \in Seq(StoredEvent) /\ Distinct(l) /\ DOMAIN l = 1 .. Len(l) /\ Len(l) \in Nat
      /\ from \in Nat \ {0} /\ pulled \in [Phones -> Nat]
  BY <1>2, LenProperties DEF HInv
<1>4. pulled' \in [Phones -> Nat]
  BY <1>1, <1>3
<1> HIDE DEF l, from
<1>5. \A i \in from .. Len(l) : i \in DOMAIN l /\ l[i] \in StoredEvent
  BY <1>3, ElementOfSeq
<1>6. /\ page \in Seq(StoredEvent)
      /\ Len(page) = IF from <= Len(l) THEN Len(l) - from + 1 ELSE 0
      /\ \A i \in 1 .. Len(page) : page[i] = l[from + i - 1]
  BY <1>3, <1>5, SubSeqProperties
<1> HIDE DEF page
<1>7. DOMAIN page = 1 .. Len(page)
  BY <1>6, LenProperties
<1>8. \A k \in DOMAIN page : page[k] = l[from + k - 1] /\ from + k - 1 \in DOMAIN l
  BY <1>3, <1>6, <1>7
<1>9. Distinct(page)
  <2> SUFFICES ASSUME NEW i \in DOMAIN page, NEW j \in DOMAIN page,
                      page[i].replica_event_id = page[j].replica_event_id
               PROVE  i = j
    BY DEF Distinct
  <2>1. from + i - 1 = from + j - 1
    BY <1>3, <1>8 DEF Distinct
  <2>2. QED
    BY <1>3, <1>6, <1>7, <2>1
<1>10. \A k \in DOMAIN page : \E j \in DOMAIN entries[Server] : page[k] = entries[Server][j]
  BY <1>8 DEF l
<1>11. QED
  BY <1>1, <1>2, <1>4, <1>6, <1>9, <1>10, ReplicatedStep

\* Every step keeps the logs' agreement, and only authors write.
LEMMA NextHInv ==
  ASSUME HInv, [Next]_vars
  PROVE  HInv' /\ \A t \in Replicas : Took(t) \/ Wrote(t)
<1>1. ASSUME NEW r \in Replicas, Create(r) PROVE HInv' /\ \A t \in Replicas : Took(t) \/ Wrote(t)
  BY <1>1, AuthorStep DEF Create
<1>2. ASSUME NEW r \in Replicas, Edit(r) PROVE HInv' /\ \A t \in Replicas : Took(t) \/ Wrote(t)
  BY <1>2, AuthorStep DEF Edit
<1>3. ASSUME NEW r \in Phones, Push(r) PROVE HInv' /\ \A t \in Replicas : Took(t) \/ Wrote(t)
  BY <1>3, PushStep
<1>4. ASSUME NEW r \in Phones, Pull(r) PROVE HInv' /\ \A t \in Replicas : Took(t) \/ Wrote(t)
  BY <1>4, PullStep
<1>5. CASE UNCHANGED vars
  <2>1. HInv'
    BY <1>5 DEF vars, HInv, Own
  <2>2. QED
    BY <1>5, <2>1, TookSame DEF vars
<1>6. QED
  BY <1>1, <1>2, <1>3, <1>4, <1>5 DEF Next

\* Each log holds an event once, and an id names one and the same event in all logs,
\* its time and its write offset included (append's idempotence by event id, and the
\* provenance that append_local fills in before anything is sent).
THEOREM LogsAgree == Spec => []HInv
<1>1. QED
  BY InitHInv, NextHInv, PTL DEF Spec

\* Replicas with the same events show the same item, in whatever order the events
\* reached them and whatever their clocks said.
THEOREM Converges == Spec => []Convergence
<1>1. HInv => Convergence
  <2> SUFFICES ASSUME HInv, NEW r \in Replicas, NEW s \in Replicas,
                      IdsOf(entries[r]) = IdsOf(entries[s])
               PROVE  ItemOf(r) = ItemOf(s)
    BY DEF Convergence
  <2>1. SortEvents(entries[r]) = SortEvents(entries[s])
    BY SameHistory DEF HInv
  <2>2. QED
    BY <2>1 DEF ItemOf
<1>2. QED
  BY <1>1, LogsAgree, PTL

-----------------------------------------------------------------------------
(***************************************************************************)
(* The fold: induction over the events applied so far.                     *)
(***************************************************************************)

\* A set of naturals with 0 and with the successor of each of its members has them all.
LEMMA SetInduction ==
  ASSUME NEW S \in SUBSET Nat, 0 \in S, \A n \in S : n + 1 \in S
  PROVE  S = Nat
<1> SUFFICES ASSUME Nat \ S # {} PROVE FALSE
  OBVIOUS
<1>1. PICK x \in Nat \ S : \A y \in Nat \ S : ~(<<y, x>> \in OpToRel(<, Nat))
  BY NatLessThanWellFounded, WFMin
<1>2. \A y \in Nat \ S : ~(y < x)
  BY <1>1 DEF OpToRel
<1>3. x - 1 \in Nat /\ x - 1 \notin S
  BY ONLY x \in Nat \ S, 0 \in S, \A n \in S : n + 1 \in S
<1>4. QED
  BY ONLY <1>2, <1>3, x \in Nat \ S

\* What holds of 0 and passes from each number below n to the next holds up to n.
LEMMA BoundedInduction ==
  ASSUME NEW n \in Nat, NEW P \in [0 .. n -> BOOLEAN], P[0],
         \A k \in 0 .. n : k < n /\ P[k] => P[k + 1]
  PROVE  \A k \in 0 .. n : P[k]
<1> DEFINE S == {k \in Nat : k <= n => P[k]}
<1>1. 0 \in S
  OBVIOUS
<1>2. ASSUME NEW k \in S PROVE k + 1 \in S
  BY <1>2
<1>3. S \in SUBSET Nat
  OBVIOUS
<1> HIDE DEF S
<1>4. S = Nat
  BY <1>1, <1>2, <1>3, SetInduction
<1>5. QED
  BY <1>4 DEF S

\* The fold goes from event to event.
LEMMA FoldSteps ==
  ASSUME NEW h, NEW n \in Nat, Len(h) = n
  PROVE  /\ Folded(h)[0] = DefaultItem
         /\ \A k \in 1 .. n : Folded(h)[k] = ApplyEvent(Folded(h)[k - 1], h[k])
<1> DEFINE IsFold(g, m) ==
             g = [k \in 0 .. m |-> IF k = 0 THEN DefaultItem ELSE ApplyEvent(g[k - 1], h[k])]
           S == {m \in Nat : \E g : IsFold(g, m)}
<1>1. 0 \in S
  <2>1. IsFold([k \in 0 .. 0 |-> DefaultItem], 0)
    OBVIOUS
  <2>2. QED
    BY <2>1
<1>2. ASSUME NEW m \in S PROVE m + 1 \in S
  <2>1. PICK g : IsFold(g, m)
    BY <1>2
  <2> DEFINE f == [k \in 0 .. m + 1 |-> IF k = m + 1 THEN ApplyEvent(g[m], h[m + 1]) ELSE g[k]]
  <2>2. m \in Nat
    BY <1>2
  <2>3. ASSUME NEW k \in 0 .. m + 1
        PROVE  f[k] = IF k = 0 THEN DefaultItem ELSE ApplyEvent(f[k - 1], h[k])
    <3>1. CASE k = 0
      BY <2>1, <2>2, <3>1
    <3>2. CASE k = m + 1
      <4>1. f[k] = ApplyEvent(g[m], h[m + 1]) /\ f[k - 1] = g[m] /\ k # 0
        BY <2>2, <3>2
      <4>2. QED
        BY <3>2, <4>1
    <3>3. CASE k # 0 /\ k # m + 1
      <4>1. f[k] = g[k] /\ f[k - 1] = g[k - 1] /\ k \in 0 .. m
        BY <2>2, <2>3, <3>3
      <4>2. g[k] = ApplyEvent(g[k - 1], h[k])
        BY <2>1, <3>3, <4>1
      <4>3. QED
        BY <3>3, <4>1, <4>2
    <3>4. QED
      BY <3>1, <3>2, <3>3
  <2>4. f = [k \in 0 .. m + 1 |-> f[k]]
    OBVIOUS
  <2> HIDE DEF f
  <2>5. IsFold(f, m + 1)
    BY <2>3, <2>4
  <2>6. QED
    BY <2>2, <2>5
<1>3. S \in SUBSET Nat
  OBVIOUS
<1> HIDE DEF S
<1>4. n \in S
  BY <1>1, <1>2, <1>3, SetInduction
<1>5. \E g : IsFold(g, n)
  BY <1>4 DEF S
<1>6. Folded(h) = CHOOSE g : IsFold(g, n)
  BY DEF Folded
<1> HIDE DEF IsFold
<1>7. IsFold(Folded(h), n)
  BY <1>5, <1>6
<1>8. QED
  BY <1>7 DEF IsFold

\* What comes before an entry by its key has a lower place.
LEMMA LowerPlace ==
  ASSUME NEW s \in Seq(StoredEvent), Distinct(s), NEW i \in DOMAIN s, NEW j \in DOMAIN s,
         Before(s[j], s[i])
  PROVE  Cardinality(UpTo(s, j)) <= Cardinality(UpTo(s, i))
<1>1. \A k \in DOMAIN s : s[k] \in StoredEvent
  BY ElementOfSeq, LenProperties
<1>2. \A k \in DOMAIN s : k \in UpTo(s, j) => k \in UpTo(s, i)
  BY <1>1, UpToByKey, BeforeIsOrder
<1>3. UpTo(s, j) \subseteq UpTo(s, i) /\ UpTo(s, i) \subseteq DOMAIN s
  BY <1>2 DEF UpTo
<1>4. IsFiniteSet(UpTo(s, i))
  BY <1>3, Places, FS_Subset
<1>5. QED
  BY <1>3, <1>4, FS_Subset

\* The sorted history has the entries of the log in the order of their keys.
LEMMA SortedHistory ==
  ASSUME NEW s \in Seq(StoredEvent), Distinct(s)
  PROVE  /\ SortEvents(s) \in Seq(StoredEvent) /\ DOMAIN SortEvents(s) = DOMAIN s
         /\ \A j \in DOMAIN s : \E i \in DOMAIN s : SortEvents(s)[j] = s[i]
         /\ \A i \in DOMAIN s : \E j \in DOMAIN s : SortEvents(s)[j] = s[i]
         /\ \A i, j \in DOMAIN s : Before(SortEvents(s)[i], SortEvents(s)[j]) <=> i < j
<1> DEFINE at == [k \in DOMAIN s |-> CHOOSE i \in DOMAIN s : Cardinality(UpTo(s, i)) = k]
           h == SortEvents(s)
<1>1. h = [k \in DOMAIN s |-> s[at[k]]]
  BY DEF SortEvents
<1>2. \A k \in DOMAIN s : at[k] \in DOMAIN s /\ Cardinality(UpTo(s, at[k])) = k
  BY Places
<1>3. \A k \in DOMAIN s : s[k] \in StoredEvent /\ k \in Nat
  BY ElementOfSeq, LenProperties
<1> HIDE DEF at, h
<1>4. \A k \in DOMAIN s : h[k] = s[at[k]] /\ h[k] \in StoredEvent
  BY <1>1, <1>2, <1>3
<1>5. h \in Seq(StoredEvent) /\ DOMAIN h = DOMAIN s
  <2>1. DOMAIN s = 1 .. Len(s) /\ Len(s) \in Nat
    BY LenProperties
  <2>2. h \in [1 .. Len(s) -> StoredEvent]
    BY <1>1, <1>4, <2>1
  <2>3. QED
    BY <2>1, <2>2
<1>6. ASSUME NEW i \in DOMAIN s PROVE \E j \in DOMAIN s : h[j] = s[i]
  <2> DEFINE j == Cardinality(UpTo(s, i))
  <2>1. j \in DOMAIN s
    <3>1. i \in UpTo(s, i) /\ UpTo(s, i) \subseteq DOMAIN s
      BY UpToByKey DEF UpTo
    <3>2. IsFiniteSet(UpTo(s, i)) /\ j <= Cardinality(DOMAIN s)
      BY <3>1, Places, FS_Subset
    <3>3. j \in Nat /\ j # 0
      BY <3>1, <3>2, FS_CardinalityType, FS_EmptySet
    <3>4. QED
      BY <3>2, <3>3, Places
  <2>2. at[j] = i
    BY <1>2, <2>1, Places
  <2>3. QED
    BY <1>4, <2>1, <2>2
<1>7. ASSUME NEW i \in DOMAIN s, NEW j \in DOMAIN s, i < j PROVE Before(h[i], h[j])
  <2>1. at[i] # at[j]
    BY <1>2, <1>3, <1>7
  <2>2. s[at[i]].replica_event_id # s[at[j]].replica_event_id
    BY <1>2, <2>1 DEF Distinct
  <2>3. ~Before(s[at[j]], s[at[i]])
    <3>1. SUFFICES ASSUME Before(s[at[j]], s[at[i]]) PROVE FALSE
      OBVIOUS
    <3>2. j <= i
      BY <1>2, <3>1, LowerPlace
    <3>3. QED
      BY <1>3, <1>7, <3>2
  <2>4. QED
    BY <1>2, <1>3, <1>4, <2>2, <2>3, BeforeIsOrder
<1>8. ASSUME NEW i \in DOMAIN s, NEW j \in DOMAIN s, Before(h[i], h[j]) PROVE i < j
  <2>1. ~Before(h[j], h[i])
    BY <1>4, <1>8, BeforeIsOrder
  <2>2. i # j
    BY <1>8, <2>1
  <2>3. QED
    BY <1>3, <1>7, <2>1, <2>2
<1>9. QED
  BY <1>2, <1>4, <1>5, <1>6, <1>7, <1>8 DEF h

-----------------------------------------------------------------------------
(***************************************************************************)
(* LastWriterWins over the sorted history: what the first k events made of *)
(* the item.                                                               *)
(***************************************************************************)

\* No deletion comes before the j-th event.
Counts(h, j) == \A i \in 1 .. j - 1 : h[i].payload # "Deleted"

Writes(h, j, ps) == h[j].payload \in ps /\ Counts(h, j)

\* v is what the last of the first k events that writes a field, with payloads ps, wrote.
LastWritten(v, h, k, ps) ==
  \/ v = 0 /\ \A j \in 1 .. k : ~Writes(h, j, ps)
  \/ \E j \in 1 .. k : /\ Writes(h, j, ps) /\ h[j].replica_event_id = v
                       /\ \A i \in 1 .. k : Writes(h, i, ps) => i <= j

ClosedForm(item, h, k) ==
  /\ item.deleted \in BOOLEAN /\ item.last_modified_ms \in Nat
  /\ item.deleted <=> \E j \in 1 .. k : h[j].payload = "Deleted"
  /\ LastWritten(item.name, h, k, {"Created", "Renamed"})
  /\ LastWritten(item.quantity, h, k, {"Created", "QuantityChanged"})
  /\ LastWritten(item.note, h, k, {"NoteChanged"})
  /\ \A j \in 1 .. k : Counts(h, j) => h[j].replica_time_ms <= item.last_modified_ms

\* The next event writes a field or leaves it.
LEMMA NextWritten ==
  ASSUME NEW h, NEW k \in Nat, NEW v, NEW ps, LastWritten(v, h, k, ps)
  PROVE  LastWritten(IF Writes(h, k + 1, ps) THEN h[k + 1].replica_event_id ELSE v, h, k + 1, ps)
<1>1. CASE Writes(h, k + 1, ps)
  BY <1>1 DEF LastWritten
<1>2. CASE ~Writes(h, k + 1, ps)
  <2>1. \A j \in 1 .. k + 1 : Writes(h, j, ps) => j \in 1 .. k
    BY <1>2
  <2>2. LastWritten(v, h, k + 1, ps)
    BY <2>1 DEF LastWritten
  <2>3. QED
    BY <1>2, <2>2
<1>3. QED
  BY <1>1, <1>2

\* apply_event keeps to the closed form.
LEMMA ApplyClosed ==
  ASSUME NEW h \in Seq(StoredEvent), NEW k \in Nat, k + 1 \in DOMAIN h,
         \A i, j \in DOMAIN h : i < j => Before(h[i], h[j]),
         NEW item, ClosedForm(item, h, k)
  PROVE  ClosedForm(ApplyEvent(item, h[k + 1]), h, k + 1)
<1> DEFINE e == h[k + 1]
           next == ApplyEvent(item, e)
<1>1. e \in StoredEvent /\ DOMAIN h = 1 .. Len(h) /\ Len(h) \in Nat
  BY ElementOfSeq, LenProperties
<1>2. /\ item.deleted \in BOOLEAN /\ item.last_modified_ms \in Nat
      /\ item.deleted <=> \E j \in 1 .. k : h[j].payload = "Deleted"
      /\ Counts(h, k + 1) <=> ~item.deleted
  BY DEF ClosedForm, Counts
<1>3. \A j \in 1 .. k + 1 : j \in 1 .. k \/ j = k + 1
  OBVIOUS
<1>4. \A j \in 1 .. k : j \in 1 .. k + 1
  OBVIOUS
<1>5. CASE item.deleted
  <2>1. next = item
    BY <1>5 DEF ApplyEvent
  <2>2. \A ps : ~Writes(h, k + 1, ps)
    BY <1>2, <1>5 DEF Writes
  <2>3. \A v, ps : LastWritten(v, h, k, ps) => LastWritten(v, h, k + 1, ps)
    BY <2>2, NextWritten
  <2>4. \A j \in 1 .. k + 1 : Counts(h, j) => h[j].replica_time_ms <= item.last_modified_ms
    BY <1>2, <1>3, <1>5 DEF ClosedForm
  <2>5. \E j \in 1 .. k + 1 : h[j].payload = "Deleted"
    BY <1>2, <1>4, <1>5
  <2> HIDE DEF next
  <2>6. QED
    BY <1>2, <1>5, <2>1, <2>3, <2>4, <2>5 DEF ClosedForm, next
<1>6. CASE ~item.deleted
  <2>1. next = Applied(item, e)
    BY <1>6 DEF ApplyEvent
  <2>2. \A ps : Writes(h, k + 1, ps) <=> e.payload \in ps
    BY <1>2, <1>6 DEF Writes
  <2>3. \A v, ps : LastWritten(v, h, k, ps)
                   => LastWritten(IF e.payload \in ps THEN e.replica_event_id ELSE v, h, k + 1, ps)
    <3> SUFFICES ASSUME NEW v, NEW ps, LastWritten(v, h, k, ps)
                 PROVE  LastWritten(IF e.payload \in ps THEN e.replica_event_id ELSE v, h, k + 1, ps)
      OBVIOUS
    <3>1. LastWritten(IF Writes(h, k + 1, ps) THEN e.replica_event_id ELSE v, h, k + 1, ps)
      BY NextWritten
    <3>2. QED
      BY <2>2, <3>1
  <2>4. /\ next.name = IF e.payload \in {"Created", "Renamed"} THEN e.replica_event_id ELSE item.name
        /\ next.quantity = IF e.payload \in {"Created", "QuantityChanged"} THEN e.replica_event_id
                           ELSE item.quantity
        /\ next.note = IF e.payload \in {"NoteChanged"} THEN e.replica_event_id ELSE item.note
        /\ next.deleted = (e.payload = "Deleted")
        /\ next.last_modified_ms = e.replica_time_ms
    BY <2>1 DEF Applied
  <2> HIDE DEF next
  <2>5. /\ LastWritten(next.name, h, k + 1, {"Created", "Renamed"})
        /\ LastWritten(next.quantity, h, k + 1, {"Created", "QuantityChanged"})
        /\ LastWritten(next.note, h, k + 1, {"NoteChanged"})
    BY <2>3, <2>4 DEF ClosedForm
  <2>6. next.deleted <=> \E j \in 1 .. k + 1 : h[j].payload = "Deleted"
    <3>1. \A j \in 1 .. k : h[j].payload # "Deleted"
      BY <1>2, <1>6
    <3>2. k + 1 \in 1 .. k + 1
      OBVIOUS
    <3>3. (\E j \in 1 .. k + 1 : h[j].payload = "Deleted") <=> e.payload = "Deleted"
      BY <1>3, <3>1, <3>2
    <3>4. QED
      BY <2>4, <3>3
  <2>7. \A j \in 1 .. k + 1 : h[j].replica_time_ms <= next.last_modified_ms
    <3> SUFFICES ASSUME NEW j \in 1 .. k + 1 PROVE h[j].replica_time_ms <= e.replica_time_ms
      BY <2>4
    <3>1. j \in DOMAIN h
      BY <1>1
    <3>2. h[j] \in StoredEvent
      BY <3>1, ElementOfSeq, LenProperties
    <3>3. j = k + 1 \/ Before(h[j], e)
      BY <3>1
    <3>4. h[j].replica_time_ms \in Nat /\ e.replica_time_ms \in Nat
      BY <1>1, <3>2, IdsAndTimes DEF StoredEvent
    <3>5. QED
      BY <3>3, <3>4 DEF Before
  <2>8. next.deleted \in BOOLEAN /\ next.last_modified_ms \in Nat
    BY <1>1, <2>4, IdsAndTimes DEF StoredEvent
  <2>9. QED
    BY <2>5, <2>6, <2>7, <2>8 DEF ClosedForm, next
<1>7. QED
  BY <1>2, <1>5, <1>6

\* The fold of a sorted history is in closed form.
LEMMA FoldClosed ==
  ASSUME NEW h \in Seq(StoredEvent), \A i, j \in DOMAIN h : i < j => Before(h[i], h[j])
  PROVE  ClosedForm(BuildFromHistory(h), h, Len(h))
<1> DEFINE n == Len(h)
           F == Folded(h)
           P == [k \in 0 .. n |-> ClosedForm(F[k], h, k)]
<1>1. n \in Nat /\ DOMAIN h = 1 .. n
  BY LenProperties
<1>2. F[0] = DefaultItem /\ \A k \in 1 .. n : F[k] = ApplyEvent(F[k - 1], h[k])
  BY <1>1, FoldSteps
<1>3. ClosedForm(DefaultItem, h, 0)
  BY DEF ClosedForm, DefaultItem, LastWritten
<1>4. ASSUME NEW k \in 0 .. n, k < n, ClosedForm(F[k], h, k) PROVE ClosedForm(F[k + 1], h, k + 1)
  <2>1. k \in Nat /\ k + 1 \in 1 .. n /\ (k + 1) - 1 = k
    BY <1>1, <1>4
  <2>2. F[k + 1] = ApplyEvent(F[k], h[k + 1])
    BY <1>2, <2>1
  <2>3. QED
    BY <1>1, <1>4, <2>1, <2>2, ApplyClosed
<1>5. \A k \in 0 .. n : P[k]
  <2>1. P \in [0 .. n -> BOOLEAN]
    BY DEF ClosedForm
  <2>2. \A k \in 0 .. n : P[k] <=> ClosedForm(F[k], h, k)
    OBVIOUS
  <2>3. \A k \in 0 .. n : k < n => k + 1 \in 0 .. n
    BY <1>1
  <2>4. 0 \in 0 .. n
    BY <1>1
  <2> HIDE DEF P, F
  <2>5. P[0]
    BY <1>2, <1>3, <2>2, <2>4
  <2>6. \A k \in 0 .. n : k < n /\ P[k] => P[k + 1]
    BY <1>4, <2>2, <2>3
  <2>7. QED
    BY <1>1, <2>1, <2>5, <2>6, BoundedInduction
<1>6. ClosedForm(F[n], h, n)
  BY <1>1, <1>5
<1>7. QED
  BY <1>6 DEF BuildFromHistory

\* The sets of LastWriterWins, for a set E of events.
DeletionsOf(E) == {e \in E : e.payload = "Deleted"}

CountingOf(E) == {e \in E : \A x \in DeletionsOf(E) : ~Before(x, e)}

WritersOf(E, ps) == {e \in CountingOf(E) : e.payload \in ps}

IsLastOf(v, W) ==
  IF W = {} THEN v = 0 ELSE \E e \in W : e.replica_event_id = v /\ \A f \in W : ~Before(e, f)

\* What is last in the sorted history is last by the keys.
LEMMA LastByKey ==
  ASSUME NEW h, NEW n \in Nat, NEW E, E = {h[j] : j \in 1 .. n},
         \A i, j \in 1 .. n : Before(h[i], h[j]) <=> i < j
  PROVE  /\ DeletionsOf(E) # {} <=> \E j \in 1 .. n : h[j].payload = "Deleted"
         /\ \A j \in 1 .. n : h[j] \in CountingOf(E) <=> Counts(h, j)
         /\ \A v, ps : LastWritten(v, h, n, ps) => IsLastOf(v, WritersOf(E, ps))
<1>1. \A j \in 1 .. n : h[j] \in E
  OBVIOUS
<1>2. ASSUME NEW j \in 1 .. n PROVE h[j] \in CountingOf(E) <=> Counts(h, j)
  <2>1. h[j] \in CountingOf(E) <=> \A i \in 1 .. n : h[i].payload = "Deleted" => ~Before(h[i], h[j])
    BY <1>1 DEF CountingOf, DeletionsOf
  <2>2. \A i : i \in 1 .. j - 1 <=> i \in 1 .. n /\ i < j
    OBVIOUS
  <2>3. QED
    BY <2>1, <2>2 DEF Counts
<1>3. ASSUME NEW ps, NEW j \in 1 .. n PROVE h[j] \in WritersOf(E, ps) <=> Writes(h, j, ps)
  BY <1>2 DEF WritersOf, Writes
<1>4. \A ps : \A e \in WritersOf(E, ps) : \E j \in 1 .. n : e = h[j]
  BY DEF WritersOf, CountingOf
<1>5. ASSUME NEW v, NEW ps, LastWritten(v, h, n, ps) PROVE IsLastOf(v, WritersOf(E, ps))
  <2>1. CASE v = 0 /\ \A j \in 1 .. n : ~Writes(h, j, ps)
    <3>1. WritersOf(E, ps) = {}
      BY <1>3, <1>4, <2>1
    <3>2. QED
      BY <2>1, <3>1 DEF IsLastOf
  <2>2. CASE \E j \in 1 .. n : /\ Writes(h, j, ps) /\ h[j].replica_event_id = v
                               /\ \A i \in 1 .. n : Writes(h, i, ps) => i <= j
    <3>1. PICK j \in 1 .. n : /\ Writes(h, j, ps) /\ h[j].replica_event_id = v
                              /\ \A i \in 1 .. n : Writes(h, i, ps) => i <= j
      BY <2>2
    <3>2. h[j] \in WritersOf(E, ps)
      BY <1>3, <3>1
    <3>3. ASSUME NEW f \in WritersOf(E, ps) PROVE ~Before(h[j], f)
      <4>1. PICK i \in 1 .. n : f = h[i]
        BY <1>4
      <4>2. i <= j
        BY <1>3, <3>1, <4>1
      <4>3. ~(j < i)
        BY <4>2
      <4>4. QED
        BY <4>1, <4>3
    <3>4. QED
      BY <3>1, <3>2, <3>3 DEF IsLastOf
  <2>3. QED
    BY <1>5, <2>1, <2>2 DEF LastWritten
<1>6. DeletionsOf(E) # {} <=> \E j \in 1 .. n : h[j].payload = "Deleted"
  BY DEF DeletionsOf
<1>7. QED
  BY <1>2, <1>5, <1>6

\* The item of a replica is in closed form.
LEMMA ItemClosed ==
  ASSUME HInv, NEW r \in Replicas
  PROVE  /\ ItemOf(r).deleted <=> DeletionsOf(Events(r)) # {}
         /\ IsLastOf(ItemOf(r).name, WritersOf(Events(r), {"Created", "Renamed"}))
         /\ IsLastOf(ItemOf(r).quantity, WritersOf(Events(r), {"Created", "QuantityChanged"}))
         /\ IsLastOf(ItemOf(r).note, WritersOf(Events(r), {"NoteChanged"}))
         /\ \A e \in CountingOf(Events(r)) : e.replica_time_ms <= ItemOf(r).last_modified_ms
<1> DEFINE s == entries[r]
           h == SortEvents(s)
           n == Len(h)
           item == ItemOf(r)
<1>1. s \in Seq(StoredEvent) /\ Distinct(s)
  BY DEF HInv
<1>2. Events(r) = {s[i] : i \in DOMAIN s}
  BY DEF Events, ToSet
<1>3. item = BuildFromHistory(h)
  BY DEF ItemOf
<1> HIDE DEF s, item
<1>4. /\ h \in Seq(StoredEvent) /\ DOMAIN h = DOMAIN s
      /\ \A j \in DOMAIN s : \E i \in DOMAIN s : h[j] = s[i]
      /\ \A i \in DOMAIN s : \E j \in DOMAIN s : h[j] = s[i]
      /\ \A i, j \in DOMAIN s : Before(h[i], h[j]) <=> i < j
  BY <1>1, SortedHistory
<1> HIDE DEF h
<1>5. n \in Nat /\ DOMAIN h = 1 .. n
  BY <1>4, LenProperties
<1>6. ClosedForm(item, h, n)
  BY <1>3, <1>4, FoldClosed
<1> HIDE DEF n
<1>7. Events(r) = {h[j] : j \in 1 .. n}
  <2>1. \A x : x \in {s[i] : i \in DOMAIN s} <=> x \in {h[j] : j \in DOMAIN s}
    BY <1>4
  <2>2. {s[i] : i \in DOMAIN s} = {h[j] : j \in DOMAIN s}
    BY <2>1
  <2>3. DOMAIN s = 1 .. n
    BY <1>4, <1>5
  <2>4. QED
    BY <1>2, <2>2, <2>3
<1>8. /\ DeletionsOf(Events(r)) # {} <=> \E j \in 1 .. n : h[j].payload = "Deleted"
      /\ \A j \in 1 .. n : h[j] \in CountingOf(Events(r)) <=> Counts(h, j)
      /\ \A v, ps : LastWritten(v, h, n, ps) => IsLastOf(v, WritersOf(Events(r), ps))
  BY <1>4, <1>5, <1>7, LastByKey
<1>9. item.deleted <=> DeletionsOf(Events(r)) # {}
  BY <1>6, <1>8 DEF ClosedForm
<1>10. /\ IsLastOf(item.name, WritersOf(Events(r), {"Created", "Renamed"}))
       /\ IsLastOf(item.quantity, WritersOf(Events(r), {"Created", "QuantityChanged"}))
       /\ IsLastOf(item.note, WritersOf(Events(r), {"NoteChanged"}))
  BY <1>6, <1>8 DEF ClosedForm
<1>11. ASSUME NEW e \in CountingOf(Events(r)) PROVE e.replica_time_ms <= item.last_modified_ms
  <2>1. PICK j \in 1 .. n : e = h[j]
    BY <1>7 DEF CountingOf
  <2>2. Counts(h, j)
    BY <1>8, <2>1
  <2>3. QED
    BY <1>6, <2>1, <2>2 DEF ClosedForm
<1>12. QED
  BY <1>9, <1>10, <1>11 DEF item

\* The item a replica shows is what the last writers made of it: the fold of
\* build_from_history over sort_events equals its closed form, for any number of
\* events, any clocks and any arrival order.
THEOREM LastWritersWin == Spec => []LastWriterWins
<1>1. HInv => LastWriterWins
  BY ItemClosed DEF LastWriterWins, DeletionsOf, CountingOf, WritersOf, IsLastOf
<1>2. QED
  BY <1>1, LogsAgree, PTL

-----------------------------------------------------------------------------
(***************************************************************************)
(* EditShows: an event that is last by its key is applied last.            *)
(***************************************************************************)

\* A log that grows by an entry with the highest key sorts into the old history and
\* that entry.
LEMMA SortLast ==
  ASSUME NEW l \in Seq(StoredEvent), Distinct(l), NEW m \in Seq(StoredEvent), Distinct(m),
         NEW n \in Nat, Len(l) = n, Len(m) = n + 1,
         \A i \in 1 .. n : m[i] = l[i] /\ Before(l[i], m[n + 1])
  PROVE  /\ \A k \in 1 .. n : SortEvents(m)[k] = SortEvents(l)[k]
         /\ SortEvents(m)[n + 1] = m[n + 1]
<1>1. DOMAIN l = 1 .. n /\ DOMAIN m = 1 .. n + 1
  BY LenProperties
<1>2. \A i \in 1 .. n + 1 : m[i] \in StoredEvent
  BY <1>1, ElementOfSeq
<1>3. \A j \in 1 .. n + 1 : j = n + 1 \/ j \in 1 .. n
  OBVIOUS
<1>4. \A j \in 1 .. n : j \in 1 .. n + 1 /\ j # n + 1
  OBVIOUS
<1>5. ASSUME NEW i \in 1 .. n PROVE UpTo(m, i) = UpTo(l, i)
  <2>1. i \in DOMAIN l /\ i \in DOMAIN m
    BY <1>1, <1>4
  <2>2. ~Before(m[n + 1], m[i])
    <3>1. n + 1 \in 1 .. n + 1
      OBVIOUS
    <3>2. m[n + 1] \in StoredEvent /\ m[i] \in StoredEvent
      BY <1>1, <1>2, <2>1, <3>1
    <3>3. m[i].replica_event_id # m[n + 1].replica_event_id
      BY <1>1, <1>4, <2>1, <3>1 DEF Distinct
    <3>4. Before(m[i], m[n + 1])
      OBVIOUS
    <3>5. QED
      BY <3>2, <3>3, <3>4, BeforeIsOrder
  <2>3. \A j \in 1 .. n + 1 : j \in UpTo(m, i) <=> j = i \/ Before(m[j], m[i])
    BY <1>1, <2>1, UpToByKey
  <2>4. \A j \in 1 .. n : j \in UpTo(l, i) <=> j = i \/ Before(l[j], l[i])
    BY <1>1, <2>1, UpToByKey
  <2>5. UpTo(m, i) \subseteq 1 .. n + 1 /\ UpTo(l, i) \subseteq 1 .. n
    BY <1>1 DEF UpTo
  <2>6. \A j : j \in UpTo(m, i) => j \in UpTo(l, i)
    BY <1>3, <1>4, <2>2, <2>3, <2>4, <2>5
  <2>7. \A j : j \in UpTo(l, i) => j \in UpTo(m, i)
    BY <1>4, <2>3, <2>4, <2>5
  <2>8. QED
    BY <2>6, <2>7
<1>6. Cardinality(UpTo(m, n + 1)) = n + 1
  <2>1. n + 1 \in DOMAIN m
    BY <1>1
  <2>2. \A j \in 1 .. n + 1 : j \in UpTo(m, n + 1) <=> j = n + 1 \/ Before(m[j], m[n + 1])
    BY <1>1, <2>1, UpToByKey
  <2>3. \A j \in 1 .. n + 1 : j \in UpTo(m, n + 1)
    BY <1>3, <2>2
  <2>4. UpTo(m, n + 1) = 1 .. n + 1
    BY <1>1, <2>3 DEF UpTo
  <2>5. QED
    BY <2>4, FS_Interval
<1> DEFINE lat(k) == CHOOSE i \in DOMAIN l : Cardinality(UpTo(l, i)) = k
           mat(k) == CHOOSE i \in DOMAIN m : Cardinality(UpTo(m, i)) = k
<1>7. \A k \in DOMAIN l : SortEvents(l)[k] = l[lat(k)]
  BY DEF SortEvents
<1>8. \A k \in DOMAIN m : SortEvents(m)[k] = m[mat(k)]
  BY DEF SortEvents
<1>9. \A k \in DOMAIN l : lat(k) \in DOMAIN l /\ Cardinality(UpTo(l, lat(k))) = k
  BY Places
<1>10. \A k \in DOMAIN m : mat(k) \in DOMAIN m /\ Cardinality(UpTo(m, mat(k))) = k
  BY Places
<1> HIDE DEF lat, mat
<1>11. ASSUME NEW k \in 1 .. n PROVE SortEvents(m)[k] = SortEvents(l)[k]
  <2>1. k \in DOMAIN l /\ k \in DOMAIN m
    BY <1>1, <1>4
  <2>2. lat(k) \in 1 .. n /\ lat(k) \in DOMAIN m /\ Cardinality(UpTo(m, lat(k))) = k
    BY <1>1, <1>4, <1>5, <1>9, <2>1
  <2>3. lat(k) = mat(k)
    BY <1>10, <2>1, <2>2, Places
  <2>4. m[mat(k)] = l[lat(k)]
    BY <2>2, <2>3
  <2>5. QED
    BY <1>7, <1>8, <2>1, <2>4
<1>12. SortEvents(m)[n + 1] = m[n + 1]
  <2>1. n + 1 \in DOMAIN m
    BY <1>1
  <2>2. mat(n + 1) = n + 1
    BY <1>6, <1>10, <2>1, Places
  <2>3. QED
    BY <1>8, <2>1, <2>2
<1>13. QED
  BY <1>11, <1>12

\* The fold of a longer history starts with the fold of the shorter.
LEMMA FoldLonger ==
  ASSUME NEW h, NEW g, NEW n \in Nat, Len(h) = n, Len(g) = n + 1,
         \A k \in 1 .. n : g[k] = h[k]
  PROVE  BuildFromHistory(g) = ApplyEvent(BuildFromHistory(h), g[n + 1])
<1> DEFINE F == Folded(h)
           G == Folded(g)
           P == [k \in 0 .. n |-> F[k] = G[k]]
<1>1. F[0] = DefaultItem /\ \A k \in 1 .. n : F[k] = ApplyEvent(F[k - 1], h[k])
  BY FoldSteps
<1>2. G[0] = DefaultItem /\ \A k \in 1 .. n + 1 : G[k] = ApplyEvent(G[k - 1], g[k])
  BY FoldSteps
<1> HIDE DEF F, G
<1>3. ASSUME NEW k \in 0 .. n, k < n, F[k] = G[k] PROVE F[k + 1] = G[k + 1]
  <2>1. k + 1 \in 1 .. n /\ k + 1 \in 1 .. n + 1 /\ (k + 1) - 1 = k
    BY <1>3
  <2>2. F[k + 1] = ApplyEvent(F[k], h[k + 1]) /\ G[k + 1] = ApplyEvent(G[k], g[k + 1])
    BY <1>1, <1>2, <2>1
  <2>3. g[k + 1] = h[k + 1]
    BY <2>1
  <2>4. QED
    BY <1>3, <2>2, <2>3
<1>4. \A k \in 0 .. n : P[k]
  <2>1. P \in [0 .. n -> BOOLEAN] /\ \A k \in 0 .. n : P[k] <=> F[k] = G[k]
    OBVIOUS
  <2>2. 0 \in 0 .. n /\ \A k \in 0 .. n : k < n => k + 1 \in 0 .. n
    OBVIOUS
  <2> HIDE DEF P
  <2>3. P[0]
    BY <1>1, <1>2, <2>1, <2>2
  <2>4. \A k \in 0 .. n : k < n /\ P[k] => P[k + 1]
    BY <1>3, <2>1, <2>2
  <2>5. QED
    BY <2>1, <2>3, <2>4, BoundedInduction
<1>5. F[n] = G[n]
  <2>1. n \in 0 .. n
    OBVIOUS
  <2>2. P[n]
    BY <1>4, <2>1
  <2>3. QED
    BY <2>1, <2>2
<1>6. G[n + 1] = ApplyEvent(G[n], g[n + 1])
  <2>1. n + 1 \in 1 .. n + 1 /\ (n + 1) - 1 = n
    OBVIOUS
  <2>2. QED
    BY <1>2, <2>1
<1>7. QED
  BY <1>5, <1>6 DEF BuildFromHistory, F, G

\* An event written with a clock ahead of the log is applied to what was shown.
LEMMA WroteShows ==
  ASSUME HInv, HInv', NEW r \in Replicas, Wrote(r),
         NEW e \in ToSet(entries'[r]), e.replica_event_id \notin IdsOf(entries[r]),
         \A f \in Events(r) : f.replica_time_ms < e.replica_time_ms
  PROVE  ItemOf(r)' = ApplyEvent(ItemOf(r), e)
<1> DEFINE l == entries[r]
           m == entries'[r]
           n == Len(l)
           h == SortEvents(l)
           g == SortEvents(m)
<1>1. /\ l \in Seq(StoredEvent) /\ Distinct(l)
      /\ m \in Seq(StoredEvent) /\ Distinct(m)
  BY DEF HInv, Distinct
<1>2. Len(m) = n + 1 /\ \A i \in DOMAIN l : m[i] = l[i]
  BY <1>1, AppendLocalLog DEF Wrote
<1>3. PICK i \in DOMAIN m : m[i] = e
  BY DEF ToSet
<1>4. \A f \in Events(r) : f.replica_time_ms < e.replica_time_ms
  OBVIOUS
<1>5. \A j \in DOMAIN l : l[j] \in Events(r) /\ l[j].replica_event_id \in IdsOf(l)
  BY DEF Events, ToSet, IdsOf
<1>6. ItemOf(r) = BuildFromHistory(h) /\ ItemOf(r)' = BuildFromHistory(g)
  BY DEF ItemOf
<1>7. DOMAIN l = 1 .. n /\ DOMAIN m = 1 .. n + 1 /\ n \in Nat
  BY <1>1, <1>2, LenProperties
<1> HIDE DEF l, m, n, h, g
<1>8. i = n + 1 /\ e = m[n + 1]
  <2>1. i \notin DOMAIN l
    BY <1>2, <1>3, <1>5 DEF l
  <2>2. QED
    BY <1>3, <1>7, <2>1
<1>9. \A j \in 1 .. n : m[j] = l[j] /\ Before(l[j], m[n + 1])
  BY <1>2, <1>4, <1>5, <1>7, <1>8 DEF Before
<1>10. /\ \A k \in 1 .. n : g[k] = h[k]
       /\ g[n + 1] = e
  BY <1>1, <1>2, <1>7, <1>8, <1>9, SortLast DEF g, h, n
<1>11. Len(h) = n /\ Len(g) = n + 1
  <2>1. h \in Seq(StoredEvent) /\ DOMAIN h = 1 .. n /\ g \in Seq(StoredEvent) /\ DOMAIN g = 1 .. n + 1
    BY <1>1, <1>7, SortedHistory DEF g, h
  <2>2. QED
    BY <1>7, <2>1, LenProperties
<1>12. BuildFromHistory(g) = ApplyEvent(BuildFromHistory(h), g[n + 1])
  BY <1>7, <1>10, <1>11, FoldLonger
<1>13. QED
  BY <1>6, <1>10, <1>12

\* What the user sees of an edit at once is what the rebuilt row shows, whatever the
\* history, as long as the clock of the device is ahead of it (new_event, build_projection).
THEOREM EditsShow == Spec => EditShows
<1>1. ASSUME HInv, HInv', [Next]_vars, NEW r \in Replicas,
             NEW e \in ToSet(entries'[r]), e.replica_id = r,
             e.replica_event_id \notin IdsOf(entries[r]),
             \A f \in Events(r) : f.replica_time_ms < e.replica_time_ms
      PROVE  ItemOf(r)' = ApplyEvent(ItemOf(r), e)
  <2>1. CASE Took(r)
    <3>1. PICK s \in Replicas : \E j \in DOMAIN entries[s] : e = entries[s][j]
      BY <2>1 DEF Took, ToSet
    <3>2. e.replica_event_id \in IdsOf(entries[r])
      BY <1>1, <3>1 DEF HInv, Own
    <3>3. QED
      BY <1>1, <3>2
  <2>2. CASE Wrote(r)
    BY <1>1, <2>2, WroteShows
  <2>3. QED
    BY <1>1, <2>1, <2>2, NextHInv
<1>2. HInv /\ HInv' /\ [Next]_vars
        => [\A r \in Replicas :
              LET new == {e \in ToSet(entries'[r]) : e.replica_id = r
                                                    /\ e.replica_event_id \notin IdsOf(entries[r])}
              IN  \A e \in new :
                    (\A f \in Events(r) : f.replica_time_ms < e.replica_time_ms)
                      => ItemOf(r)' = ApplyEvent(ItemOf(r), e)]_vars
  BY <1>1
<1>3. QED
  BY <1>2, LogsAgree, PTL DEF Spec, EditShows
=============================================================================
