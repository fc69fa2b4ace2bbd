------------------------------ MODULE EventLog ------------------------------
(***************************************************************************)
(* The vocabulary of both event logs (shared/src/core.rs and               *)
(* shared/src/event_log.rs): events, the numbering of a log, and the rows  *)
(* a projection table derives from a log.                                  *)
(*                                                                         *)
(* A log is a function from the events it holds to numbers that grow in    *)
(* the order of its `entries` vector: positions on a device, server        *)
(* offsets on the server.  Both vectors are append-only and hold each      *)
(* event id once, so nothing else of the vector is observable.  A batch in *)
(* flight is such a function too, its numbers giving the batch's order.    *)
(*                                                                         *)
(* A projection row is the set of events it was folded from; no row is the *)
(* empty set.  The folded item is a function of that set: ItemHistory      *)
(* checks this for the fold itself.                                        *)
(***************************************************************************)
EXTENDS Naturals, FiniteSets, Functions

CONSTANTS
  EventIds,   \* the UUIDs replica_event_id is drawn from; their number bounds the edits
  Devices,    \* replica ids
  Items       \* item ids

Payloads == {"Created", "Edited", "Deleted"}

\* Renamed, QuantityChanged and NoteChanged are one payload here: neither log
\* distinguishes them.
Event == [replica_event_id : EventIds, replica_id : Devices,
          entity_id : Items, payload : Payloads]

ASSUME EventFinite == IsFiniteSet(Event)

IsLog(l) == /\ l = [e \in DOMAIN l |-> l[e]]
            /\ DOMAIN l \subseteq Event
            /\ \A e \in DOMAIN l : l[e] \in Nat

EmptyLog == [e \in {} |-> 0]

-----------------------------------------------------------------------------
\* The number of events of S that come before e in `order`.
Rank(S, order, e) == Cardinality({f \in S : order[f] < order[e]})

\* Faulty variant: the last n.
LastOf(S, order, n) == {e \in S : Cardinality({f \in S : order[f] > order[e]}) < n}

\* The first n events of S in `order`: iter().take(n), Vec::truncate(n).
FirstOf(S, order, n) == {e \in S : Rank(S, order, e) < n}

\* l after pushing the events `new` at its end, in `order`, numbered from `first`.
PushAll(l, new, order, first) ==
  [e \in DOMAIN l \cup new |->
     IF e \in DOMAIN l THEN l[e] ELSE first + Rank(new, order, e)]

\* The numbers of a log are distinct and have no gap.
Dense(l) ==
  /\ \A e \in DOMAIN l : l[e] \in 1 .. Cardinality(DOMAIN l)
  /\ \A e, f \in DOMAIN l : l[e] = l[f] => e = f

-----------------------------------------------------------------------------
EventsOfEntity(S, x) == {e \in S : e.entity_id = x}

Deleted(S, x) == \E e \in EventsOfEntity(S, x) : e.payload = "Deleted"

\* Faulty variant: an edit that arrives beside the deletion revives the item.
ProjectionEditRevives(S, x) ==
  IF Deleted(S, x) /\ \A e \in EventsOfEntity(S, x) : e.payload # "Edited"
  THEN {} ELSE EventsOfEntity(S, x)

\* The row of x after a rebuild from the events S: deletion removes the row.
Projection(S, x) == IF Deleted(S, x) THEN {} ELSE EventsOfEntity(S, x)
=============================================================================
