----------------------------- MODULE ItemHistory -----------------------------
(***************************************************************************)
(* One item's history: the canonical fold order of shared/src/core.rs, the *)
(* fold of shared/src/item.rs, and what the two logs do to the provenance  *)
(* of an event (client-sdk/src/event_log.rs, backend/src/event_log.rs).    *)
(*                                                                         *)
(* A log is here the vector of the code, in arrival order, which differs   *)
(* from replica to replica: a device has its own events first and takes    *)
(* the others from the server's stream.  The wall clocks of the replicas   *)
(* agree on nothing, and a clock may stand still between two edits or go   *)
(* back.  An event writes its own id, so that the value of a field says    *)
(* which event wrote it.                                                   *)
(***************************************************************************)
EXTENDS Naturals, Sequences, FiniteSets, SequencesExt

CONSTANTS
  Phones,    \* the devices
  Server,    \* the backend, a replica too
  Ids,       \* replica_event_id, in the order of the UUIDs
  Times      \* the readings of the wall clocks, in milliseconds

ASSUME IdsAndTimes == Ids \subseteq Nat \ {0} /\ Times \subseteq Nat
ASSUME ServerIsNoPhone == Server \notin Phones

VARIABLES
  entries,   \* each replica's log of the item, in arrival order
  pulled     \* how much of the server's stream each device has taken

vars == <<entries, pulled>>

Replicas == Phones \cup {Server}

Edits == {"Renamed", "QuantityChanged", "NoteChanged", "Deleted"}

Events(r) == ToSet(entries[r])

IdsOf(log) == {log[i].replica_event_id : i \in DOMAIN log}

-----------------------------------------------------------------------------
(* The fold order *)

\* Faulty variant: the id decides before the clock.
BeforeById(a, b) == a.replica_event_id < b.replica_event_id

\* order_key compares the time, then the write offset, then the event id.
Before(a, b) ==
  \/ a.replica_time_ms < b.replica_time_ms
  \/ /\ a.replica_time_ms = b.replica_time_ms
     /\ \/ a.replica_write_offset < b.replica_write_offset
        \/ /\ a.replica_write_offset = b.replica_write_offset
           /\ a.replica_event_id < b.replica_event_id

\* The positions of what a stable sort of s leaves up to s[i], s[i] included.
UpTo(s, i) == {j \in DOMAIN s : ~Before(s[i], s[j]) /\ (Before(s[j], s[i]) \/ j <= i)}

\* sort_by_key, which is stable.
SortEvents(s) == [k \in DOMAIN s |-> s[CHOOSE i \in DOMAIN s : Cardinality(UpTo(s, i)) = k]]

-----------------------------------------------------------------------------
(* The fold *)

\* Item::default(); 0 stands for the empty name, quantity 0 and no note.
DefaultItem == [name |-> 0, quantity |-> 0, note |-> 0, deleted |-> FALSE,
                last_modified_ms |-> 0]

\* What an event changes.
Applied(item, e) ==
  LET v == e.replica_event_id IN
  [name     |-> IF e.payload \in {"Created", "Renamed"} THEN v ELSE item.name,
   quantity |-> IF e.payload \in {"Created", "QuantityChanged"} THEN v ELSE item.quantity,
   note     |-> IF e.payload = "NoteChanged" THEN v ELSE item.note,
   deleted  |-> e.payload = "Deleted",
   last_modified_ms |-> e.replica_time_ms]

\* apply_event: deletion is terminal.
ApplyEvent(item, e) == IF item.deleted THEN item ELSE Applied(item, e)

\* The items the fold of build_from_history goes through, after each of the events.
Folded(events) ==
  LET item[k \in 0 .. Len(events)] ==
        IF k = 0 THEN DefaultItem ELSE ApplyEvent(item[k - 1], events[k])
  IN  item

BuildFromHistory(events) == Folded(events)[Len(events)]

\* events_of_entity followed by build_from_history.
ItemOf(r) == BuildFromHistory(SortEvents(entries[r]))

\* find_by_id: the item has a row on r.
HasRow(r) == entries[r] # <<>> /\ ~ItemOf(r).deleted

-----------------------------------------------------------------------------
(* The two logs, whose append loops differ in nothing an item depends on *)

\* iter().filter(..).collect(): the elements of s at the positions `kept`, in order.
Filtered(s, kept) ==
  [k \in 1 .. Cardinality(kept) |->
     s[CHOOSE i \in kept : Cardinality({j \in kept : j <= i}) = k]]

\* What a loop pushes: the events of the batch whose id is not there yet.
Fresh(log, batch) ==
  Filtered(batch, {i \in DOMAIN batch : batch[i].replica_event_id \notin IdsOf(log)})

\* append keeps all provenance.
AppendReplicated(log, batch) == log \o Fresh(log, batch)

\* append_local numbers what it pushes from 1; 0 stands for None.
AppendLocal(log, batch) ==
  LET new == Fresh(log, batch)
  IN  log \o [i \in DOMAIN new |->
               [new[i] EXCEPT !.replica_write_offset = IF @ = 0 THEN i ELSE @]]

\* Faulty variant: the write offset is left for the receiver to assign.
ShipUnnumbered(log) == [i \in DOMAIN log |-> [log[i] EXCEPT !.replica_write_offset = 0]]

\* AppendEvent::from for each event: everything is carried over.
Ship(log) == log

\* One service call: the domain method records one event, and store appends it as
\* a batch of its own.
Author(r, id, now, p) ==
  /\ \A s \in Replicas : id \notin IdsOf(entries[s])
  /\ entries' = [entries EXCEPT ![r] = AppendLocal(@,
       <<[replica_event_id |-> id, replica_time_ms |-> now, replica_id |-> r, payload |-> p,
          replica_write_offset |-> 0]>>)]
  /\ UNCHANGED pulled

Create(r) ==
  /\ \A s \in Replicas : entries[s] = <<>>
  /\ \E id \in Ids, now \in Times : Author(r, id, now, "Created")

Edit(r) ==
  /\ HasRow(r)
  /\ \E id \in Ids, now \in Times, p \in Edits : Author(r, id, now, p)

\* Push: the server appends the events of r that it does not have.  Which of the
\* others r sends again is OfflineSync's subject: they change nothing.
Push(r) ==
  LET sent == Filtered(entries[r], {i \in DOMAIN entries[r] : entries[r][i].replica_id = r}) IN
  /\ entries' = [entries EXCEPT ![Server] = AppendReplicated(@, Ship(sent))]
  /\ UNCHANGED pulled

\* Pull: r takes the stream after its cursor.
Pull(r) ==
  LET page == SubSeq(entries[Server], pulled[r] + 1, Len(entries[Server])) IN
  /\ entries' = [entries EXCEPT ![r] = AppendReplicated(@, Ship(page))]
  /\ pulled' = [pulled EXCEPT ![r] = Len(entries[Server])]

Init ==
  /\ entries = [r \in Replicas |-> <<>>]
  /\ pulled = [r \in Phones |-> 0]

Next ==
  \/ \E r \in Replicas : Create(r) \/ Edit(r)
  \/ \E r \in Phones :
       \/ Push(r)
       \/ Pull(r)

Spec == Init /\ [][Next]_vars

-----------------------------------------------------------------------------
(* Properties *)

\* Replicas that hold the same events show the same item, in whatever order the
\* events reached them (the claim of two_replicas_converge_regardless_of_arrival_order).
Convergence ==
  \A r \in Replicas : \A s \in Replicas \ {r} :
    IdsOf(entries[r]) = IdsOf(entries[s]) => ItemOf(r) = ItemOf(s)

\* The fold equals its closed form: the item is deleted iff some event deletes it;
\* only events up to the first deletion count, and each field holds what the last
\* of them in fold order that writes it wrote.  A creation stamped by a clock that
\* ran ahead thus overrides the names and quantities ordered before it.
LastWriterWins ==
  LET Deletions(r) == {e \in Events(r) : e.payload = "Deleted"}
      Counting(r) == {e \in Events(r) : \A x \in Deletions(r) : ~Before(x, e)}
      IsLast(v, W) == IF W = {} THEN v = 0
                      ELSE \E e \in W : e.replica_event_id = v /\ \A f \in W : ~Before(e, f)
      Writers(r, ps) == {e \in Counting(r) : e.payload \in ps}
  IN  \A r \in Replicas :
        LET item == ItemOf(r) IN
        /\ item.deleted <=> Deletions(r) # {}
        /\ IsLast(item.name, Writers(r, {"Created", "Renamed"}))
        /\ IsLast(item.quantity, Writers(r, {"Created", "QuantityChanged"}))
        /\ IsLast(item.note, Writers(r, {"NoteChanged"}))
        /\ \A e \in Counting(r) : e.replica_time_ms <= item.last_modified_ms

\* What the user sees of an edit at once, the optimistic state of new_event, is what
\* the row shows after the rebuild from the history, if the clock is ahead of every
\* event of the item on the replica.
EditShows ==
  [][\A r \in Replicas :
       LET new == {e \in ToSet(entries'[r]) : e.replica_id = r
                                             /\ e.replica_event_id \notin IdsOf(entries[r])}
       IN  \A e \in new :
             (\A f \in Events(r) : f.replica_time_ms < e.replica_time_ms)
               => ItemOf(r)' = ApplyEvent(ItemOf(r), e)]_vars

\* The write offset is the "per-replica tie-breaker for events sharing a timestamp":
\* two edits a device makes within one millisecond fold in the order it made them.
TiesKeepAuthoringOrder ==
  \A r \in Phones : \A i, j \in DOMAIN entries[r] :
    LET a == entries[r][i]
        b == entries[r][j]
    IN  i < j /\ a.replica_id = r /\ b.replica_id = r /\ a.replica_time_ms = b.replica_time_ms
          => Before(a, b)
=============================================================================
