----------------------------- MODULE DeviceStore -----------------------------
(***************************************************************************)
(* What one device keeps, for every device: the event log of               *)
(* client-sdk/src/event_log.rs, the projection table of                    *)
(* shared/src/item_storage.rs, and the local item operations of            *)
(* client-sdk/src/item_service.rs.                                         *)
(*                                                                         *)
(* A service call holds the storage mutex from its first read to its last  *)
(* write, and takes the log mutex twice inside: to append and to re-read   *)
(* the entity's events.  Between the two a sync round may hold the log.    *)
(***************************************************************************)
EXTENDS EventLog

CONSTANTS
  Tasks,    \* the tasks of a device that may run a sync round (background job, sync_now, reconnect)
  Free,     \* the log mutex when nobody holds it
  NoCall    \* no service call under way

ASSUME FreeIsNoTask == Free \notin Tasks

VARIABLES
  issued,     \* every event any device has written to its log
  forgotten,  \* history: the events a restart took from their author's log
  log,        \* DeviceEventLog.entries of each device: event -> position
  stamp,      \* the server_offset field of each entry, 0 for None
  rows,       \* the projection table of each device
  call,       \* the service call holding the storage mutex
  log_lock    \* the sync task holding the log mutex

deviceVars == <<issued, forgotten, log, stamp, rows, call, log_lock>>

Call == [event : Event, st : {"append", "build"}]

ASSUME NoCallIsNoRecord == NoCall \notin Call

DeviceTypeOK ==
  /\ issued \subseteq Event /\ forgotten \subseteq Event
  /\ DOMAIN log = Devices /\ DOMAIN stamp = Devices
  /\ \A d \in Devices : IsLog(log[d]) /\ IsLog(stamp[d]) /\ DOMAIN stamp[d] = DOMAIN log[d]
  /\ rows \in [Devices -> [Items -> SUBSET Event]]
  /\ call \in [Devices -> Call \cup {NoCall}]
  /\ log_lock \in [Devices -> Tasks \cup {Free}]

DeviceInit ==
  /\ issued = {} /\ forgotten = {}
  /\ log = [d \in Devices |-> EmptyLog]
  /\ stamp = [d \in Devices |-> EmptyLog]
  /\ rows = [d \in Devices |-> [x \in Items |-> {}]]
  /\ call = [d \in Devices |-> NoCall]
  /\ log_lock = [d \in Devices |-> Free]

Contents(d) == DOMAIN log[d]

\* The position after the last entry of d's log.
NextPosition(d) == Cardinality(Contents(d)) + 1

\* The loop of `append` and `append_local`: the events of the batch that are not
\* here yet go to the end, in batch order, each with its server_offset.
PushEntries(d, batch) ==
  LET new == DOMAIN batch \ Contents(d) IN
  /\ log' = [log EXCEPT ![d] = PushAll(@, new, batch, NextPosition(d))]
  /\ stamp' = [stamp EXCEPT ![d] = [e \in Contents(d) \cup new |->
                 IF e \in new THEN batch[e] ELSE stamp[d][e]]]

\* Faulty variant: a rebuild only ever inserts.
BuildProjectionInserts(d, x) ==
  rows' = IF Deleted(Contents(d), x) THEN rows
          ELSE [rows EXCEPT ![d][x] = Projection(Contents(d), x)]

\* build_projection: x's row is folded anew from the events the log holds now.
BuildProjection(d, x) ==
  rows' = [rows EXCEPT ![d][x] = Projection(Contents(d), x)]

-----------------------------------------------------------------------------
(* Service calls *)

\* What the devices have written or are about to write.
Authored == issued \cup {call[c].event : c \in {c \in Devices : call[c] # NoCall}}

\* The call records its event, with a fresh event id, and keeps the storage
\* mutex until its row is rebuilt.
BeginCall(d, id, x, p) ==
  /\ call[d] = NoCall
  /\ \A f \in Authored : f.replica_event_id # id
  /\ call' = [call EXCEPT ![d] =
                [event |-> [replica_event_id |-> id, replica_id |-> d, entity_id |-> x, payload |-> p],
                 st |-> "append"]]
  /\ UNCHANGED <<issued, forgotten, log, stamp, rows, log_lock>>

\* create_item: a fresh item id.
CreateItem(d, id, x) ==
  /\ \A f \in Authored : f.entity_id # x
  /\ BeginCall(d, id, x, "Created")

\* set_quantity, rename, set_note, delete: only on an item that has a row.
ChangeItem(d, id, x, p) ==
  /\ p \in {"Edited", "Deleted"}
  /\ rows[d][x] # {}
  /\ BeginCall(d, id, x, p)

\* ItemStorage::store, first half: append_local at the end of the log, unsynced.
AppendLocal(d) ==
  /\ call[d] # NoCall
  /\ call[d].st = "append"
  /\ log_lock[d] = Free
  /\ PushEntries(d, [e \in {call[d].event} |-> 0])
  /\ issued' = issued \cup {call[d].event}
  /\ call' = [call EXCEPT ![d].st = "build"]
  /\ UNCHANGED <<forgotten, rows, log_lock>>

\* The second half may rebuild its row.
CanBuild(d) == call[d] # NoCall /\ call[d].st = "build" /\ log_lock[d] = Free

\* Faulty variant: the storage mutex is never released.
BuildCallRowKeepsLock(d) ==
  /\ CanBuild(d)
  /\ BuildProjection(d, call[d].event.entity_id)
  /\ UNCHANGED <<issued, forgotten, log, stamp, call, log_lock>>

\* ItemStorage::store, second half: rebuild the row from the log and return.
BuildCallRow(d) ==
  /\ CanBuild(d)
  /\ BuildProjection(d, call[d].event.entity_id)
  /\ call' = [call EXCEPT ![d] = NoCall]
  /\ UNCHANGED <<issued, forgotten, log, stamp, log_lock>>

-----------------------------------------------------------------------------
(* The log as the sync engine uses it *)

\* get_unsynced: d's own events without a server offset, in log order.
Unsynced(d) == {e \in Contents(d) : stamp[d][e] = 0 /\ e.replica_id = d}

GetUnsynced(d, limit) ==
  Restrict(log[d], FirstOf(Unsynced(d), log[d], limit))

\* Faulty variants of MarkSynced: the markers of the answer replace the others; what
\* the answer does not name is set to None.
MarkSyncedReplaces(d, acked) ==
  stamp' = [stamp EXCEPT ![d] = acked] /\ UNCHANGED <<issued, forgotten, log, rows, call, log_lock>>

MarkSyncedForgets(d, acked) ==
  /\ stamp' = [stamp EXCEPT ![d] = [e \in Contents(d) |-> IF e \in DOMAIN acked THEN acked[e] ELSE 0]]
  /\ UNCHANGED <<issued, forgotten, log, rows, call, log_lock>>

\* mark_synced: record the offsets of the acknowledged events that are here.
MarkSynced(d, acked) ==
  /\ stamp' = [stamp EXCEPT ![d] = [e \in Contents(d) |->
                 IF e \in DOMAIN acked THEN acked[e] ELSE stamp[d][e]]]
  /\ UNCHANGED <<issued, forgotten, log, rows, call, log_lock>>

\* Faulty variant: the server offset is not preserved.
AppendReplicatedUnstamped(d, page) ==
  PushEntries(d, [e \in DOMAIN page |-> 0]) /\ UNCHANGED <<issued, forgotten, rows, call, log_lock>>

\* append: an event that is here already is left as it is.
AppendReplicated(d, page) ==
  PushEntries(d, page) /\ UNCHANGED <<issued, forgotten, rows, call, log_lock>>

LockLog(d, t) ==
  /\ log_lock[d] = Free
  /\ log_lock' = [log_lock EXCEPT ![d] = t]
  /\ UNCHANGED <<issued, forgotten, log, stamp, rows, call>>

UnlockLog(d) ==
  /\ log_lock' = [log_lock EXCEPT ![d] = Free]
  /\ UNCHANGED <<issued, forgotten, log, stamp, rows, call>>

\* build_projection for one item the round's pull touched.
BuildRow(d, x) ==
  /\ log_lock[d] = Free
  /\ BuildProjection(d, x)
  /\ UNCHANGED <<issued, forgotten, log, stamp, call, log_lock>>

\* The app is killed and started again: everything was in memory.
LoseMemory(d) ==
  /\ forgotten' = forgotten \cup {e \in Contents(d) : e.replica_id = d}
  /\ log' = [log EXCEPT ![d] = EmptyLog]
  /\ stamp' = [stamp EXCEPT ![d] = EmptyLog]
  /\ rows' = [rows EXCEPT ![d] = [x \in Items |-> {}]]
  /\ call' = [call EXCEPT ![d] = NoCall]
  /\ log_lock' = [log_lock EXCEPT ![d] = Free]
  /\ UNCHANGED issued
=============================================================================
