------------------------------ MODULE ServerLog ------------------------------
(***************************************************************************)
(* The backend: the event log of backend/src/event_log.rs, the projection  *)
(* table it feeds, and the axum handlers of backend/src/server.rs.         *)
(*                                                                         *)
(* A POST /events handler has three awaits: it locks the log and appends,  *)
(* releases it, locks the item storage, and rebuilds one row per stored    *)
(* event before it answers.  Handlers of different clients interleave at   *)
(* those awaits.  When the client's connection goes away the handler may   *)
(* still run to its end or be dropped by the HTTP server at any await.     *)
(***************************************************************************)
EXTENDS EventLog

CONSTANTS
  Batch,   \* page and batch size (500 in sync_once)
  Gone     \* the client of a handler whose connection was lost

ASSUME BatchPositive == Batch \in Nat \ {0}
ASSUME GoneIsNoDevice == Gone \notin Devices

VARIABLES
  entries,              \* ServerEventLog.entries: stored event -> server_offset
  next_server_offset,
  srv_items,            \* the server's projection table
  handlers,             \* POST /events handlers under way
  reply                 \* the HTTP response travelling back to each device

serverVars == <<entries, next_server_offset, srv_items, handlers, reply>>

IsHandler(h) ==
  /\ h = [from |-> h.from, st |-> h.st, todo |-> h.todo, events |-> h.events]
  /\ h.from \in Devices \cup {Gone}
  /\ h.st \in {"received", "stored", "building"}
  /\ h.todo \in SUBSET Items
  /\ IsLog(h.events)

NoReply == [kind |-> "none", events |-> EmptyLog, next_offset |-> 0]

ServerTypeOK ==
  /\ IsLog(entries)
  /\ next_server_offset \in Nat \ {0}
  /\ srv_items \in [Items -> SUBSET Event]
  /\ \A h \in handlers : IsHandler(h)
  /\ DOMAIN reply = Devices
  /\ \A d \in Devices :
       /\ reply[d].kind \in {"none", "ack", "page"}
       /\ IsLog(reply[d].events)
       /\ reply[d].next_offset \in Nat

ServerInit ==
  /\ entries = EmptyLog
  /\ next_server_offset = 1
  /\ srv_items = [x \in Items |-> {}]
  /\ handlers = {}
  /\ reply = [d \in Devices |-> NoReply]

-----------------------------------------------------------------------------
(* POST /events *)

\* The request of d reaches the server.
PostEvents(d, events) ==
  /\ handlers' = handlers \cup
       {[from |-> d, st |-> "received", todo |-> {}, events |-> events]}
  /\ UNCHANGED <<entries, next_server_offset, srv_items, reply>>

\* h moves on to `st`, with the rows of `todo` still to rebuild.
Advance(h, st, todo) ==
  /\ handlers' = (handlers \ {h}) \cup {[h EXCEPT !.st = st, !.todo = todo]}
  /\ UNCHANGED reply

\* Faulty variant: the offsets are drawn before the duplicates are found.
NewEventsAll(h) == DOMAIN h.events

\* The events of the batch that are not stored yet.
NewEvents(h) == DOMAIN h.events \ DOMAIN entries

\* Faulty variant: append returns only what it has stored just now.
RowsDueNew(h) == {e.entity_id : e \in NewEvents(h)}

\* append returns the whole batch, duplicates included; the handler rebuilds the
\* rows of all of it.
RowsDue(h) == {e.entity_id : e \in DOMAIN h.events}

\* Faulty variant: a duplicate is stored again.
AppendEventsRestamps(h) ==
  /\ h.st = "received"
  /\ entries' = PushAll(Restrict(entries, DOMAIN entries \ DOMAIN h.events),
                        DOMAIN h.events, h.events, next_server_offset)
  /\ next_server_offset' = next_server_offset + Cardinality(DOMAIN h.events)
  /\ Advance(h, "stored", RowsDue(h))
  /\ UNCHANGED srv_items

\* ServerEventLog::append under the log lock: events already stored are
\* skipped, the others get the next offsets in batch order.
AppendEvents(h) ==
  /\ h.st = "received"
  /\ entries' = PushAll(entries, NewEvents(h), h.events, next_server_offset)
  /\ next_server_offset' = next_server_offset + Cardinality(NewEvents(h))
  /\ Advance(h, "stored", RowsDue(h))
  /\ UNCHANGED srv_items

\* The handler gets the storage mutex.
LockServerStorage(h) ==
  /\ h.st = "stored"
  /\ \A g \in handlers : g.st # "building"
  /\ Advance(h, "building", h.todo)
  /\ UNCHANGED <<entries, next_server_offset, srv_items>>

\* Faulty variant: only the events of the batch are folded.
BuildServerRowFromBatch(h, x) ==
  /\ h.st = "building"
  /\ x \in h.todo
  /\ srv_items' = [srv_items EXCEPT ![x] = Projection(DOMAIN h.events, x)]
  /\ Advance(h, h.st, h.todo \ {x})
  /\ UNCHANGED <<entries, next_server_offset>>

\* ItemStorage::build_projection for one entity of the batch; events_of_entity
\* reads the log as it is now, not as it was when this handler appended.
BuildServerRow(h, x) ==
  /\ h.st = "building"
  /\ x \in h.todo
  /\ srv_items' = [srv_items EXCEPT ![x] = Projection(DOMAIN entries, x)]
  /\ Advance(h, h.st, h.todo \ {x})
  /\ UNCHANGED <<entries, next_server_offset>>

\* h ends with the events of its batch as stored; who hears of it.
Answer(h) ==
  /\ handlers' = handlers \ {h}
  /\ reply' = IF h.from = Gone THEN reply
              ELSE [reply EXCEPT ![h.from] =
                      [kind |-> "ack", events |-> Restrict(entries, DOMAIN h.events),
                       next_offset |-> 0]]
  /\ UNCHANGED <<entries, next_server_offset, srv_items>>

\* Faulty variant: the answer leaves before the rows are rebuilt.
AnswerPostEarly(h) == h.st = "stored" /\ Answer(h)

\* All rows rebuilt.
AnswerPost(h) == h.st = "building" /\ h.todo = {} /\ Answer(h)

\* The handler of a lost connection is dropped at an await.
DropHandler(h) ==
  /\ h.from = Gone
  /\ handlers' = handlers \ {h}
  /\ UNCHANGED <<entries, next_server_offset, srv_items, reply>>

HandlerStep ==
  \E h \in handlers :
    \/ AppendEvents(h)
    \/ LockServerStorage(h)
    \/ \E x \in Items : BuildServerRow(h, x)
    \/ AnswerPost(h)

-----------------------------------------------------------------------------
(* GET /events?after=&limit= *)

EventsAfter(after) ==
  LET newer == {e \in DOMAIN entries : entries[e] > after}
  IN  Restrict(entries, FirstOf(newer, entries, Batch))

\* Faulty variant: the cursor is the end of the log, not of the page.
IsNextOffsetHead(page, n) == n = next_server_offset - 1

\* next_offset is the offset of the page's last event, None (0) on an empty page.
IsNextOffset(page, n) ==
  /\ DOMAIN page = {} => n = 0
  /\ DOMAIN page # {} => n \in Range(page) /\ \A e \in DOMAIN page : page[e] <= n

GetEvents(d, after) ==
  LET page == EventsAfter(after) IN
  /\ \E n \in 0 .. next_server_offset :
       /\ IsNextOffset(page, n)
       /\ reply' = [reply EXCEPT ![d] =
                      [kind |-> "page", events |-> page, next_offset |-> n]]
  /\ UNCHANGED <<entries, next_server_offset, srv_items, handlers>>

-----------------------------------------------------------------------------
\* The connection of d is lost: its handler, if any, has no client any more and
\* no response reaches d.
LoseConnection(d) ==
  /\ handlers' = {[h EXCEPT !.from = IF @ = d THEN Gone ELSE @] : h \in handlers}
  /\ reply' = [reply EXCEPT ![d] = NoReply]
  /\ UNCHANGED <<entries, next_server_offset, srv_items>>

\* d has read its response.
ConsumeReply(d) ==
  /\ reply' = [reply EXCEPT ![d] = NoReply]
  /\ UNCHANGED <<entries, next_server_offset, srv_items, handlers>>
=============================================================================
