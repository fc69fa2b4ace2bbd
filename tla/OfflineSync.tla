----------------------------- MODULE OfflineSync -----------------------------
(***************************************************************************)
(* The whole system: devices (DeviceStore) that synchronise with the       *)
(* backend (ServerLog) by the rounds of client-sdk/src/sync.rs and         *)
(* sync_once of client-sdk/src/sync_runner.rs, over HTTP.                  *)
(*                                                                         *)
(* A round holds the device's log mutex from its first read of the log to  *)
(* the end of its last pull, across every HTTP exchange, then releases it, *)
(* waits for the storage mutex and rebuilds the rows its pull touched.  A  *)
(* round that fails releases the log mutex and is gone; the background job *)
(* starts another one later.                                               *)
(***************************************************************************)
EXTENDS DeviceStore, ServerLog

CONSTANTS
  MaxFailures,   \* bound on failed HTTP exchanges
  MaxRestarts    \* bound on device restarts

ASSUME FaultBounds == MaxFailures \in Nat /\ MaxRestarts \in Nat

VARIABLES
  pc,         \* where each sync task of each device is
  touched,    \* the items whose rows a task has yet to rebuild
  pulled,     \* SyncState.pulled of each device, 0 for None
  orphaned,   \* history: rows whose rebuild was dropped by a failed round
  failures, restarts

syncVars == <<pc, touched, pulled, orphaned, failures, restarts>>
vars == <<issued, forgotten, log, stamp, rows, call, log_lock,
          entries, next_server_offset, srv_items, handlers, reply,
          pc, touched, pulled, orphaned, failures, restarts>>

\* idle; log locked, before get_unsynced; POST under way; GET under way;
\* log released, waiting for the storage mutex; holding it.
Control == {"idle", "push", "pushing", "pull", "rebuild", "building"}

SyncTypeOK ==
  /\ pc \in [Devices -> [Tasks -> Control]]
  /\ touched \in [Devices -> [Tasks -> SUBSET Items]]
  /\ pulled \in [Devices -> Nat]
  /\ orphaned \in [Devices -> SUBSET Items]
  /\ failures \in Nat
  /\ restarts \in Nat

\* The state keeps its shape.
TypeOK == DeviceTypeOK /\ ServerTypeOK /\ SyncTypeOK

SyncInit ==
  /\ pc = [d \in Devices |-> [t \in Tasks |-> "idle"]]
  /\ touched = [d \in Devices |-> [t \in Tasks |-> {}]]
  /\ pulled = [d \in Devices |-> 0]
  /\ orphaned = [d \in Devices |-> {}]
  /\ failures = 0
  /\ restarts = 0

Init == DeviceInit /\ ServerInit /\ SyncInit

GoTo(d, t, label) == pc' = [pc EXCEPT ![d][t] = label]

\* Nobody holds d's storage mutex.
StorageFree(d) == call[d] = NoCall /\ \A t \in Tasks : pc[d][t] # "building"

-----------------------------------------------------------------------------
(* A sync round *)

BeginRound(d, t) ==
  /\ pc[d][t] = "idle"
  /\ LockLog(d, t)
  /\ GoTo(d, t, "push")
  /\ UNCHANGED <<serverVars, touched, pulled, orphaned, failures, restarts>>

\* push: POST the next batch of unsynced events.
SendPush(d, t) ==
  /\ pc[d][t] = "push"
  /\ Unsynced(d) # {}
  /\ PostEvents(d, GetUnsynced(d, Batch))
  /\ GoTo(d, t, "pushing")
  /\ UNCHANGED <<deviceVars, touched, pulled, orphaned, failures, restarts>>

\* push: the acknowledgement arrives; record it and look for more.
ReceiveAck(d, t) ==
  /\ pc[d][t] = "pushing"
  /\ reply[d].kind = "ack"
  /\ MarkSynced(d, reply[d].events)
  /\ ConsumeReply(d)
  /\ GoTo(d, t, "push")
  /\ UNCHANGED <<touched, pulled, orphaned, failures, restarts>>

\* push: nothing is left unsynced; pull asks for the first page.
FinishPush(d, t) ==
  /\ pc[d][t] = "push"
  /\ Unsynced(d) = {}
  /\ GoTo(d, t, "pull")
  /\ UNCHANGED <<deviceVars, serverVars, touched, pulled, orphaned, failures, restarts>>

\* The server answers the GET of d with the page after d's cursor.
AnswerPull(d, t) ==
  /\ pc[d][t] = "pull"
  /\ reply[d].kind = "none"
  /\ GetEvents(d, pulled[d])
  /\ UNCHANGED <<deviceVars, syncVars>>

\* Faulty variants of Touched: only the last page's items are remembered; none are.
TouchedLast(d, t) == {e.entity_id : e \in DOMAIN reply[d].events}

TouchedNone(d, t) == touched[d][t]

\* The items of the round's pages, the one just received included.
Touched(d, t) == touched[d][t] \cup {e.entity_id : e \in DOMAIN reply[d].events}

\* pull: fold the page into the log, advance the cursor and ask for the next page.
ReceivePage(d, t) ==
  /\ pc[d][t] = "pull"
  /\ reply[d].kind = "page"
  /\ DOMAIN reply[d].events # {}
  /\ AppendReplicated(d, reply[d].events)
  /\ touched' = [touched EXCEPT ![d][t] = Touched(d, t)]
  /\ pulled' = [pulled EXCEPT ![d] = reply[d].next_offset]
  /\ ConsumeReply(d)
  /\ UNCHANGED <<pc, orphaned, failures, restarts>>

\* pull: an empty page ends it; the log is released, and sync_once goes on to
\* the rows the pull touched.
ReceiveLastPage(d, t) ==
  /\ pc[d][t] = "pull"
  /\ reply[d].kind = "page"
  /\ DOMAIN reply[d].events = {}
  /\ UnlockLog(d)
  /\ ConsumeReply(d)
  /\ GoTo(d, t, IF touched[d][t] = {} THEN "idle" ELSE "rebuild")
  /\ UNCHANGED <<touched, pulled, orphaned, failures, restarts>>

\* `?` leaves sync_once: the connection is closed and the touched items are forgotten.
LeaveRound(d, t) ==
  /\ failures < MaxFailures
  /\ failures' = failures + 1
  /\ LoseConnection(d)
  /\ GoTo(d, t, "idle")
  /\ touched' = [touched EXCEPT ![d][t] = {}]
  /\ orphaned' = [orphaned EXCEPT ![d] = @ \cup touched[d][t]]
  /\ UNCHANGED <<pulled, restarts>>

\* Faulty variant: the error path leaves the log locked.
RoundFailsKeepsLock(d, t) ==
  pc[d][t] \in {"pushing", "pull"} /\ LeaveRound(d, t) /\ UNCHANGED deviceVars

\* The round's HTTP exchange fails, before or after the server acted on it; the log
\* is released on the way out.
RoundFails(d, t) ==
  pc[d][t] \in {"pushing", "pull"} /\ LeaveRound(d, t) /\ UnlockLog(d)

LockStorage(d, t) ==
  /\ pc[d][t] = "rebuild"
  /\ StorageFree(d)
  /\ GoTo(d, t, "building")
  /\ UNCHANGED <<deviceVars, serverVars, touched, pulled, orphaned, failures, restarts>>

\* Rebuild one touched row; after the last one the storage is released and the
\* round is over.
RebuildRow(d, t, x) ==
  /\ pc[d][t] = "building"
  /\ x \in touched[d][t]
  /\ BuildRow(d, x)
  /\ touched' = [touched EXCEPT ![d][t] = @ \ {x}]
  /\ orphaned' = [orphaned EXCEPT ![d] = @ \ {x}]
  /\ GoTo(d, t, IF touched[d][t] = {x} THEN "idle" ELSE "building")
  /\ UNCHANGED <<serverVars, pulled, failures, restarts>>

-----------------------------------------------------------------------------
(* Service calls beside the rounds *)

ServiceCall(d) ==
  /\ StorageFree(d)
  /\ \E id \in EventIds, x \in Items :
       \/ CreateItem(d, id, x)
       \/ \E p \in Payloads : ChangeItem(d, id, x, p)
  /\ UNCHANGED <<serverVars, syncVars>>

StoreCall(d) ==
  /\ AppendLocal(d)
  /\ UNCHANGED <<serverVars, syncVars>>

FinishCall(d) ==
  /\ BuildCallRow(d)
  /\ orphaned' = [orphaned EXCEPT ![d] = @ \ {call[d].event.entity_id}]
  /\ UNCHANGED <<serverVars, pc, touched, pulled, failures, restarts>>

-----------------------------------------------------------------------------
(* The server and the faults *)

Serve == HandlerStep /\ UNCHANGED <<deviceVars, syncVars>>

Cancel == (\E h \in handlers : DropHandler(h)) /\ UNCHANGED <<deviceVars, syncVars>>

\* The app of d is killed and started again: log, rows, cursor and tasks are gone.
Restart(d) ==
  /\ restarts < MaxRestarts
  /\ restarts' = restarts + 1
  /\ LoseMemory(d)
  /\ LoseConnection(d)
  /\ pc' = [pc EXCEPT ![d] = [t \in Tasks |-> "idle"]]
  /\ touched' = [touched EXCEPT ![d] = [t \in Tasks |-> {}]]
  /\ pulled' = [pulled EXCEPT ![d] = 0]
  /\ orphaned' = [orphaned EXCEPT ![d] = {}]
  /\ UNCHANGED failures

RoundStep(d, t) ==
  \/ SendPush(d, t)
  \/ ReceiveAck(d, t)
  \/ FinishPush(d, t)
  \/ ReceivePage(d, t)
  \/ ReceiveLastPage(d, t)

Next ==
  \/ \E d \in Devices :
       \/ ServiceCall(d)
       \/ StoreCall(d)
       \/ FinishCall(d)
       \/ Restart(d)
       \/ \E t \in Tasks :
            \/ BeginRound(d, t)
            \/ RoundStep(d, t)
            \/ AnswerPull(d, t)
            \/ RoundFails(d, t)
            \/ LockStorage(d, t)
            \/ \E x \in Items : RebuildRow(d, t, x)
  \/ Serve
  \/ Cancel

Spec == Init /\ [][Next]_vars

\* The device's own steps.  The mutexes are tokio's, which queue their waiters
\* first in first out: who waits for one that is released again and again gets it
\* (strong fairness).  BeginRound is the background job's next tick.  Nothing makes
\* the user act or a fault happen.
DeviceFairness ==
  \A d \in Devices :
    /\ \A t \in Tasks :
         /\ WF_vars(RoundStep(d, t))
         /\ SF_vars(BeginRound(d, t))
         /\ SF_vars(LockStorage(d, t))
         /\ SF_vars(\E x \in Items : RebuildRow(d, t, x))
    /\ SF_vars(StoreCall(d))
    /\ SF_vars(FinishCall(d))

\* The server answers.
ServerFairness ==
  /\ WF_vars(Serve)
  /\ \A d \in Devices, t \in Tasks : WF_vars(AnswerPull(d, t))

\* No HTTP client has a timeout, so nothing but the server makes an exchange end:
\* under SilentSpec the server may take a request and never answer it.
SilentSpec == Spec /\ DeviceFairness

FairSpec == SilentSpec /\ ServerFairness

-----------------------------------------------------------------------------
(* Safety *)

\* The server's stream has no gap and no duplicate: concurrent and repeated
\* batches leave every stored event a distinct offset, and the offsets are
\* exactly 1 .. next_server_offset - 1 (backend event_log.rs, `append`).  Nor do
\* retried pages leave a gap or a duplicate in a device's log (`append`).
OffsetsDense ==
  /\ next_server_offset = Cardinality(DOMAIN entries) + 1
  /\ Dense(entries)
  /\ \A d \in Devices : Dense(log[d])

\* An entry a device regards as synced is on the server at the offset the device
\* recorded, whichever of its pushes and pulls told it; an entry it regards as
\* unsynced is its own, so push will send it (mark_synced, append, get_unsynced).
StampAgrees ==
  \A d \in Devices : \A e \in Contents(d) :
    IF stamp[d][e] = 0 THEN e.replica_id = d
    ELSE e \in DOMAIN entries /\ entries[e] = stamp[d][e]

\* "I've seen the server's stream up to here" (SyncState.pulled): the cursor never
\* passes an event the device does not have, whatever was stored between two pages,
\* and never runs ahead of the stream.
CursorComplete ==
  \A d \in Devices :
    /\ pulled[d] < next_server_offset
    /\ \A e \in DOMAIN entries : entries[e] <= pulled[d] => e \in Contents(d)

\* In the server's stream and in every device's log an item's creation comes
\* before its other events, across batches, lost acknowledgements and retries:
\* no reader of a prefix of the stream can fold an item that was never created.
CreatedFirst ==
  LET Ordered(l) == \A e \in DOMAIN l : \E c \in EventsOfEntity(DOMAIN l, e.entity_id) :
                      c.payload = "Created" /\ l[c] <= l[e]
  IN  Ordered(entries) /\ \A d \in Devices : Ordered(log[d])

CallsOwn == \A d \in Devices : call[d] # NoCall => call[d].event.replica_id = d

BatchesSound ==
  \A h \in handlers :
    /\ \A e, f \in DOMAIN h.events : h.events[e] = h.events[f] => e = f
    /\ h.st # "received" => DOMAIN h.events \subseteq DOMAIN entries

ReplySound(d) ==
  /\ \A e \in DOMAIN reply[d].events :
       e \in DOMAIN entries /\ entries[e] = reply[d].events[e]
  /\ \A e \in DOMAIN entries :
       pulled[d] < entries[e] /\ entries[e] <= reply[d].next_offset
         => e \in DOMAIN reply[d].events
  /\ reply[d].next_offset < next_server_offset

\* What travels is still true when it arrives: an acknowledged or pulled event is
\* on the server at the offset the response carries, and a page leaves no hole
\* between the cursor it was asked for and its next_offset, although the server
\* stores other batches while it is on its way.  A batch in a handler is totally
\* ordered and, past the append, stored as a whole; a call under way writes an
\* event of its own device.
InFlightSound == CallsOwn /\ BatchesSound /\ \A d \in Devices : ReplySound(d)

\* An acknowledgement on its way promises that the server already serves the
\* event: its row is folded from it, or the item is deleted (append_events
\* rebuilds before it answers).
AckedIsServed ==
  \A d \in Devices : reply[d].kind = "ack" =>
    \A e \in DOMAIN reply[d].events :
      e \in srv_items[e.entity_id] \/ Deleted(DOMAIN entries, e.entity_id)

\* The server has stored e, and its table shows what e made of the item.
Reflected(e) ==
  /\ e \in DOMAIN entries
  /\ IF e.payload = "Deleted" THEN srv_items[e.entity_id] = {}
     ELSE e \in srv_items[e.entity_id] \/ Deleted(DOMAIN entries, e.entity_id)

\* x's row on the server lags behind the log, and each event it does not show is in
\* `accounted`.
LagsBy(x, accounted) ==
  LET lacking == {e \in EventsOfEntity(DOMAIN entries, x) : ~Reflected(e)}
  IN  lacking # {} /\ lacking \subseteq accounted

\* A server row that lags behind the log is repaired by pushes still to come: every
\* event it does not show its author holds as unsynced and will send again, whatever
\* handlers ran, interleaved or were dropped.  The exception is an event that its
\* author has forgotten in a restart, and only that event: other events of that
\* author, and events of other authors, are still sent.
ServerRowRepairable ==
  LET due == {e \in issued : e \in Unsynced(e.replica_id)}
  IN  \A x \in Items :
        srv_items[x] = Projection(DOMAIN entries, x) \/ LagsBy(x, due \cup forgotten)

\* x's row on d is due to be rebuilt: by the call that changed it, or by a task
\* whose pull touched it.
RebuildDue(d, x) ==
  \/ call[d] # NoCall /\ call[d].event.entity_id = x
  \/ \E t \in Tasks : x \in touched[d][t]

\* A row of the projection table lags behind the log only while its rebuild is
\* due, or when a failed round dropped it: no interleaving of service calls and
\* rounds of several tasks leaves a stale row in any other way.
StaleRowsExplained ==
  \A d \in Devices, x \in Items :
    rows[d][x] # Projection(Contents(d), x) => RebuildDue(d, x) \/ x \in orphaned[d]

\* The server never loses, reassigns or reorders what it stored, so a cursor
\* keeps its meaning (backend event_log.rs, `append`).
StreamIsAppendOnly ==
  [][\A e \in DOMAIN entries : e \in DOMAIN entries' /\ entries'[e] = entries[e]]_vars

\* A sync round, failed or not, never removes an event from the device's log, nor
\* makes a synced one unsynced again (push: "nothing is lost").
SyncKeepsLog ==
  [][restarts' = restarts =>
       \A d \in Devices : \A e \in Contents(d) :
         /\ e \in DOMAIN log'[d] /\ log'[d][e] = log[d][e]
         /\ stamp[d][e] # 0 => stamp'[d][e] = stamp[d][e]]_vars

\* Deletion wins: once a replica has taken the row of a deleted item out, no
\* edit that arrives later, from any device, brings it back (build_projection).
DeletionFinal ==
  [][\A x \in Items :
       /\ Deleted(DOMAIN entries, x) /\ srv_items[x] = {} => srv_items'[x] = {}
       /\ \A d \in Devices :
            Deleted(Contents(d), x) /\ rows[d][x] = {} => rows'[d][x] = {}]_vars

\* Whoever reads rows, through items() or GET /items, never sees an item lose an edit
\* it has shown: no concurrent rebuild, by whatever handler, call or round, takes a
\* row back to an older log.  Only deletion and a restart remove events from a row.
RowsGrow ==
  [][\A x \in Items :
       /\ srv_items[x] \subseteq srv_items'[x] \/ Deleted(DOMAIN entries, x)
       /\ \A d \in Devices :
            \/ rows[d][x] \subseteq rows'[d][x]
            \/ Deleted(Contents(d), x)
            \/ restarts' # restarts]_vars

\* The abstract state that OfflineSync implements.
R == INSTANCE Replication
       WITH written <- issued, stream <- entries, seen <- pulled,
            view <- [d \in Devices |-> Contents(d)]

\* Of the other devices' events a device has exactly those that the server stores up
\* to its cursor: a prefix of the stream, although pages are split, retried and lost.
DevicesSeePrefix == R!SeesPrefix

\* Whatever the rounds, handlers and faults do, the system is the one Replication
\* describes.
ImplementsReplication == R!Spec

-----------------------------------------------------------------------------
(* Liveness, under FairSpec except where noted *)

\* Once edits and faults have stopped, every device's log holds exactly the
\* server's events.
LogsConverge == <>[](\A d \in Devices : Contents(d) = DOMAIN entries)

\* ... and shows the rows of those events, save rows a failed round orphaned.
RowsConverge ==
  <>[](\A d \in Devices, x \in Items :
         rows[d][x] = Projection(DOMAIN entries, x) \/ x \in orphaned[d])

\* ... and so does the server, save events that it stored from an author that forgot
\* them in a restart: a row lacks nothing else.
ServerRowsConverge ==
  <>[](\A x \in Items :
         srv_items[x] = Projection(DOMAIN entries, x) \/ LagsBy(x, forgotten))

\* What the documentation of append_events and of the server's items promises: the
\* push side rebuilds "the projections of every entity the batch touched", so the
\* items are "folded from events pushed by the phones".
ServerRowsCatchUp == <>[](\A x \in Items : srv_items[x] = Projection(DOMAIN entries, x))

\* A round of d waits for an answer, and the log mutex with it.
Unanswered(d) == reply[d].kind = "none" /\ \E t \in Tasks : pc[d][t] \in {"pushing", "pull"}

\* A service call returns although rounds hold the log across their exchanges: only
\* a server that leaves one exchange open for ever keeps it waiting (SilentSpec).
CallsReturn ==
  \A d \in Devices : (call[d] # NoCall) ~> (call[d] = NoCall \/ []Unanswered(d))

\* Every round ends, however many service calls and other tasks want the same two
\* mutexes, unless the server falls silent (SilentSpec).
RoundsEnd ==
  \A d \in Devices, t \in Tasks :
    (pc[d][t] # "idle") ~> (pc[d][t] = "idle" \/ []Unanswered(d))

\* What the documentation of sync_now promises: after a failed round "local state
\* is untouched and a later sync retries", so every row catches up with the log.
RowsCatchUp ==
  <>[](\A d \in Devices, x \in Items : rows[d][x] = Projection(Contents(d), x))
=============================================================================
