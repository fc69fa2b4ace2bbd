------------------------- MODULE OfflineSync_proofs -------------------------
(* The safety of OfflineSync, for every value of the constants. *)
EXTENDS OfflineSync, EventLog_proofs

(***************************************************************************)
(* Type correctness.                                                       *)
(***************************************************************************)

\* The empty log is a log.
LEMMA EmptyLogIsLog == IsLog(EmptyLog)
BY DEF IsLog, EmptyLog

\* A log restricted to some of its events is a log.
LEMMA RestrictIsLog ==
  ASSUME NEW l, IsLog(l), NEW S, S \subseteq DOMAIN l
  PROVE  IsLog(Restrict(l, S)) /\ DOMAIN Restrict(l, S) = S
BY DEF IsLog, Restrict

\* A projection is a set of events of the log it is built from.
LEMMA ProjectionType ==
  ASSUME NEW S, S \subseteq Event, NEW x
  PROVE  Projection(S, x) \in SUBSET Event
BY DEF Projection, EventsOfEntity

\* The initial state has its shape.
LEMMA InitType == Init => TypeOK
BY EmptyLogIsLog
   DEF Init, DeviceInit, ServerInit, SyncInit, TypeOK, DeviceTypeOK, ServerTypeOK, SyncTypeOK, NoReply,
       Control, EmptyLog

\* The device's own steps keep the shape of the devices' state.
LEMMA BeginCallType ==
  ASSUME DeviceTypeOK, NEW d \in Devices, NEW id \in EventIds, NEW x \in Items,
         NEW p \in Payloads, BeginCall(d, id, x, p)
  PROVE  DeviceTypeOK'
BY DEF DeviceTypeOK, BeginCall, Event, Call

\* The local append leaves a log and its stamps.
LEMMA AppendLocalType ==
  ASSUME DeviceTypeOK, NEW d \in Devices, AppendLocal(d)
  PROVE  DeviceTypeOK'
<1> DEFINE batch == [e \in {call[d].event} |-> 0]
           new == DOMAIN batch \ Contents(d)
           l == PushAll(log[d], new, batch, NextPosition(d))
           s == [e \in Contents(d) \cup new |-> IF e \in new THEN batch[e] ELSE stamp[d][e]]
<1>1. call[d] \in Call /\ new \subseteq Event
  BY DEF DeviceTypeOK, AppendLocal, PushEntries, Call
<1>2. IsLog(log[d]) /\ Contents(d) \subseteq Event /\ NextPosition(d) \in Nat
  BY EventsFinite DEF DeviceTypeOK, IsLog, Contents, NextPosition
<1>3. IsLog(l) /\ DOMAIN l = Contents(d) \cup new
  <2> HIDE DEF batch, new
  <2>1. QED
    BY <1>1, <1>2, PushAllIsLog DEF Contents
<1>4. IsLog(s) /\ DOMAIN s = Contents(d) \cup new
  BY <1>1, <1>2 DEF IsLog, DeviceTypeOK, Contents
<1>5. log' = [log EXCEPT ![d] = l] /\ stamp' = [stamp EXCEPT ![d] = s]
  BY DEF AppendLocal, PushEntries
<1>6. call' \in [Devices -> Call \cup {NoCall}] /\ issued' \subseteq Event /\ forgotten' \subseteq Event
  BY <1>1 DEF AppendLocal, DeviceTypeOK, Call
<1> HIDE DEF batch, new, l, s
<1>7. QED
  BY <1>3, <1>4, <1>5, <1>6 DEF AppendLocal, DeviceTypeOK

\* A rebuilt row is a set of events of the log.
LEMMA BuildCallRowType ==
  ASSUME DeviceTypeOK, NEW d \in Devices, BuildCallRow(d)
  PROVE  DeviceTypeOK'
<1>1. Contents(d) \subseteq Event
  BY DEF DeviceTypeOK, IsLog, Contents
<1>2. \A x : Projection(Contents(d), x) \in SUBSET Event
  BY <1>1, ProjectionType
<1>3. call[d].event.entity_id \in Items
  BY DEF BuildCallRow, CanBuild, BuildProjection, DeviceTypeOK, Call, Event
<1>4. QED
  BY <1>2, <1>3 DEF BuildCallRow, CanBuild, BuildProjection, DeviceTypeOK

\* Marking events synced leaves a number for every entry.
LEMMA MarkSyncedType ==
  ASSUME DeviceTypeOK, NEW d \in Devices, NEW acked, IsLog(acked), MarkSynced(d, acked)
  PROVE  DeviceTypeOK'
<1> DEFINE s == [e \in Contents(d) |-> IF e \in DOMAIN acked THEN acked[e] ELSE stamp[d][e]]
<1>1. IsLog(s) /\ DOMAIN s = Contents(d)
  BY DEF IsLog, DeviceTypeOK, Contents
<1>2. stamp' = [stamp EXCEPT ![d] = s]
  BY DEF MarkSynced
<1> HIDE DEF s
<1>3. QED
  BY <1>1, <1>2 DEF MarkSynced, DeviceTypeOK, Contents

\* Folding a page in leaves a log and its stamps.
LEMMA AppendReplicatedType ==
  ASSUME DeviceTypeOK, NEW d \in Devices, NEW page, IsLog(page), AppendReplicated(d, page)
  PROVE  DeviceTypeOK'
<1> DEFINE new == DOMAIN page \ Contents(d)
           l == PushAll(log[d], new, page, NextPosition(d))
           s == [e \in Contents(d) \cup new |-> IF e \in new THEN page[e] ELSE stamp[d][e]]
<1>1. new \subseteq Event
  BY DEF IsLog
<1>2. IsLog(log[d]) /\ Contents(d) \subseteq Event /\ NextPosition(d) \in Nat
  BY EventsFinite DEF DeviceTypeOK, IsLog, Contents, NextPosition
<1>3. IsLog(l) /\ DOMAIN l = Contents(d) \cup new
  BY <1>1, <1>2, PushAllIsLog DEF Contents
<1>4. IsLog(s) /\ DOMAIN s = Contents(d) \cup new
  BY <1>1, <1>2 DEF IsLog, DeviceTypeOK, Contents
<1>5. log' = [log EXCEPT ![d] = l] /\ stamp' = [stamp EXCEPT ![d] = s]
  BY DEF AppendReplicated, PushEntries
<1> HIDE DEF l, s
<1>6. QED
  BY <1>3, <1>4, <1>5 DEF AppendReplicated, PushEntries, DeviceTypeOK

\* Locking, unlocking and rebuilding a row keep the shape.
LEMMA LocksAndRowsType ==
  ASSUME DeviceTypeOK, NEW d \in Devices
  PROVE  /\ \A t \in Tasks : LockLog(d, t) => DeviceTypeOK'
         /\ UnlockLog(d) => DeviceTypeOK'
         /\ \A x \in Items : BuildRow(d, x) => DeviceTypeOK'
         /\ UNCHANGED deviceVars => DeviceTypeOK'
<1>1. ASSUME NEW t \in Tasks, LockLog(d, t) PROVE DeviceTypeOK'
  BY <1>1 DEF LockLog, DeviceTypeOK
<1>2. ASSUME UnlockLog(d) PROVE DeviceTypeOK'
  BY <1>2 DEF UnlockLog, DeviceTypeOK
<1>3. ASSUME NEW x \in Items, BuildRow(d, x) PROVE DeviceTypeOK'
  <2>1. Projection(Contents(d), x) \in SUBSET Event
    BY ProjectionType DEF DeviceTypeOK, IsLog, Contents
  <2>2. QED
    BY <1>3, <2>1 DEF BuildRow, BuildProjection, DeviceTypeOK
<1>4. ASSUME UNCHANGED deviceVars PROVE DeviceTypeOK'
  BY <1>4 DEF deviceVars, DeviceTypeOK
<1>5. QED
  BY <1>1, <1>2, <1>3, <1>4

\* A restarted device starts from the empty log.
LEMMA LoseMemoryType ==
  ASSUME DeviceTypeOK, NEW d \in Devices, LoseMemory(d)
  PROVE  DeviceTypeOK'
<1>1. IsLog(EmptyLog) /\ DOMAIN EmptyLog = {}
  BY EmptyLogIsLog DEF EmptyLog
<1>2. log' = [log EXCEPT ![d] = EmptyLog] /\ stamp' = [stamp EXCEPT ![d] = EmptyLog]
  BY DEF LoseMemory
<1>3. forgotten' \subseteq Event
  BY DEF LoseMemory, DeviceTypeOK, IsLog, Contents
<1>4. QED
  BY <1>1, <1>2, <1>3 DEF LoseMemory, DeviceTypeOK

\* A handler that moves on keeps its batch and its shape.
LEMMA AdvanceShape ==
  ASSUME NEW h, IsHandler(h), NEW st \in {"received", "stored", "building"}, NEW todo \in SUBSET Items
  PROVE  [h EXCEPT !.st = st, !.todo = todo] =
           [from |-> h.from, st |-> st, todo |-> todo, events |-> h.events]
<1> DEFINE f == [h EXCEPT !.st = st]
           g == [h EXCEPT !.st = st, !.todo = todo]
<1>1. f = [from |-> h.from, st |-> st, todo |-> h.todo, events |-> h.events]
  BY DEF IsHandler
<1>2. g = [f EXCEPT !.todo = todo]
  OBVIOUS
<1> HIDE DEF f, g
<1>3. g = [from |-> h.from, st |-> st, todo |-> todo, events |-> h.events]
  BY <1>1, <1>2
<1>4. QED
  BY <1>3 DEF g

\* ... and so keeps the set of handlers well formed.
LEMMA AdvanceType ==
  ASSUME ServerTypeOK, NEW h \in handlers, NEW st \in {"received", "stored", "building"},
         NEW todo \in SUBSET Items, Advance(h, st, todo)
  PROVE  /\ \A g \in handlers' : IsHandler(g)
         /\ reply' = reply
<1> DEFINE g == [h EXCEPT !.st = st, !.todo = todo]
<1>1. IsHandler(h) /\ g = [from |-> h.from, st |-> st, todo |-> todo, events |-> h.events]
  BY AdvanceShape DEF ServerTypeOK
<1> HIDE DEF g
<1>2. IsHandler(g)
  BY <1>1 DEF IsHandler
<1>3. handlers' = (handlers \ {h}) \cup {g} /\ reply' = reply
  BY DEF Advance, g
<1>4. QED
  BY <1>2, <1>3 DEF ServerTypeOK

\* The server's steps keep the shape of its state.
LEMMA PostEventsType ==
  ASSUME ServerTypeOK, NEW d \in Devices, NEW events, IsLog(events), PostEvents(d, events)
  PROVE  ServerTypeOK'
<1> DEFINE h == [from |-> d, st |-> "received", todo |-> {}, events |-> events]
<1>1. IsHandler(h)
  BY DEF IsHandler
<1>2. handlers' = handlers \cup {h}
  BY DEF PostEvents
<1> HIDE DEF h
<1>3. QED
  BY <1>1, <1>2 DEF PostEvents, ServerTypeOK

\* AppendEvents stores a batch and keeps the handler.
LEMMA AppendEventsType ==
  ASSUME ServerTypeOK, NEW h \in handlers, AppendEvents(h)
  PROVE  ServerTypeOK'
<1>1. IsHandler(h) /\ IsLog(h.events) /\ DOMAIN h.events \subseteq Event
  BY DEF ServerTypeOK, IsHandler, IsLog
<1>2. RowsDue(h) \in SUBSET Items
  BY <1>1 DEF Event, RowsDue
<1>3. (\A g \in handlers' : IsHandler(g)) /\ reply' = reply
  BY <1>2, AdvanceType DEF AppendEvents
<1>4. NewEvents(h) \subseteq Event /\ Cardinality(NewEvents(h)) \in Nat
  BY <1>1, EventsFinite DEF NewEvents
<1>5. IsLog(entries')
  BY <1>4, PushAllIsLog DEF ServerTypeOK, AppendEvents
<1>6. next_server_offset' \in Nat \ {0}
  BY <1>4 DEF ServerTypeOK, AppendEvents
<1>7. QED
  BY <1>3, <1>5, <1>6 DEF AppendEvents, ServerTypeOK

\* A handler that takes the storage mutex keeps its shape.
LEMMA LockServerStorageType ==
  ASSUME ServerTypeOK, NEW h \in handlers, LockServerStorage(h)
  PROVE  ServerTypeOK'
<1>1. h.todo \in SUBSET Items
  BY DEF ServerTypeOK, IsHandler
<1>2. (\A g \in handlers' : IsHandler(g)) /\ reply' = reply
  BY <1>1, AdvanceType DEF LockServerStorage
<1>3. QED
  BY <1>2 DEF LockServerStorage, ServerTypeOK

\* A rebuilt server row is a set of stored events.
LEMMA BuildServerRowType ==
  ASSUME ServerTypeOK, NEW h \in handlers, NEW x \in Items, BuildServerRow(h, x)
  PROVE  ServerTypeOK'
<1>1. h.todo \ {x} \in SUBSET Items /\ h.st = "building"
  BY DEF ServerTypeOK, IsHandler, BuildServerRow
<1>2. (\A g \in handlers' : IsHandler(g)) /\ reply' = reply
  BY <1>1, AdvanceType DEF BuildServerRow
<1>3. Projection(DOMAIN entries, x) \in SUBSET Event
  BY ProjectionType DEF ServerTypeOK, IsLog
<1>4. QED
  BY <1>2, <1>3 DEF BuildServerRow, ServerTypeOK

\* The answer is a log because the batch of a handler that answers is stored.
LEMMA AnswerPostType ==
  ASSUME ServerTypeOK, NEW h \in handlers, DOMAIN h.events \subseteq DOMAIN entries, AnswerPost(h)
  PROVE  ServerTypeOK'
<1>1. IsLog(Restrict(entries, DOMAIN h.events))
  BY RestrictIsLog DEF ServerTypeOK
<1>2. QED
  BY <1>1 DEF AnswerPost, Answer, ServerTypeOK

\* A page is a log.
LEMMA GetEventsType ==
  ASSUME ServerTypeOK, NEW d \in Devices, NEW after, GetEvents(d, after)
  PROVE  ServerTypeOK'
<1>1. IsLog(EventsAfter(after))
  BY RestrictIsLog DEF EventsAfter, FirstOf, ServerTypeOK
<1>2. PICK n \in 0 .. next_server_offset :
        reply' = [reply EXCEPT ![d] = [kind |-> "page", events |-> EventsAfter(after), next_offset |-> n]]
  BY DEF GetEvents
<1>3. n \in Nat
  BY DEF ServerTypeOK
<1>4. QED
  BY <1>1, <1>2, <1>3 DEF GetEvents, ServerTypeOK

\* Losing a connection, reading a response and dropping a handler keep the shape.
LEMMA ConnectionType ==
  ASSUME ServerTypeOK, NEW d \in Devices
  PROVE  /\ LoseConnection(d) => ServerTypeOK'
         /\ ConsumeReply(d) => ServerTypeOK'
         /\ \A h \in handlers : DropHandler(h) => ServerTypeOK'
         /\ UNCHANGED serverVars => ServerTypeOK'
<1>1. IsLog(NoReply.events)
  BY EmptyLogIsLog DEF NoReply
<1>2. ASSUME LoseConnection(d) PROVE ServerTypeOK'
  <2>1. ASSUME NEW h \in handlers
        PROVE  IsHandler([h EXCEPT !.from = IF @ = d THEN Gone ELSE @])
    <3>1. IsHandler(h)
      BY DEF ServerTypeOK
    <3>2. [h EXCEPT !.from = IF @ = d THEN Gone ELSE @] =
            [from |-> IF h.from = d THEN Gone ELSE h.from, st |-> h.st, todo |-> h.todo,
             events |-> h.events]
      BY <3>1 DEF IsHandler
    <3>3. QED
      BY <3>1, <3>2 DEF IsHandler
  <2>2. \A h \in handlers' : IsHandler(h)
    BY <1>2, <2>1 DEF LoseConnection
  <2>3. QED
    BY <1>1, <1>2, <2>2 DEF LoseConnection, ServerTypeOK, NoReply
<1>3. ASSUME ConsumeReply(d) PROVE ServerTypeOK'
  BY <1>1, <1>3 DEF ConsumeReply, ServerTypeOK, NoReply
<1>4. ASSUME NEW h \in handlers, DropHandler(h) PROVE ServerTypeOK'
  BY <1>4 DEF DropHandler, ServerTypeOK
<1>5. ASSUME UNCHANGED serverVars PROVE ServerTypeOK'
  BY <1>5 DEF serverVars, ServerTypeOK
<1>6. QED
  BY <1>2, <1>3, <1>4, <1>5

-----------------------------------------------------------------------------
(***************************************************************************)
(* Type correctness of the composed steps.                                 *)
(***************************************************************************)

\* Every sync task step keeps the shape of the state.
LEMMA TaskStepType ==
  ASSUME TypeOK, NEW d \in Devices, NEW t \in Tasks,
         \/ BeginRound(d, t) \/ RoundStep(d, t) \/ AnswerPull(d, t) \/ RoundFails(d, t) \/ LockStorage(d, t)
         \/ \E x \in Items : RebuildRow(d, t, x)
  PROVE  TypeOK'
<1> USE DEF SyncTypeOK, GoTo, Control
<1>1. DeviceTypeOK /\ ServerTypeOK /\ SyncTypeOK
  BY DEF TypeOK
<1>2. IsLog(reply[d].events)
  BY <1>1 DEF ServerTypeOK
<1>3. {e.entity_id : e \in DOMAIN reply[d].events} \in SUBSET Items
  BY <1>2 DEF IsLog, Event
<1>4. CASE BeginRound(d, t)
  <2>1. DeviceTypeOK' /\ ServerTypeOK'
    BY <1>1, <1>4, LocksAndRowsType, ConnectionType DEF BeginRound
  <2>2. SyncTypeOK'
    BY <1>1, <1>4 DEF BeginRound
  <2>3. QED
    BY <2>1, <2>2 DEF TypeOK
<1>5. CASE SendPush(d, t)
  <2>1. IsLog(GetUnsynced(d, Batch))
    BY <1>1, RestrictIsLog DEF GetUnsynced, FirstOf, Unsynced, Contents, DeviceTypeOK
  <2>2. DeviceTypeOK' /\ ServerTypeOK'
    BY <1>1, <1>5, <2>1, LocksAndRowsType, PostEventsType DEF SendPush
  <2>3. SyncTypeOK'
    BY <1>1, <1>5 DEF SendPush
  <2>4. QED
    BY <2>2, <2>3 DEF TypeOK
<1>6. CASE ReceiveAck(d, t)
  <2>1. DeviceTypeOK' /\ ServerTypeOK'
    BY <1>1, <1>2, <1>6, MarkSyncedType, ConnectionType DEF ReceiveAck
  <2>2. SyncTypeOK'
    BY <1>1, <1>6 DEF ReceiveAck
  <2>3. QED
    BY <2>1, <2>2 DEF TypeOK
<1>7. CASE FinishPush(d, t)
  <2>1. DeviceTypeOK' /\ ServerTypeOK'
    BY <1>1, <1>7, LocksAndRowsType, ConnectionType DEF FinishPush
  <2>2. SyncTypeOK'
    BY <1>1, <1>7 DEF FinishPush
  <2>3. QED
    BY <2>1, <2>2 DEF TypeOK
<1>8. CASE AnswerPull(d, t)
  <2>1. DeviceTypeOK' /\ ServerTypeOK'
    BY <1>1, <1>8, LocksAndRowsType, GetEventsType DEF AnswerPull
  <2>2. SyncTypeOK'
    BY <1>1, <1>8 DEF AnswerPull, syncVars
  <2>3. QED
    BY <2>1, <2>2 DEF TypeOK
<1>9. CASE ReceivePage(d, t)
  <2>1. DeviceTypeOK' /\ ServerTypeOK'
    BY <1>1, <1>2, <1>9, AppendReplicatedType, ConnectionType DEF ReceivePage, Touched
  <2>2. reply[d].next_offset \in Nat
    BY <1>1 DEF ServerTypeOK
  <2>3. SyncTypeOK'
    BY <1>1, <1>3, <1>9, <2>2 DEF ReceivePage, Touched
  <2>4. QED
    BY <2>1, <2>3 DEF TypeOK
<1>10. CASE ReceiveLastPage(d, t)
  <2>1. DeviceTypeOK' /\ ServerTypeOK'
    BY <1>1, <1>10, LocksAndRowsType, ConnectionType DEF ReceiveLastPage
  <2>2. SyncTypeOK'
    BY <1>1, <1>10 DEF ReceiveLastPage
  <2>3. QED
    BY <2>1, <2>2 DEF TypeOK
<1>11. CASE RoundFails(d, t)
  <2>1. DeviceTypeOK' /\ ServerTypeOK'
    BY <1>1, <1>11, LocksAndRowsType, ConnectionType DEF RoundFails, LeaveRound
  <2>2. SyncTypeOK'
    BY <1>1, <1>11 DEF RoundFails, LeaveRound
  <2>3. QED
    BY <2>1, <2>2 DEF TypeOK
<1>12. CASE LockStorage(d, t)
  <2>1. DeviceTypeOK' /\ ServerTypeOK'
    BY <1>1, <1>12, LocksAndRowsType, ConnectionType DEF LockStorage
  <2>2. SyncTypeOK'
    BY <1>1, <1>12 DEF LockStorage
  <2>3. QED
    BY <2>1, <2>2 DEF TypeOK
<1>13. ASSUME NEW x \in Items, RebuildRow(d, t, x) PROVE TypeOK'
  <2>1. DeviceTypeOK' /\ ServerTypeOK'
    BY <1>1, <1>13, LocksAndRowsType, ConnectionType DEF RebuildRow
  <2>2. SyncTypeOK'
    BY <1>1, <1>13 DEF RebuildRow
  <2>3. QED
    BY <2>1, <2>2 DEF TypeOK
<1>14. QED
  BY <1>4, <1>5, <1>6, <1>7, <1>8, <1>9, <1>10, <1>11, <1>12, <1>13 DEF RoundStep

\* Every service call step and a restart keep the shape of the state.
LEMMA CallStepType ==
  ASSUME TypeOK, NEW d \in Devices,
         ServiceCall(d) \/ StoreCall(d) \/ FinishCall(d) \/ Restart(d)
  PROVE  TypeOK'
<1> USE DEF SyncTypeOK, Control
<1>1. DeviceTypeOK /\ ServerTypeOK /\ SyncTypeOK
  BY DEF TypeOK
<1>2. CASE ServiceCall(d)
  <2>1. PICK id \in EventIds, x \in Items, p \in Payloads : BeginCall(d, id, x, p)
    BY <1>2 DEF ServiceCall, CreateItem, ChangeItem, Payloads
  <2>2. DeviceTypeOK' /\ ServerTypeOK' /\ SyncTypeOK'
    BY <1>1, <1>2, <2>1, BeginCallType, ConnectionType DEF ServiceCall, syncVars
  <2>3. QED
    BY <2>2 DEF TypeOK
<1>3. CASE StoreCall(d)
  <2>1. DeviceTypeOK' /\ ServerTypeOK' /\ SyncTypeOK'
    BY <1>1, <1>3, AppendLocalType, ConnectionType DEF StoreCall, syncVars
  <2>2. QED
    BY <2>1 DEF TypeOK
<1>4. CASE FinishCall(d)
  <2>1. DeviceTypeOK' /\ ServerTypeOK'
    BY <1>1, <1>4, BuildCallRowType, ConnectionType DEF FinishCall
  <2>2. SyncTypeOK'
    BY <1>1, <1>4 DEF FinishCall
  <2>3. QED
    BY <2>1, <2>2 DEF TypeOK
<1>5. CASE Restart(d)
  <2>1. DeviceTypeOK' /\ ServerTypeOK'
    BY <1>1, <1>5, LoseMemoryType, ConnectionType DEF Restart
  <2>2. SyncTypeOK'
    BY <1>1, <1>5 DEF Restart
  <2>3. QED
    BY <2>1, <2>2 DEF TypeOK
<1>6. QED
  BY <1>2, <1>3, <1>4, <1>5

\* A batch past the append is stored as a whole.
StoredBatches == \A h \in handlers : h.st # "received" => DOMAIN h.events \subseteq DOMAIN entries

\* Every step of the server keeps the shape of the state; an answer needs that its
\* batch is stored.
LEMMA ServerStepType ==
  ASSUME TypeOK, StoredBatches, Serve \/ Cancel
  PROVE  TypeOK'
<1>1. DeviceTypeOK /\ ServerTypeOK /\ SyncTypeOK
  BY DEF TypeOK
<1>2. DeviceTypeOK' /\ SyncTypeOK'
  BY <1>1 DEF Serve, Cancel, deviceVars, syncVars, DeviceTypeOK, SyncTypeOK
<1>3. ASSUME NEW h \in handlers, AnswerPost(h) PROVE ServerTypeOK'
  <2>1. DOMAIN h.events \subseteq DOMAIN entries
    BY <1>3 DEF AnswerPost, StoredBatches
  <2>2. QED
    BY <1>1, <1>3, <2>1, AnswerPostType
<1>4. ServerTypeOK'
  <2>1. CASE Serve
    <3>1. PICK h \in handlers :
            \/ AppendEvents(h)
            \/ LockServerStorage(h)
            \/ \E x \in Items : BuildServerRow(h, x)
            \/ AnswerPost(h)
      BY <2>1 DEF Serve, HandlerStep
    <3>2. QED
      BY <1>1, <1>3, <3>1, AppendEventsType, LockServerStorageType, BuildServerRowType
  <2>2. CASE Cancel
    BY <1>1, <2>2 DEF Cancel, DropHandler, ServerTypeOK
  <2>3. QED
    BY <2>1, <2>2
<1>5. QED
  BY <1>2, <1>4 DEF TypeOK

\* Hence every step keeps the shape of the state.
LEMMA NextType ==
  ASSUME TypeOK, StoredBatches, [Next]_vars
  PROVE  TypeOK'
<1>1. CASE Next
  BY <1>1, TaskStepType, CallStepType, ServerStepType DEF Next
<1>2. CASE UNCHANGED vars
  <2>1. DeviceTypeOK /\ ServerTypeOK /\ SyncTypeOK
    BY DEF TypeOK
  <2>2. DeviceTypeOK' /\ ServerTypeOK' /\ SyncTypeOK'
    BY <1>2, <2>1 DEF vars, DeviceTypeOK, ServerTypeOK, SyncTypeOK, Contents
  <2>3. QED
    BY <2>2 DEF TypeOK
<1>3. QED
  BY <1>1, <1>2

-----------------------------------------------------------------------------
(***************************************************************************)
(* The inductive invariant.  StampAgrees and CursorComplete speak of what  *)
(* a device has recorded; they hold because what travels to it is sound,   *)
(* which holds because the stream is dense and only grows.                 *)
(***************************************************************************)
IInv ==
  /\ TypeOK
  /\ OffsetsDense
  /\ InFlightSound
  /\ StampAgrees
  /\ CursorComplete

\* The initial state satisfies it: every log is empty.
LEMMA InitIInv == Init => IInv
<1> SUFFICES ASSUME Init PROVE IInv
  OBVIOUS
<1>1. DOMAIN EmptyLog = {} /\ Cardinality({}) = 0 /\ Dense(EmptyLog)
  BY FS_EmptySet DEF EmptyLog, Dense
<1>2. entries = EmptyLog /\ next_server_offset = 1 /\ handlers = {}
  BY DEF Init, ServerInit
<1>3. \A d \in Devices : /\ log[d] = EmptyLog /\ call[d] = NoCall /\ pulled[d] = 0
                         /\ reply[d].events = EmptyLog /\ reply[d].next_offset = 0
  BY DEF Init, DeviceInit, ServerInit, SyncInit, NoReply
<1>4. OffsetsDense
  BY <1>1, <1>2, <1>3 DEF OffsetsDense
<1>5. InFlightSound
  BY <1>1, <1>2, <1>3 DEF InFlightSound, CallsOwn, BatchesSound, ReplySound
<1>6. StampAgrees /\ CursorComplete
  BY <1>1, <1>2, <1>3 DEF StampAgrees, CursorComplete, Contents
<1>7. QED
  BY InitType, <1>4, <1>5, <1>6 DEF IInv

\* A step that leaves the logs, the stream, the cursors and what travels alone
\* preserves it.
LEMMA QuietStep ==
  ASSUME IInv, TypeOK',
         UNCHANGED <<log, stamp, call, entries, next_server_offset, handlers, reply, pulled>>
  PROVE  IInv'
BY DEF IInv, OffsetsDense, InFlightSound, CallsOwn, BatchesSound, ReplySound, StampAgrees,
       CursorComplete, Contents

\* An empty response says nothing that could be wrong.
LEMMA NoReplySound ==
  ASSUME IInv, NEW d \in Devices, reply'[d] = NoReply,
         UNCHANGED <<entries, next_server_offset>>
  PROVE  ReplySound(d)'
<1>1. \A e \in DOMAIN entries : entries[e] \in Nat /\ entries[e] > 0
  BY EventsFinite DEF IInv, OffsetsDense, Dense, TypeOK, ServerTypeOK, IsLog
<1>2. next_server_offset \in Nat \ {0}
  BY DEF IInv, TypeOK, ServerTypeOK
<1>3. QED
  BY <1>1, <1>2 DEF ReplySound, NoReply, EmptyLog

\* What the invariant says of the numbers involved.
LEMMA Numbers ==
  ASSUME IInv
  PROVE  /\ next_server_offset \in Nat \ {0}
         /\ \A e \in DOMAIN entries : entries[e] \in Nat /\ 0 < entries[e]
                                      /\ entries[e] < next_server_offset
         /\ \A d \in Devices : pulled[d] \in Nat /\ reply[d].next_offset \in Nat
<1>1. Cardinality(DOMAIN entries) \in Nat
  BY EventsFinite DEF IInv, TypeOK, ServerTypeOK, IsLog
<1>2. QED
  BY <1>1 DEF IInv, TypeOK, ServerTypeOK, SyncTypeOK, OffsetsDense, Dense

\* Losing a connection leaves the batches of the handlers as they are.
LEMMA LostHandlersSound ==
  ASSUME IInv, NEW d \in Devices, LoseConnection(d)
  PROVE  BatchesSound'
<1> SUFFICES ASSUME NEW g \in handlers'
             PROVE  /\ \A e, f \in DOMAIN g.events : g.events[e] = g.events[f] => e = f
                    /\ g.st # "received" => DOMAIN g.events \subseteq DOMAIN entries
  BY DEF BatchesSound, LoseConnection
<1>1. PICK h \in handlers : g = [h EXCEPT !.from = IF @ = d THEN Gone ELSE @]
  BY DEF LoseConnection
<1>2. h = [from |-> h.from, st |-> h.st, todo |-> h.todo, events |-> h.events]
  BY DEF IInv, TypeOK, ServerTypeOK, IsHandler
<1>3. g.events = h.events /\ g.st = h.st
  BY <1>1, <1>2
<1>4. QED
  BY <1>3 DEF IInv, InFlightSound, BatchesSound

\* A push puts a totally ordered batch into a new handler.
LEMMA SendPushStep ==
  ASSUME IInv, TypeOK', NEW d \in Devices, NEW t \in Tasks, SendPush(d, t)
  PROVE  IInv'
<1> DEFINE batch == GetUnsynced(d, Batch)
           h == [from |-> d, st |-> "received", todo |-> {}, events |-> batch]
<1>1. /\ handlers' = handlers \cup {h}
      /\ UNCHANGED <<log, stamp, call, entries, next_server_offset, reply, pulled>>
  BY DEF SendPush, PostEvents, deviceVars
<1>2. \A e, f \in DOMAIN batch : batch[e] = batch[f] => e = f
  <2>1. Dense(log[d])
    BY DEF IInv, OffsetsDense
  <2>2. DOMAIN batch \subseteq DOMAIN log[d] /\ \A e \in DOMAIN batch : batch[e] = log[d][e]
    BY DEF GetUnsynced, Restrict, FirstOf, Unsynced, Contents
  <2>3. QED
    BY <2>1, <2>2 DEF Dense
<1> HIDE DEF batch
<1>3. BatchesSound'
  BY <1>1, <1>2 DEF IInv, InFlightSound, BatchesSound
<1>4. InFlightSound'
  BY <1>1, <1>3 DEF IInv, InFlightSound, CallsOwn, ReplySound
<1>5. (OffsetsDense /\ StampAgrees /\ CursorComplete)'
  BY <1>1 DEF IInv, OffsetsDense, StampAgrees, CursorComplete, Contents
<1>6. QED
  BY <1>4, <1>5 DEF IInv

\* Marking acknowledged events records the offsets the server gave them.
LEMMA ReceiveAckStep ==
  ASSUME IInv, TypeOK', NEW d \in Devices, NEW t \in Tasks, ReceiveAck(d, t)
  PROVE  IInv'
<1> DEFINE acked == reply[d].events
<1>1. /\ stamp' = [stamp EXCEPT ![d] = [e \in Contents(d) |->
                     IF e \in DOMAIN acked THEN acked[e] ELSE stamp[d][e]]]
      /\ reply' = [reply EXCEPT ![d] = NoReply]
      /\ UNCHANGED <<log, call, entries, next_server_offset, handlers, pulled>>
  BY DEF ReceiveAck, MarkSynced, ConsumeReply
<1>2. DOMAIN stamp = Devices /\ DOMAIN reply = Devices
  BY DEF IInv, TypeOK, DeviceTypeOK, ServerTypeOK
<1>3. ReplySound(d)'
  BY <1>1, <1>2, NoReplySound
<1>4. \A c \in Devices \ {d} : ReplySound(c)'
  BY <1>1, <1>2 DEF IInv, InFlightSound, ReplySound
<1>5. InFlightSound'
  BY <1>1, <1>3, <1>4 DEF IInv, InFlightSound, CallsOwn, BatchesSound
<1>6. \A e \in DOMAIN acked : e \in DOMAIN entries /\ acked[e] = entries[e] /\ acked[e] # 0
  BY Numbers DEF IInv, InFlightSound, ReplySound
<1> HIDE DEF acked
<1>7. StampAgrees'
  <2> SUFFICES ASSUME NEW c \in Devices, NEW e \in Contents(c)'
               PROVE  (IF stamp[c][e] = 0 THEN e.replica_id = c
                       ELSE e \in DOMAIN entries /\ entries[e] = stamp[c][e])'
    BY DEF StampAgrees
  <2>1. e \in Contents(c) /\ (IF stamp[c][e] = 0 THEN e.replica_id = c
                             ELSE e \in DOMAIN entries /\ entries[e] = stamp[c][e])
    BY <1>1 DEF IInv, StampAgrees, Contents
  <2>2. CASE c = d /\ e \in DOMAIN acked
    BY <1>1, <1>2, <1>6, <2>1, <2>2
  <2>3. CASE ~(c = d /\ e \in DOMAIN acked)
    BY <1>1, <1>2, <2>1, <2>3
  <2>4. QED
    BY <2>2, <2>3
<1>8. (OffsetsDense /\ CursorComplete)'
  BY <1>1 DEF IInv, OffsetsDense, CursorComplete, Contents
<1>9. QED
  BY <1>5, <1>7, <1>8 DEF IInv

\* The page the server answers with has no hole between the cursor and its end.
LEMMA AnswerPullStep ==
  ASSUME IInv, TypeOK', NEW d \in Devices, NEW t \in Tasks, AnswerPull(d, t)
  PROVE  IInv'
<1> DEFINE page == EventsAfter(pulled[d])
           newer == {e \in DOMAIN entries : entries[e] > pulled[d]}
<1>1. PICK n \in 0 .. next_server_offset :
        /\ IsNextOffset(page, n)
        /\ reply' = [reply EXCEPT ![d] = [kind |-> "page", events |-> page, next_offset |-> n]]
  BY DEF AnswerPull, GetEvents
<1>2. UNCHANGED <<log, stamp, call, entries, next_server_offset, handlers, pulled>>
  BY DEF AnswerPull, GetEvents, deviceVars, syncVars
<1>3. DOMAIN reply = Devices
  BY DEF IInv, TypeOK, ServerTypeOK
<1>4. /\ DOMAIN page = FirstOf(newer, entries, Batch)
      /\ DOMAIN page \subseteq newer
      /\ \A e \in DOMAIN page : page[e] = entries[e]
  BY DEF EventsAfter, Restrict, FirstOf
<1>5. newer \subseteq Event /\ Batch \in Nat /\ \A f \in newer : entries[f] \in Nat
  BY BatchPositive, Numbers DEF IInv, TypeOK, ServerTypeOK, IsLog
<1>6. /\ DOMAIN page = {} => n = 0
      /\ DOMAIN page # {} => \E e \in DOMAIN page : page[e] = n
  BY <1>1 DEF IsNextOffset, Range
<1> HIDE DEF page
<1> HIDE DEF newer
<1>7. n \in Nat /\ n < next_server_offset
  <2>1. next_server_offset \in Nat \ {0}
    BY Numbers
  <2>2. CASE DOMAIN page = {}
    BY <1>6, <2>1, <2>2
  <2>3. CASE DOMAIN page # {}
    <3>1. PICK e \in DOMAIN page : page[e] = n
      BY <1>6, <2>3
    <3>2. e \in DOMAIN entries /\ entries[e] = n
      BY <1>4, <3>1 DEF newer
    <3>3. QED
      BY <3>2, Numbers
  <2>4. QED
    BY <2>2, <2>3
<1>8. ASSUME NEW e \in DOMAIN entries, pulled[d] < entries[e], entries[e] <= n
      PROVE  e \in DOMAIN page
  <2>1. entries[e] \in Nat /\ 0 < entries[e] /\ pulled[d] \in Nat
    BY Numbers
  <2>2. PICK g \in DOMAIN page : page[g] = n
    <3>1. n # 0
      BY <1>7, <1>8, <2>1
    <3>2. QED
      BY <1>6, <3>1
  <2>3. g \in FirstOf(newer, entries, Batch) /\ entries[e] <= entries[g]
    BY <1>4, <1>8, <2>2
  <2>4. e \in newer
    BY <1>8, <2>1 DEF newer
  <2>5. e \in FirstOf(newer, entries, Batch)
    BY <1>5, <2>3, <2>4, FirstOfPrefix
  <2>6. QED
    BY <1>4, <2>5
<1>9. ReplySound(d)'
  <2>1. reply'[d].events = page /\ reply'[d].next_offset = n
    BY <1>1, <1>3
  <2>2. \A e \in DOMAIN page : e \in DOMAIN entries /\ entries[e] = page[e]
    BY <1>4 DEF newer
  <2>3. QED
    BY <1>2, <1>7, <1>8, <2>1, <2>2 DEF ReplySound
<1>10. \A c \in Devices \ {d} : ReplySound(c)'
  BY <1>1, <1>2, <1>3 DEF IInv, InFlightSound, ReplySound
<1>11. InFlightSound'
  BY <1>2, <1>9, <1>10 DEF IInv, InFlightSound, CallsOwn, BatchesSound
<1>12. (OffsetsDense /\ StampAgrees /\ CursorComplete)'
  BY <1>2 DEF IInv, OffsetsDense, StampAgrees, CursorComplete, Contents
<1>13. QED
  BY <1>11, <1>12 DEF IInv

\* Folding a page into the log keeps positions dense, stamps true and the log
\* complete up to the new cursor.
LEMMA ReceivePageStep ==
  ASSUME IInv, TypeOK', NEW d \in Devices, NEW t \in Tasks, ReceivePage(d, t)
  PROVE  IInv'
<1> DEFINE page == reply[d].events
           new == DOMAIN page \ Contents(d)
           l == PushAll(log[d], new, page, NextPosition(d))
           s == [e \in Contents(d) \cup new |-> IF e \in new THEN page[e] ELSE stamp[d][e]]
<1>1. /\ log' = [log EXCEPT ![d] = l]
      /\ stamp' = [stamp EXCEPT ![d] = s]
      /\ pulled' = [pulled EXCEPT ![d] = reply[d].next_offset]
      /\ reply' = [reply EXCEPT ![d] = NoReply]
      /\ UNCHANGED <<call, entries, next_server_offset, handlers>>
  BY DEF ReceivePage, Touched, AppendReplicated, PushEntries, ConsumeReply
<1>2. DOMAIN log = Devices /\ DOMAIN stamp = Devices /\ DOMAIN reply = Devices /\ DOMAIN pulled = Devices
  BY DEF IInv, TypeOK, DeviceTypeOK, ServerTypeOK, SyncTypeOK
<1>3. ReplySound(d) /\ IsLog(page) /\ IsLog(log[d]) /\ Dense(log[d]) /\ Dense(entries)
  BY DEF IInv, TypeOK, DeviceTypeOK, ServerTypeOK, InFlightSound, OffsetsDense
<1>4. \A e \in DOMAIN page : e \in DOMAIN entries /\ page[e] = entries[e] /\ page[e] # 0
  BY <1>3, Numbers DEF ReplySound
<1>5. Dense(l) /\ DOMAIN l = Contents(d) \cup new
  <2>1. new \subseteq Event /\ new \cap DOMAIN log[d] = {} /\ \A f \in new : page[f] \in Nat
    BY <1>3 DEF IsLog, Contents
  <2>2. \A f, g \in new : page[f] = page[g] => f = g
    BY <1>3, <1>4 DEF Dense
  <2>3. NextPosition(d) = Cardinality(DOMAIN log[d]) + 1 /\ NextPosition(d) \in Nat
    BY <1>3, EventsFinite DEF NextPosition, Contents, IsLog
  <2>4. QED
    BY <1>3, <2>1, <2>2, <2>3, PushAllDense, PushAllIsLog DEF Contents
<1>6. \A c \in Devices : Contents(c)' = IF c = d THEN Contents(d) \cup new ELSE Contents(c)
  BY <1>1, <1>2, <1>5 DEF Contents
<1>7. OffsetsDense'
  BY <1>1, <1>2, <1>5 DEF IInv, OffsetsDense
<1>8. InFlightSound'
  <2>1. ReplySound(d)'
    BY <1>1, <1>2, NoReplySound
  <2>2. \A c \in Devices \ {d} : ReplySound(c)'
    BY <1>1, <1>2 DEF IInv, InFlightSound, ReplySound
  <2>3. QED
    BY <1>1, <2>1, <2>2 DEF IInv, InFlightSound, CallsOwn, BatchesSound
<1> HIDE DEF l
<1>9. StampAgrees'
  <2> SUFFICES ASSUME NEW c \in Devices, NEW e \in Contents(c)'
               PROVE  (IF stamp[c][e] = 0 THEN e.replica_id = c
                       ELSE e \in DOMAIN entries /\ entries[e] = stamp[c][e])'
    BY DEF StampAgrees
  <2>1. CASE c = d /\ e \in new
    <3>1. stamp'[c][e] = page[e]
      BY <1>1, <1>2, <2>1
    <3>2. QED
      BY <1>1, <1>4, <2>1, <3>1
  <2>2. CASE ~(c = d /\ e \in new)
    <3>1. e \in Contents(c) /\ stamp'[c][e] = stamp[c][e]
      BY <1>1, <1>2, <1>6, <2>2
    <3>2. QED
      BY <1>1, <3>1 DEF IInv, StampAgrees
  <2>3. QED
    BY <2>1, <2>2
<1>10. CursorComplete'
  <2> SUFFICES ASSUME NEW c \in Devices
               PROVE  /\ pulled'[c] < next_server_offset
                      /\ \A e \in DOMAIN entries : entries[e] <= pulled'[c] => e \in Contents(c)'
    BY <1>1 DEF CursorComplete, Contents
  <2>1. /\ pulled[c] < next_server_offset
        /\ \A e \in DOMAIN entries : entries[e] <= pulled[c] => e \in Contents(c)
    BY DEF IInv, CursorComplete
  <2>2. CASE c = d
    <3>1. pulled'[c] = reply[d].next_offset
      BY <1>1, <1>2, <2>2
    <3>2. ASSUME NEW e \in DOMAIN entries, entries[e] <= reply[d].next_offset
          PROVE  e \in Contents(d) \cup new
      <4>1. CASE entries[e] <= pulled[d]
        BY <2>1, <2>2, <4>1
      <4>2. CASE pulled[d] < entries[e]
        BY <1>3, <3>2, <4>2 DEF ReplySound
      <4>3. QED
        BY <4>1, <4>2, Numbers
    <3>3. QED
      BY <1>3, <1>6, <2>2, <3>1, <3>2 DEF ReplySound
  <2>3. CASE c # d
    BY <1>1, <1>2, <1>6, <2>1, <2>3
  <2>4. QED
    BY <2>2, <2>3
<1>11. QED
  BY <1>7, <1>8, <1>9, <1>10 DEF IInv

\* The end of a pull and a failed exchange leave no response behind; a failed one
\* only takes the client away from its handler.
LEMMA RoundEndStep ==
  ASSUME IInv, TypeOK', NEW d \in Devices, NEW t \in Tasks,
         ReceiveLastPage(d, t) \/ RoundFails(d, t)
  PROVE  IInv'
<1>1. /\ reply' = [reply EXCEPT ![d] = NoReply]
      /\ UNCHANGED <<log, stamp, call, entries, next_server_offset, pulled>>
  BY DEF ReceiveLastPage, RoundFails, LeaveRound, ConsumeReply, LoseConnection, UnlockLog
<1>2. DOMAIN reply = Devices
  BY DEF IInv, TypeOK, ServerTypeOK
<1>3. BatchesSound'
  <2>1. CASE ReceiveLastPage(d, t)
    BY <2>1 DEF ReceiveLastPage, ConsumeReply, IInv, InFlightSound, BatchesSound
  <2>2. CASE RoundFails(d, t)
    BY <1>1, <2>2, LostHandlersSound DEF RoundFails, LeaveRound
  <2>3. QED
    BY <2>1, <2>2
<1>4. ReplySound(d)'
  BY <1>1, <1>2, NoReplySound
<1>5. \A c \in Devices \ {d} : ReplySound(c)'
  BY <1>1, <1>2 DEF IInv, InFlightSound, ReplySound
<1>6. InFlightSound'
  BY <1>1, <1>3, <1>4, <1>5 DEF IInv, InFlightSound, CallsOwn
<1>7. (OffsetsDense /\ StampAgrees /\ CursorComplete)'
  BY <1>1 DEF IInv, OffsetsDense, StampAgrees, CursorComplete, Contents
<1>8. QED
  BY <1>6, <1>7 DEF IInv

\* A service call authors an event of its own device; it ends without touching a log.
LEMMA CallStep ==
  ASSUME IInv, TypeOK', NEW d \in Devices, ServiceCall(d) \/ FinishCall(d)
  PROVE  IInv'
<1>1. UNCHANGED <<log, stamp, entries, next_server_offset, handlers, reply, pulled>>
  BY DEF ServiceCall, CreateItem, ChangeItem, BeginCall, FinishCall, BuildCallRow, CanBuild, BuildProjection, serverVars, syncVars
<1>2. DOMAIN call = Devices
  BY DEF IInv, TypeOK, DeviceTypeOK
<1>3. CallsOwn'
  <2>1. CASE ServiceCall(d)
    <3>1. PICK id \in EventIds, x \in Items, p \in Payloads : BeginCall(d, id, x, p)
      BY <2>1 DEF ServiceCall, CreateItem, ChangeItem, Payloads
    <3>2. call'[d].event.replica_id = d /\ \A c \in Devices \ {d} : call'[c] = call[c]
      BY <1>2, <3>1 DEF BeginCall
    <3>3. QED
      BY <3>2 DEF IInv, InFlightSound, CallsOwn
  <2>2. CASE FinishCall(d)
    BY <1>2, <2>2 DEF FinishCall, BuildCallRow, CanBuild, BuildProjection, IInv, InFlightSound, CallsOwn
  <2>3. QED
    BY <2>1, <2>2
<1>4. InFlightSound'
  BY <1>1, <1>3 DEF IInv, InFlightSound, BatchesSound, ReplySound
<1>5. (OffsetsDense /\ StampAgrees /\ CursorComplete)'
  BY <1>1 DEF IInv, OffsetsDense, StampAgrees, CursorComplete, Contents
<1>6. QED
  BY <1>4, <1>5 DEF IInv

\* The local append keeps positions dense, and the new entry is its device's own.
LEMMA StoreCallStep ==
  ASSUME IInv, TypeOK', NEW d \in Devices, StoreCall(d)
  PROVE  IInv'
<1> DEFINE zero == [e \in {call[d].event} |-> 0]
           new == DOMAIN zero \ Contents(d)
           l == PushAll(log[d], new, zero, NextPosition(d))
           s == [e \in Contents(d) \cup new |-> IF e \in new THEN zero[e] ELSE stamp[d][e]]
<1>1. /\ log' = [log EXCEPT ![d] = l]
      /\ stamp' = [stamp EXCEPT ![d] = s]
      /\ call' = [call EXCEPT ![d].st = "build"]
      /\ call[d] # NoCall
      /\ UNCHANGED <<entries, next_server_offset, handlers, reply, pulled>>
  BY DEF StoreCall, AppendLocal, PushEntries, serverVars, syncVars
<1>2. DOMAIN log = Devices /\ DOMAIN stamp = Devices /\ call \in [Devices -> Call \cup {NoCall}]
  BY DEF IInv, TypeOK, DeviceTypeOK
<1>3. IsLog(log[d]) /\ Dense(log[d])
  BY DEF IInv, TypeOK, DeviceTypeOK, OffsetsDense
<1>4. call[d] \in Call /\ call[d].event \in Event /\ call[d].event.replica_id = d
  BY <1>1, <1>2 DEF Call, IInv, InFlightSound, CallsOwn
<1>5. Dense(l) /\ DOMAIN l = Contents(d) \cup new
  <2>1. new \subseteq Event /\ new \cap DOMAIN log[d] = {} /\ \A f \in new : zero[f] \in Nat
    BY <1>4 DEF Contents
  <2>2. \A f, g \in new : zero[f] = zero[g] => f = g
    OBVIOUS
  <2>3. NextPosition(d) = Cardinality(DOMAIN log[d]) + 1 /\ NextPosition(d) \in Nat
    BY <1>3, EventsFinite DEF NextPosition, Contents, IsLog
  <2> HIDE DEF zero
  <2>4. QED
    BY <1>3, <2>1, <2>2, <2>3, PushAllDense, PushAllIsLog DEF Contents
<1>6. \A c \in Devices : Contents(c)' = IF c = d THEN Contents(d) \cup new ELSE Contents(c)
  BY <1>1, <1>2, <1>5 DEF Contents
<1>7. OffsetsDense'
  BY <1>1, <1>2, <1>5 DEF IInv, OffsetsDense
<1>8. InFlightSound'
  <2>1. \A c \in Devices : call'[c] # NoCall => call[c] # NoCall /\ call'[c].event = call[c].event
    <3>1. call'[d].event = call[d].event
      BY <1>1, <1>2, <1>4 DEF Call
    <3>2. \A c \in Devices \ {d} : call'[c] = call[c]
      BY <1>1, <1>2
    <3>3. QED
      BY <1>1, <3>1, <3>2
  <2>2. CallsOwn'
    BY <2>1 DEF IInv, InFlightSound, CallsOwn
  <2>3. QED
    BY <1>1, <2>2 DEF IInv, InFlightSound, BatchesSound, ReplySound
<1> HIDE DEF l
<1>9. StampAgrees'
  <2> SUFFICES ASSUME NEW c \in Devices, NEW e \in Contents(c)'
               PROVE  (IF stamp[c][e] = 0 THEN e.replica_id = c
                       ELSE e \in DOMAIN entries /\ entries[e] = stamp[c][e])'
    BY DEF StampAgrees
  <2>1. CASE c = d /\ e \in new
    <3>1. stamp'[c][e] = 0 /\ e.replica_id = c
      BY <1>1, <1>2, <1>4, <2>1
    <3>2. QED
      BY <3>1
  <2>2. CASE ~(c = d /\ e \in new)
    <3>1. e \in Contents(c) /\ stamp'[c][e] = stamp[c][e]
      BY <1>1, <1>2, <1>6, <2>2
    <3>2. QED
      BY <1>1, <3>1 DEF IInv, StampAgrees
  <2>3. QED
    BY <2>1, <2>2
<1>10. CursorComplete'
  <2>1. \A c \in Devices : Contents(c) \subseteq Contents(c)'
    BY <1>6
  <2>2. QED
    BY <1>1, <2>1 DEF IInv, CursorComplete
<1>11. QED
  BY <1>7, <1>8, <1>9, <1>10 DEF IInv

\* A restarted device has an empty log and no cursor: nothing is claimed of it.
LEMMA RestartStep ==
  ASSUME IInv, TypeOK', NEW d \in Devices, Restart(d)
  PROVE  IInv'
<1>1. /\ log' = [log EXCEPT ![d] = EmptyLog]
      /\ stamp' = [stamp EXCEPT ![d] = EmptyLog]
      /\ call' = [call EXCEPT ![d] = NoCall]
      /\ pulled' = [pulled EXCEPT ![d] = 0]
      /\ reply' = [reply EXCEPT ![d] = NoReply]
      /\ LoseConnection(d)
      /\ UNCHANGED <<entries, next_server_offset>>
  BY DEF Restart, LoseMemory, LoseConnection
<1>2. DOMAIN log = Devices /\ DOMAIN stamp = Devices /\ DOMAIN call = Devices
      /\ DOMAIN pulled = Devices /\ DOMAIN reply = Devices
  BY DEF IInv, TypeOK, DeviceTypeOK, ServerTypeOK, SyncTypeOK
<1>3. DOMAIN EmptyLog = {} /\ Dense(EmptyLog)
  BY DEF EmptyLog, Dense
<1>4. OffsetsDense'
  BY <1>1, <1>2, <1>3 DEF IInv, OffsetsDense
<1>5. InFlightSound'
  <2>1. CallsOwn'
    BY <1>1, <1>2 DEF IInv, InFlightSound, CallsOwn
  <2>2. BatchesSound'
    BY <1>1, LostHandlersSound
  <2>3. ReplySound(d)'
    BY <1>1, <1>2, NoReplySound
  <2>4. \A c \in Devices \ {d} : ReplySound(c)'
    BY <1>1, <1>2 DEF IInv, InFlightSound, ReplySound
  <2>5. QED
    BY <2>1, <2>2, <2>3, <2>4 DEF InFlightSound
<1>6. StampAgrees'
  BY <1>1, <1>2, <1>3 DEF IInv, StampAgrees, Contents
<1>7. CursorComplete'
  <2> SUFFICES ASSUME NEW c \in Devices
               PROVE  /\ pulled'[c] < next_server_offset
                      /\ \A e \in DOMAIN entries : entries[e] <= pulled'[c] => e \in Contents(c)'
    BY <1>1 DEF CursorComplete, Contents
  <2>1. CASE c = d
    BY <1>1, <1>2, <2>1, Numbers
  <2>2. CASE c # d
    BY <1>1, <1>2, <2>2 DEF IInv, CursorComplete, Contents
  <2>3. QED
    BY <2>1, <2>2
<1>8. QED
  BY <1>4, <1>5, <1>6, <1>7 DEF IInv

\* Storing a batch gives the new events the next offsets: the stream stays dense,
\* and whatever a device or a response recorded of it stays true, because the new
\* offsets lie past every cursor and every page.
LEMMA AppendEventsStep ==
  ASSUME IInv, TypeOK', NEW h \in handlers, AppendEvents(h), UNCHANGED <<deviceVars, syncVars>>
  PROVE  IInv'
<1> DEFINE new == DOMAIN h.events \ DOMAIN entries
           stream == PushAll(entries, new, h.events, next_server_offset)
           g == [h EXCEPT !.st = "stored", !.todo = RowsDue(h)]
<1>1. /\ entries' = stream
      /\ next_server_offset' = next_server_offset + Cardinality(new)
      /\ handlers' = (handlers \ {h}) \cup {g}
      /\ UNCHANGED <<log, stamp, call, reply, pulled>>
  BY DEF AppendEvents, Advance, NewEvents, deviceVars, syncVars
<1>2. /\ IsHandler(h) /\ IsLog(h.events) /\ IsLog(entries)
      /\ Dense(entries) /\ next_server_offset = Cardinality(DOMAIN entries) + 1
      /\ next_server_offset \in Nat
  BY DEF IInv, TypeOK, ServerTypeOK, IsHandler, OffsetsDense
<1>3. new \subseteq Event /\ new \cap DOMAIN entries = {} /\ \A f \in new : h.events[f] \in Nat
  BY <1>2 DEF IsLog
<1>4. \A e, f \in DOMAIN h.events : h.events[e] = h.events[f] => e = f
  BY DEF IInv, InFlightSound, BatchesSound
<1>5. /\ Dense(stream)
      /\ DOMAIN stream = DOMAIN entries \cup new
      /\ Cardinality(DOMAIN stream) = Cardinality(DOMAIN entries) + Cardinality(new)
  <2>1. \A e, f \in new : h.events[e] = h.events[f] => e = f
    BY <1>4
  <2>2. DOMAIN stream = DOMAIN entries \cup new
    BY DEF PushAll
  <2> HIDE DEF new
  <2>3. Dense(stream) /\ Cardinality(DOMAIN entries \cup new) = Cardinality(DOMAIN entries) + Cardinality(new)
    BY <1>2, <1>3, <2>1, PushAllDense
  <2>4. QED
    BY <2>2, <2>3
<1>6. \A e \in DOMAIN entries : stream[e] = entries[e]
  BY DEF PushAll
<1>7. ASSUME NEW e \in new
      PROVE  stream[e] \in Nat /\ next_server_offset <= stream[e]
  <2>1. stream[e] = next_server_offset + Rank(new, h.events, e)
    BY <1>7 DEF PushAll
  <2>2. Rank(new, h.events, e) \in Nat
    BY <1>3, <1>7, RankBound
  <2>3. QED
    BY <1>2, <2>1, <2>2
<1>8. next_server_offset' \in Nat /\ next_server_offset <= next_server_offset'
  <2>1. Cardinality(new) \in Nat
    BY <1>3, EventsFinite
  <2>2. next_server_offset' = next_server_offset + Cardinality(new) /\ next_server_offset \in Nat
    BY <1>1, <1>2
  <2> HIDE DEF new
  <2>3. QED
    BY <2>1, <2>2
<1>9. g.events = h.events
  <2>1. RowsDue(h) \in SUBSET Items
    BY <1>2 DEF RowsDue, IsLog, Event
  <2>2. g = [from |-> h.from, st |-> "stored", todo |-> RowsDue(h), events |-> h.events]
    BY <1>2, <2>1, AdvanceShape
  <2> HIDE DEF g
  <2>3. QED
    BY <2>2
<1> HIDE DEF stream, g
<1>10. OffsetsDense'
  <2>1. next_server_offset' = Cardinality(DOMAIN stream) + 1
    <3>1. Cardinality(DOMAIN entries) \in Nat /\ Cardinality(new) \in Nat
      BY <1>2, <1>3, EventsFinite DEF IsLog
    <3>2. QED
      BY <1>1, <1>2, <1>5, <3>1
  <2>2. QED
    BY <1>1, <1>5, <2>1 DEF IInv, OffsetsDense
<1>11. BatchesSound'
  <2> SUFFICES ASSUME NEW k \in handlers'
               PROVE  /\ \A e, f \in DOMAIN k.events : k.events[e] = k.events[f] => e = f
                      /\ k.st # "received" => DOMAIN k.events \subseteq DOMAIN entries'
    BY DEF BatchesSound
  <2>1. CASE k = g
    BY <1>1, <1>4, <1>5, <1>9, <2>1
  <2>2. CASE k \in handlers
    BY <1>1, <1>5, <2>2 DEF IInv, InFlightSound, BatchesSound
  <2>3. QED
    BY <1>1, <2>1, <2>2
<1>12. ASSUME NEW d \in Devices PROVE ReplySound(d)'
  <2>1. ReplySound(d) /\ pulled[d] < next_server_offset
    BY DEF IInv, InFlightSound, CursorComplete
  <2>2. pulled[d] \in Nat /\ reply[d].next_offset \in Nat
    BY Numbers
  <2>3. \A e \in DOMAIN reply[d].events : e \in DOMAIN stream /\ stream[e] = reply[d].events[e]
    BY <1>5, <1>6, <2>1 DEF ReplySound
  <2>4. ASSUME NEW e \in DOMAIN stream, pulled[d] < stream[e], stream[e] <= reply[d].next_offset
        PROVE  e \in DOMAIN reply[d].events
    <3>1. CASE e \in DOMAIN entries
      BY <1>6, <2>1, <2>4, <3>1 DEF ReplySound
    <3>2. CASE e \in new
      BY <1>2, <1>7, <2>1, <2>2, <2>4, <3>2 DEF ReplySound
    <3>3. QED
      BY <1>5, <3>1, <3>2
  <2>5. reply[d].next_offset < next_server_offset'
    BY <1>2, <1>8, <2>1, <2>2 DEF ReplySound
  <2>6. QED
    BY <1>1, <2>3, <2>4, <2>5 DEF ReplySound
<1>13. InFlightSound'
  BY <1>1, <1>11, <1>12 DEF IInv, InFlightSound, CallsOwn
<1>14. StampAgrees'
  BY <1>1, <1>5, <1>6 DEF IInv, StampAgrees, Contents
<1>15. CursorComplete'
  <2> SUFFICES ASSUME NEW d \in Devices
               PROVE  /\ pulled[d] < next_server_offset'
                      /\ \A e \in DOMAIN stream : stream[e] <= pulled[d] => e \in Contents(d)
    BY <1>1 DEF CursorComplete, Contents
  <2>1. /\ pulled[d] < next_server_offset /\ pulled[d] \in Nat
        /\ \A e \in DOMAIN entries : entries[e] <= pulled[d] => e \in Contents(d)
    BY Numbers DEF IInv, CursorComplete
  <2>2. \A e \in new : ~(stream[e] <= pulled[d])
    BY <1>2, <1>7, <2>1
  <2>3. QED
    BY <1>2, <1>5, <1>6, <1>8, <2>1, <2>2
<1>16. QED
  BY <1>10, <1>13, <1>14, <1>15 DEF IInv

\* The storage mutex and the rows are of no concern to it; a handler keeps its batch.
LEMMA HandlerMovesStep ==
  ASSUME IInv, TypeOK', NEW h \in handlers, UNCHANGED <<deviceVars, syncVars>>,
         LockServerStorage(h) \/ (\E x \in Items : BuildServerRow(h, x)) \/ DropHandler(h)
  PROVE  IInv'
<1>1. UNCHANGED <<log, stamp, call, entries, next_server_offset, reply, pulled>>
  BY DEF LockServerStorage, Advance, BuildServerRow, Advance, DropHandler, deviceVars, syncVars
<1>2. h = [from |-> h.from, st |-> h.st, todo |-> h.todo, events |-> h.events]
  BY DEF IInv, TypeOK, ServerTypeOK, IsHandler
<1>3. PICK g : /\ g.events = h.events
               /\ g.st # "received" => h.st # "received"
               /\ handlers' \subseteq handlers \cup {g}
  <2>1. ASSUME NEW st \in {"stored", "building"}, NEW todo \in SUBSET Items, Advance(h, st, todo),
               h.st # "received"
        PROVE  \E g : /\ g.events = h.events
                      /\ g.st # "received" => h.st # "received"
                      /\ handlers' \subseteq handlers \cup {g}
    <3> DEFINE g == [h EXCEPT !.st = st, !.todo = todo]
    <3>1. g = [from |-> h.from, st |-> st, todo |-> todo, events |-> h.events]
      BY AdvanceShape DEF IInv, TypeOK, ServerTypeOK
    <3>2. handlers' \subseteq handlers \cup {g}
      BY <2>1 DEF Advance
    <3> HIDE DEF g
    <3>3. QED
      BY <2>1, <3>1, <3>2
  <2>2. h.todo \in SUBSET Items /\ h.st \in {"received", "stored", "building"}
    BY DEF IInv, TypeOK, ServerTypeOK, IsHandler
  <2>3. CASE LockServerStorage(h)
    BY <2>1, <2>2, <2>3 DEF LockServerStorage
  <2>4. ASSUME NEW x \in Items, BuildServerRow(h, x)
        PROVE  \E g : /\ g.events = h.events
                      /\ g.st # "received" => h.st # "received"
                      /\ handlers' \subseteq handlers \cup {g}
    BY <2>1, <2>2, <2>4 DEF BuildServerRow
  <2>5. CASE DropHandler(h)
    BY <2>5 DEF DropHandler
  <2>6. QED
    BY <2>3, <2>4, <2>5
<1>4. BatchesSound'
  BY <1>1, <1>3 DEF IInv, InFlightSound, BatchesSound
<1>5. InFlightSound'
  BY <1>1, <1>4 DEF IInv, InFlightSound, CallsOwn, ReplySound
<1>6. (OffsetsDense /\ StampAgrees /\ CursorComplete)'
  BY <1>1 DEF IInv, OffsetsDense, StampAgrees, CursorComplete, Contents
<1>7. QED
  BY <1>5, <1>6 DEF IInv

\* The answer to a POST carries the offsets under which the batch is stored.
LEMMA AnswerPostStep ==
  ASSUME IInv, TypeOK', NEW h \in handlers, AnswerPost(h), UNCHANGED <<deviceVars, syncVars>>
  PROVE  IInv'
<1> DEFINE acked == Restrict(entries, DOMAIN h.events)
<1>1. /\ handlers' \subseteq handlers
      /\ reply' = IF h.from = Gone THEN reply
                  ELSE [reply EXCEPT ![h.from] = [kind |-> "ack", events |-> acked, next_offset |-> 0]]
      /\ UNCHANGED <<log, stamp, call, entries, next_server_offset, pulled>>
  BY DEF AnswerPost, Answer, deviceVars, syncVars
<1>2. DOMAIN reply = Devices
  BY DEF IInv, TypeOK, ServerTypeOK
<1>3. \A e \in DOMAIN acked : e \in DOMAIN entries /\ entries[e] = acked[e]
  BY DEF AnswerPost, Answer, IInv, InFlightSound, BatchesSound, Restrict
<1> HIDE DEF acked
<1>4. ASSUME NEW d \in Devices PROVE ReplySound(d)'
  <2>1. CASE d = h.from /\ h.from # Gone
    <3>1. reply'[d].events = acked /\ reply'[d].next_offset = 0
      BY <1>1, <1>2, <2>1
    <3>2. \A e \in DOMAIN entries : ~(entries[e] <= 0)
      BY Numbers
    <3>3. 0 < next_server_offset
      BY Numbers
    <3>4. QED
      BY <1>1, <1>3, <3>1, <3>2, <3>3 DEF ReplySound
  <2>2. CASE ~(d = h.from /\ h.from # Gone)
    <3>1. reply'[d] = reply[d]
      BY <1>1, <1>2, <2>2
    <3>2. QED
      BY <1>1, <3>1 DEF IInv, InFlightSound, ReplySound
  <2>3. QED
    BY <2>1, <2>2
<1>5. InFlightSound'
  BY <1>1, <1>4 DEF IInv, InFlightSound, CallsOwn, BatchesSound
<1>6. (OffsetsDense /\ StampAgrees /\ CursorComplete)'
  BY <1>1 DEF IInv, OffsetsDense, StampAgrees, CursorComplete, Contents
<1>7. QED
  BY <1>5, <1>6 DEF IInv

\* One lemma per action: every step preserves the inductive invariant.
LEMMA NextIInv ==
  ASSUME IInv, [Next]_vars
  PROVE  IInv'
<1>1. TypeOK'
  BY NextType DEF IInv, InFlightSound, BatchesSound, StoredBatches
<1>2. ASSUME NEW d \in Devices, ServiceCall(d) \/ StoreCall(d) \/ FinishCall(d) \/ Restart(d)
      PROVE  IInv'
  BY <1>1, <1>2, CallStep, StoreCallStep, RestartStep
<1>3. ASSUME NEW d \in Devices, NEW t \in Tasks,
             \/ BeginRound(d, t) \/ RoundStep(d, t) \/ AnswerPull(d, t) \/ RoundFails(d, t) \/ LockStorage(d, t)
             \/ \E x \in Items : RebuildRow(d, t, x)
      PROVE  IInv'
  <2>1. CASE BeginRound(d, t)
    BY <1>1, <2>1, QuietStep DEF BeginRound, LockLog, serverVars
  <2>2. CASE FinishPush(d, t)
    BY <1>1, <2>2, QuietStep DEF FinishPush, deviceVars, serverVars
  <2>3. CASE LockStorage(d, t)
    BY <1>1, <2>3, QuietStep DEF LockStorage, deviceVars, serverVars
  <2>4. ASSUME NEW x \in Items, RebuildRow(d, t, x) PROVE IInv'
    BY <1>1, <2>4, QuietStep DEF RebuildRow, BuildRow, BuildProjection, serverVars
  <2>5. QED
    BY <1>1, <1>3, <2>1, <2>2, <2>3, <2>4, SendPushStep, ReceiveAckStep, AnswerPullStep,
       ReceivePageStep, RoundEndStep DEF RoundStep
<1>4. CASE Serve
  BY <1>1, <1>4, AppendEventsStep, HandlerMovesStep, AnswerPostStep DEF Serve, HandlerStep
<1>5. CASE Cancel
  BY <1>1, <1>5, HandlerMovesStep DEF Cancel
<1>6. CASE UNCHANGED vars
  BY <1>1, <1>6, QuietStep DEF vars
<1>7. QED
  BY <1>2, <1>3, <1>4, <1>5, <1>6 DEF Next

-----------------------------------------------------------------------------
(***************************************************************************)
(* The theorems.                                                           *)
(***************************************************************************)

\* The inductive invariant holds in every reachable state.
THEOREM Invariance == Spec => []IInv
<1>1. Init => IInv
  BY InitIInv
<1>2. IInv /\ [Next]_vars => IInv'
  BY NextIInv
<1>3. QED
  BY <1>1, <1>2, PTL DEF Spec

\* Every state of the system is well formed.
THEOREM TypeCorrect == Spec => []TypeOK
<1>1. IInv => TypeOK
  BY DEF IInv
<1>2. QED
  BY Invariance, <1>1, PTL

\* The server's stream and the device logs never have a gap or a duplicate, however
\* many batches are retried or stored concurrently (ServerEventLog::append).
THEOREM StreamDense == Spec => []OffsetsDense
<1>1. IInv => OffsetsDense
  BY DEF IInv
<1>2. QED
  BY Invariance, <1>1, PTL

\* What a device regards as synced is on the server, under the offset it recorded
\* (mark_synced, append); what it regards as unsynced is its own.
THEOREM StampsTrue == Spec => []StampAgrees
<1>1. IInv => StampAgrees
  BY DEF IInv
<1>2. QED
  BY Invariance, <1>1, PTL

\* No pull cursor ever passes an event that its device lacks (pull).
THEOREM NothingSkipped == Spec => []CursorComplete
<1>1. IInv => CursorComplete
  BY DEF IInv
<1>2. QED
  BY Invariance, <1>1, PTL

\* Responses and batches under way stay true until they arrive.
THEOREM InFlightTrue == Spec => []InFlightSound
<1>1. IInv => InFlightSound
  BY DEF IInv
<1>2. QED
  BY Invariance, <1>1, PTL

\* Only ServerEventLog::append writes the stream.
LEMMA StreamWrites ==
  ASSUME [Next]_vars, ~UNCHANGED entries
  PROVE  Serve /\ \E h \in handlers : AppendEvents(h)
<1>1. Serve => \E h \in handlers : AppendEvents(h)
  BY DEF Serve, HandlerStep, LockServerStorage, Advance, BuildServerRow, AnswerPost, Answer
<1>2. ASSUME NEW d \in Devices, ServiceCall(d) \/ StoreCall(d) \/ FinishCall(d) \/ Restart(d)
      PROVE  UNCHANGED entries
  BY <1>2 DEF ServiceCall, StoreCall, FinishCall, Restart, LoseConnection, serverVars
<1>3. ASSUME NEW d \in Devices, NEW t \in Tasks,
             \/ BeginRound(d, t) \/ RoundStep(d, t) \/ AnswerPull(d, t) \/ RoundFails(d, t) \/ LockStorage(d, t)
             \/ \E x \in Items : RebuildRow(d, t, x)
      PROVE  UNCHANGED entries
  BY <1>3 DEF BeginRound, RoundStep, SendPush, PostEvents, ReceiveAck, ConsumeReply, FinishPush,
              AnswerPull, GetEvents, ReceivePage, Touched, ReceiveLastPage, RoundFails, LeaveRound, LoseConnection,
              LockStorage, RebuildRow, serverVars
<1>4. CASE Cancel
  BY <1>4 DEF Cancel, DropHandler
<1>5. QED
  BY <1>1, <1>2, <1>3, <1>4 DEF Next, vars

\* A step keeps what the stream holds.
LEMMA StreamStep ==
  ASSUME [Next]_vars
  PROVE  \A e \in DOMAIN entries : e \in DOMAIN entries' /\ entries'[e] = entries[e]
<1>1. ASSUME NEW h \in handlers, AppendEvents(h)
      PROVE  \A e \in DOMAIN entries : e \in DOMAIN entries' /\ entries'[e] = entries[e]
  BY <1>1 DEF AppendEvents, PushAll
<1>2. QED
  BY <1>1, StreamWrites

\* The server never loses, reassigns or reorders what it has stored.
THEOREM StreamGrows == Spec => StreamIsAppendOnly
<1> DEFINE Kept == \A e \in DOMAIN entries : e \in DOMAIN entries' /\ entries'[e] = entries[e]
<1>1. [Next]_vars => [Kept]_vars
  BY StreamStep
<1>2. QED
  BY <1>1, PTL DEF Spec, StreamIsAppendOnly
=============================================================================
