---------------------------- MODULE Ordering_proofs ----------------------------
(* CreatedFirst: no reader of a prefix of the stream, or of a device's log, finds *)
(* an event of an item whose creation it has not met, for every value of the      *)
(* constants.                                                                     *)
EXTENDS Rows_proofs

\* c is the creation of e's item.
Creates(c, e) == c.payload = "Created" /\ c.entity_id = e.entity_id

\* In a log every event comes with the creation of its item, which is not behind it.
Ordered(l) == \A e \in DOMAIN l : \E c \in DOMAIN l : Creates(c, e) /\ l[c] <= l[e]

\* CreatedFirst in these words.
LEMMA CreatedFirstIsOrdered == CreatedFirst <=> Ordered(entries) /\ \A d \in Devices : Ordered(log[d])
BY DEF CreatedFirst, Ordered, Creates, EventsOfEntity

\* Pushing new events at the end of an ordered log leaves it ordered, when each comes
\* after its item's creation in the log or in the batch.
LEMMA PushAllOrdered ==
  ASSUME NEW l, IsLog(l), Ordered(l),
         NEW new, new \subseteq Event, new \cap DOMAIN l = {},
         NEW order, \A f \in new : order[f] \in Nat,
         NEW first \in Nat, \A f \in DOMAIN l : l[f] < first,
         \A e \in new : \E c \in DOMAIN l \cup new :
           Creates(c, e) /\ (c \in DOMAIN l \/ order[c] <= order[e])
  PROVE  Ordered(PushAll(l, new, order, first))
<1> DEFINE m == PushAll(l, new, order, first)
<1>1. DOMAIN m = DOMAIN l \cup new
  BY DEF PushAll
<1>2. \A e \in DOMAIN l : m[e] = l[e] /\ l[e] \in Nat
  BY DEF PushAll, IsLog
<1>3. ASSUME NEW e \in new PROVE m[e] = first + Rank(new, order, e) /\ Rank(new, order, e) \in Nat
  BY <1>3, RankBound DEF PushAll
<1> HIDE DEF m
<1>4. ASSUME NEW e \in DOMAIN l PROVE \E c \in DOMAIN m : Creates(c, e) /\ m[c] <= m[e]
  BY <1>1, <1>2, <1>4 DEF Ordered
<1>5. ASSUME NEW e \in new PROVE \E c \in DOMAIN m : Creates(c, e) /\ m[c] <= m[e]
  <2>1. PICK c \in DOMAIN l \cup new : Creates(c, e) /\ (c \in DOMAIN l \/ order[c] <= order[e])
    BY <1>5
  <2>2. CASE c \in DOMAIN l
    <3>1. m[c] < first /\ m[c] \in Nat
      BY <1>2, <2>2
    <3>2. m[c] <= m[e]
      BY <1>3, <1>5, <3>1
    <3>3. QED
      BY <1>1, <2>1, <3>2
  <2>3. CASE c \notin DOMAIN l
    <3>1. c \in new /\ order[c] <= order[e]
      BY <2>1, <2>3
    <3>2. Rank(new, order, c) <= Rank(new, order, e)
      BY <1>5, <3>1, RankWeaklyMonotone
    <3>3. m[c] <= m[e]
      BY <1>3, <1>5, <3>1, <3>2
    <3>4. QED
      BY <1>1, <2>1, <3>3
  <2>4. QED
    BY <2>2, <2>3
<1>6. QED
  BY <1>1, <1>4, <1>5 DEF Ordered, m

-----------------------------------------------------------------------------
(***************************************************************************)
(* The inductive invariant.  A batch is a piece of a device's log that     *)
(* leaves out what is synced, so the creations it lacks are stored; a page *)
(* is a piece of the stream, and what it leaves out lies at or before the  *)
(* cursor; an item that a user changes has a row, and so events in the log.*)
(***************************************************************************)

\* Every event of a batch comes after its item's creation, there or on the server.
GroundedBatch(batch) ==
  \A e \in DOMAIN batch : \E c \in DOMAIN entries \cup DOMAIN batch :
    Creates(c, e) /\ (c \in DOMAIN entries \/ batch[c] <= batch[e])

\* A call changes an item that was created on its device or reached it.
GroundedCall(d) ==
  call[d] # NoCall =>
    call[d].event.payload = "Created" \/ \E c \in Contents(d) : Creates(c, call[d].event)

OInv ==
  /\ Ordered(entries)
  /\ \A h \in handlers : GroundedBatch(h.events)
  /\ \A d \in Devices : Ordered(log[d]) /\ GroundedCall(d)

\* Initially there are no events.
LEMMA InitOInv == Init => OInv
BY DEF Init, DeviceInit, ServerInit, OInv, Ordered, GroundedCall, EmptyLog

\* A batch stays grounded while the stream grows.
LEMMA BatchStaysGrounded ==
  ASSUME NEW batch, GroundedBatch(batch), DOMAIN entries \subseteq DOMAIN entries'
  PROVE  GroundedBatch(batch)'
BY DEF GroundedBatch

\* A step that leaves the logs and calls alone, and adds no batch.
LEMMA QuietOStep ==
  ASSUME OInv, UNCHANGED <<log, call, entries>>,
         \A h \in handlers' : \E g \in handlers : h.events = g.events
  PROVE  OInv'
<1>1. \A h \in handlers' : GroundedBatch(h.events)'
  BY DEF OInv, GroundedBatch
<1>2. QED
  BY <1>1 DEF OInv, Ordered, GroundedCall, Contents

\* A change is made to an item with a row, whose events the log holds.
LEMMA ServiceCallOStep ==
  ASSUME IInv, RowsSound, OInv, NEW d \in Devices, ServiceCall(d)
  PROVE  OInv'
<1>1. UNCHANGED <<log, entries, handlers>>
  BY DEF ServiceCall, CreateItem, ChangeItem, BeginCall, serverVars
<1>2. call \in [Devices -> Call \cup {NoCall}]
  BY DEF IInv, TypeOK, DeviceTypeOK
<1>3. PICK id \in EventIds, x \in Items :
        CreateItem(d, id, x) \/ \E p \in Payloads : ChangeItem(d, id, x, p)
  BY DEF ServiceCall
<1>4. CASE CreateItem(d, id, x)
  <2>1. call'[d].event.payload = "Created" /\ \A c \in Devices \ {d} : call'[c] = call[c]
    BY <1>2, <1>4 DEF CreateItem, BeginCall
  <2>2. QED
    BY <1>1, <2>1 DEF OInv, Ordered, GroundedBatch, GroundedCall, Contents
<1>5. ASSUME NEW p \in Payloads, ChangeItem(d, id, x, p)
      PROVE  OInv'
  <2>1. call'[d].event.entity_id = x /\ \A c \in Devices \ {d} : call'[c] = call[c]
    BY <1>2, <1>5 DEF ChangeItem, BeginCall
  <2>2. PICK f \in Contents(d) : f.entity_id = x
    BY <1>5 DEF ChangeItem, RowsSound, EventsOfEntity
  <2>3. PICK c \in Contents(d) : Creates(c, f)
    BY <2>2 DEF OInv, Ordered, Contents
  <2>4. Creates(c, call'[d].event)
    BY <2>1, <2>2, <2>3 DEF Creates
  <2>5. QED
    BY <1>1, <2>1, <2>3, <2>4 DEF OInv, Ordered, GroundedBatch, GroundedCall, Contents
<1>6. QED
  BY <1>3, <1>4, <1>5

\* A call that returns, and a device that starts over, claim nothing.
LEMMA CallEndsOStep ==
  ASSUME IInv, OInv, NEW d \in Devices, FinishCall(d) \/ Restart(d)
  PROVE  OInv'
<1>1. DOMAIN call = Devices /\ DOMAIN log = Devices
  BY DEF IInv, TypeOK, DeviceTypeOK
<1>2. UNCHANGED entries /\ call' = [call EXCEPT ![d] = NoCall]
      /\ (UNCHANGED log \/ log' = [log EXCEPT ![d] = EmptyLog])
  BY DEF FinishCall, BuildCallRow, Restart, LoseMemory, LoseConnection, serverVars
<1>3. \A h \in handlers' : \E g \in handlers : h.events = g.events
  BY HandlerBatches DEF IInv, FinishCall, Restart, serverVars
<1>4. \A h \in handlers' : GroundedBatch(h.events)'
  BY <1>2, <1>3 DEF OInv, GroundedBatch
<1>5. call'[d] = NoCall /\ (log'[d] = log[d] \/ log'[d] = EmptyLog)
      /\ \A c \in Devices \ {d} : call'[c] = call[c] /\ log'[c] = log[c]
  BY <1>1, <1>2
<1>6. Ordered(EmptyLog)
  BY DEF Ordered, EmptyLog
<1>7. \A c \in Devices : Ordered(log'[c])
  BY <1>5, <1>6 DEF OInv
<1>8. \A c \in Devices : GroundedCall(c)'
  BY <1>5 DEF OInv, GroundedCall, Contents
<1>9. QED
  BY <1>2, <1>4, <1>7, <1>8 DEF OInv, Ordered

\* The event of a call goes to the end of the log, behind its item's creation.
LEMMA StoreCallOStep ==
  ASSUME IInv, OInv, NEW d \in Devices, StoreCall(d)
  PROVE  OInv'
<1> DEFINE zero == [e \in {call[d].event} |-> 0]
           new == DOMAIN zero \ Contents(d)
           l == PushAll(log[d], new, zero, NextPosition(d))
<1>1. log' = [log EXCEPT ![d] = l]
  BY DEF StoreCall, AppendLocal, PushEntries
<1>2. DOMAIN log = Devices /\ IsLog(log[d]) /\ Dense(log[d])
  BY DEF IInv, TypeOK, DeviceTypeOK, OffsetsDense
<1>3. /\ call[d] # NoCall /\ call[d].event \in Event
      /\ \A c \in Devices : Contents(c) \subseteq Contents(c)'
      /\ call'[d].event = call[d].event
      /\ \A c \in Devices \ {d} : call'[c] = call[c]
      /\ UNCHANGED <<entries, handlers>>
  BY StoreCallEffect
<1>4. Ordered(l)
  <2>1. Ordered(log[d])
    BY DEF OInv
  <2>2. new \subseteq Event /\ new \cap DOMAIN log[d] = {} /\ \A f \in new : zero[f] \in Nat
    BY <1>3 DEF Contents
  <2>3. NextPosition(d) \in Nat /\ \A f \in DOMAIN log[d] : log[d][f] < NextPosition(d)
    <3>1. Cardinality(Contents(d)) \in Nat
      BY <1>2, EventsFinite DEF IsLog, Contents
    <3>2. \A f \in DOMAIN log[d] : log[d][f] \in 1 .. Cardinality(Contents(d))
      BY <1>2 DEF Dense, Contents
    <3>3. QED
      BY <3>1, <3>2 DEF NextPosition
  <2>4. ASSUME NEW e \in new
        PROVE  \E c \in DOMAIN log[d] \cup new : Creates(c, e) /\ (c \in DOMAIN log[d] \/ zero[c] <= zero[e])
    <3>1. e = call[d].event
      OBVIOUS
    <3>2. CASE e.payload = "Created"
      <4>1. Creates(e, e) /\ zero[e] <= zero[e]
        BY <3>2 DEF Creates
      <4>2. QED
        BY <4>1
    <3>3. CASE e.payload # "Created"
      BY <1>3, <3>1, <3>3 DEF OInv, GroundedCall, Contents
    <3>4. QED
      BY <3>2, <3>3
  <2> HIDE DEF zero, new
  <2>5. QED
    BY <1>2, <2>1, <2>2, <2>3, <2>4, PushAllOrdered
<1> HIDE DEF l
<1>5. \A c \in Devices : Ordered(log'[c])
  BY <1>1, <1>2, <1>4 DEF OInv
<1>6. \A c \in Devices : GroundedCall(c)'
  <2>1. \A c \in Devices \ {d} : GroundedCall(c)'
    BY <1>3 DEF OInv, GroundedCall
  <2>2. GroundedCall(d)'
    BY <1>3 DEF OInv, GroundedCall
  <2>3. QED
    BY <2>1, <2>2
<1>7. QED
  BY <1>3, <1>5, <1>6 DEF OInv, Ordered, GroundedBatch

\* A batch is what a prefix of the log holds as unsynced; the creations before it that
\* it lacks are synced, so they are stored.
LEMMA SendPushOStep ==
  ASSUME IInv, OInv, NEW d \in Devices, NEW t \in Tasks, SendPush(d, t)
  PROVE  OInv'
<1> DEFINE batch == GetUnsynced(d, Batch)
           a == [from |-> d, st |-> "received", todo |-> {}, events |-> batch]
<1>1. handlers' = handlers \cup {a} /\ UNCHANGED <<log, call, entries>>
  BY DEF SendPush, PostEvents, deviceVars
<1>2. DOMAIN batch = FirstOf(Unsynced(d), log[d], Batch) /\ \A e \in DOMAIN batch : batch[e] = log[d][e]
  BY DEF GetUnsynced, Restrict, FirstOf, Unsynced, Contents
<1>3. IsLog(log[d]) /\ Batch \in Nat
  BY BatchPositive DEF IInv, TypeOK, DeviceTypeOK
<1>4. Unsynced(d) \subseteq Contents(d) /\ Unsynced(d) \subseteq Event /\ \A f \in Unsynced(d) : log[d][f] \in Nat
  BY <1>3 DEF Unsynced, Contents, IsLog
<1> HIDE DEF batch
<1>5. GroundedBatch(batch)
  <2> SUFFICES ASSUME NEW e \in DOMAIN batch
               PROVE  \E c \in DOMAIN entries \cup DOMAIN batch :
                        Creates(c, e) /\ (c \in DOMAIN entries \/ batch[c] <= batch[e])
    BY DEF GroundedBatch
  <2>1. e \in FirstOf(Unsynced(d), log[d], Batch) /\ e \in DOMAIN log[d]
    BY <1>2, <1>4 DEF FirstOf, Contents
  <2>2. PICK c \in DOMAIN log[d] : Creates(c, e) /\ log[d][c] <= log[d][e]
    BY <2>1 DEF OInv, Ordered
  <2>3. CASE stamp[d][c] # 0
    BY <2>2, <2>3 DEF IInv, StampAgrees, Contents
  <2>4. CASE stamp[d][c] = 0
    <3>1. c \in Unsynced(d)
      BY <2>4 DEF IInv, StampAgrees, Unsynced, Contents
    <3>2. c \in FirstOf(Unsynced(d), log[d], Batch)
      BY <1>3, <1>4, <2>1, <2>2, <3>1, FirstOfPrefix
    <3>3. QED
      BY <1>2, <2>2, <3>2
  <2>5. QED
    BY <2>3, <2>4
<1>6. \A h \in handlers' : GroundedBatch(h.events)
  BY <1>1, <1>5 DEF OInv
<1>7. QED
  BY <1>1, <1>6 DEF OInv, Ordered, GroundedBatch, GroundedCall, Contents

\* A page is ordered as the stream is; a creation it leaves out was in an earlier page.
LEMMA ReceivePageOStep ==
  ASSUME IInv, RInv, OInv, NEW d \in Devices, NEW t \in Tasks, ReceivePage(d, t)
  PROVE  OInv'
<1> DEFINE page == reply[d].events
           new == DOMAIN page \ Contents(d)
           l == PushAll(log[d], new, page, NextPosition(d))
<1>1. log' = [log EXCEPT ![d] = l] /\ UNCHANGED <<call, entries, handlers>>
  BY DEF ReceivePage, AppendReplicated, PushEntries, ConsumeReply
<1>2. DOMAIN log = Devices /\ IsLog(log[d]) /\ Dense(log[d]) /\ IsLog(page) /\ ReplySound(d)
  BY DEF IInv, TypeOK, DeviceTypeOK, ServerTypeOK, OffsetsDense, InFlightSound
<1>3. \A e \in DOMAIN page : /\ e \in DOMAIN entries /\ page[e] = entries[e]
                             /\ entries[e] <= reply[d].next_offset
  BY <1>2 DEF ReplySound, ReceivePage, RInv, PageExact
<1>4. \A e \in DOMAIN entries : entries[e] \in Nat
  BY Numbers
<1>5. pulled[d] \in Nat /\ reply[d].next_offset \in Nat
  BY Numbers
<1>6. Ordered(l)
  <2>1. Ordered(log[d])
    BY DEF OInv
  <2>2. new \subseteq Event /\ new \cap DOMAIN log[d] = {} /\ \A f \in new : page[f] \in Nat
    BY <1>2 DEF IsLog, Contents
  <2>3. NextPosition(d) \in Nat /\ \A f \in DOMAIN log[d] : log[d][f] < NextPosition(d)
    <3>1. Cardinality(Contents(d)) \in Nat
      BY <1>2, EventsFinite DEF IsLog, Contents
    <3>2. \A f \in DOMAIN log[d] : log[d][f] \in 1 .. Cardinality(Contents(d))
      BY <1>2 DEF Dense, Contents
    <3>3. QED
      BY <3>1, <3>2 DEF NextPosition
  <2>4. ASSUME NEW e \in new
        PROVE  \E c \in DOMAIN log[d] \cup new : Creates(c, e) /\ (c \in DOMAIN log[d] \/ page[c] <= page[e])
    <3>1. e \in DOMAIN entries /\ page[e] = entries[e] /\ entries[e] <= reply[d].next_offset
      BY <1>3
    <3>2. PICK c \in DOMAIN entries : Creates(c, e) /\ entries[c] <= entries[e]
      BY <3>1 DEF OInv, Ordered
    <3>3. entries[c] <= reply[d].next_offset
      BY <1>4, <1>5, <3>1, <3>2
    <3>4. CASE c \in Contents(d)
      BY <3>2, <3>4 DEF Contents
    <3>5. CASE c \notin Contents(d)
      <4>1. ~(entries[c] <= pulled[d])
        BY <3>5 DEF IInv, CursorComplete
      <4>2. c \in DOMAIN page
        BY <1>2, <1>4, <1>5, <3>3, <4>1 DEF ReplySound
      <4>3. c \in new /\ page[c] <= page[e]
        BY <1>3, <3>1, <3>2, <3>5, <4>2
      <4>4. QED
        BY <3>2, <4>3
    <3>6. QED
      BY <3>4, <3>5
  <2> HIDE DEF new, page
  <2>5. QED
    BY <1>2, <2>1, <2>2, <2>3, <2>4, PushAllOrdered
<1>7. \A c \in Devices : Contents(c) \subseteq Contents(c)'
  <2>1. DOMAIN log[d] \subseteq DOMAIN l
    BY DEF PushAll
  <2> HIDE DEF l
  <2>2. QED
    BY <1>1, <1>2, <2>1 DEF Contents
<1> HIDE DEF l
<1>8. \A c \in Devices : Ordered(log'[c])
  BY <1>1, <1>2, <1>6 DEF OInv
<1>9. \A c \in Devices : GroundedCall(c)'
  BY <1>1, <1>7 DEF OInv, GroundedCall
<1>10. QED
  BY <1>1, <1>8, <1>9 DEF OInv, Ordered, GroundedBatch

\* Storing a grounded batch leaves the stream ordered.
LEMMA AppendEventsOStep ==
  ASSUME IInv, OInv, NEW h \in handlers, AppendEvents(h), UNCHANGED <<deviceVars, syncVars>>
  PROVE  OInv'
<1> DEFINE new == DOMAIN h.events \ DOMAIN entries
           stream == PushAll(entries, new, h.events, next_server_offset)
<1>1. entries' = stream /\ UNCHANGED <<log, call>>
  BY DEF AppendEvents, NewEvents, deviceVars
<1>2. IsHandler(h) /\ IsLog(h.events) /\ IsLog(entries)
  BY DEF IInv, TypeOK, ServerTypeOK, IsHandler
<1>3. Ordered(stream)
  <2>1. Ordered(entries) /\ GroundedBatch(h.events)
    BY DEF OInv
  <2>2. new \subseteq Event /\ new \cap DOMAIN entries = {} /\ \A f \in new : h.events[f] \in Nat
    BY <1>2 DEF IsLog
  <2>3. next_server_offset \in Nat /\ \A f \in DOMAIN entries : entries[f] < next_server_offset
    BY Numbers
  <2>4. ASSUME NEW e \in new
        PROVE  \E c \in DOMAIN entries \cup new :
                 Creates(c, e) /\ (c \in DOMAIN entries \/ h.events[c] <= h.events[e])
    BY <2>1 DEF GroundedBatch
  <2> HIDE DEF new
  <2>5. QED
    BY <1>2, <2>1, <2>2, <2>3, <2>4, PushAllOrdered
<1>4. DOMAIN entries \subseteq DOMAIN stream
  BY DEF PushAll
<1> HIDE DEF stream
<1>5. \A k \in handlers' : \E g \in handlers : k.events = g.events
  <2>1. RowsDue(h) \in SUBSET Items
    BY <1>2 DEF RowsDue, IsLog, Event
  <2>2. QED
    BY <2>1, HandlerBatches DEF IInv, AppendEvents
<1>6. \A k \in handlers' : GroundedBatch(k.events)'
  BY <1>1, <1>4, <1>5 DEF OInv, GroundedBatch
<1>7. QED
  BY <1>1, <1>3, <1>6 DEF OInv, GroundedCall, Contents

\* The other steps of the server only move its handlers on.
LEMMA ServerOStep ==
  ASSUME IInv, OInv, Serve \/ Cancel
  PROVE  OInv'
<1>1. UNCHANGED <<deviceVars, syncVars>>
  BY DEF Serve, Cancel
<1>2. ASSUME NEW h \in handlers,
             LockServerStorage(h) \/ (\E x \in Items : BuildServerRow(h, x)) \/ AnswerPost(h) \/ DropHandler(h)
      PROVE  OInv'
  <2>1. UNCHANGED <<log, call, entries>>
    BY <1>1, <1>2 DEF LockServerStorage, BuildServerRow, AnswerPost, Answer, DropHandler, deviceVars
  <2>2. IsHandler(h)
    BY DEF IInv, TypeOK, ServerTypeOK
  <2>3. \/ \E st \in {"stored", "building"}, todo \in SUBSET Items : Advance(h, st, todo)
        \/ handlers' \subseteq handlers
    BY <1>2, <2>2 DEF LockServerStorage, BuildServerRow, AnswerPost, Answer, DropHandler, IsHandler
  <2>4. QED
    BY <2>1, <2>3, HandlerBatches, QuietOStep DEF IInv
<1>3. QED
  BY <1>1, <1>2, AppendEventsOStep DEF Serve, Cancel, HandlerStep

\* One lemma per action: every step preserves it.
LEMMA NextOInv ==
  ASSUME IInv, RInv, RowsSound, OInv, [Next]_vars
  PROVE  OInv'
<1>1. ASSUME UNCHANGED <<log, call, entries, handlers>> PROVE OInv'
  BY <1>1, QuietOStep
<1>2. ASSUME NEW d \in Devices, ServiceCall(d) \/ StoreCall(d) \/ FinishCall(d) \/ Restart(d)
      PROVE  OInv'
  BY <1>2, ServiceCallOStep, StoreCallOStep, CallEndsOStep
<1>3. ASSUME NEW d \in Devices, NEW t \in Tasks,
             \/ BeginRound(d, t) \/ ReceiveAck(d, t) \/ FinishPush(d, t) \/ ReceiveLastPage(d, t)
             \/ AnswerPull(d, t) \/ LockStorage(d, t) \/ \E x \in Items : RebuildRow(d, t, x)
      PROVE  UNCHANGED <<log, call, entries, handlers>>
  BY <1>3 DEF BeginRound, LockLog, ReceiveAck, MarkSynced, ConsumeReply, FinishPush, ReceiveLastPage, UnlockLog,
              AnswerPull, GetEvents, LockStorage, RebuildRow, BuildRow, deviceVars, serverVars
<1>4. ASSUME NEW d \in Devices, NEW t \in Tasks, RoundFails(d, t) PROVE OInv'
  <2>1. LoseConnection(d) /\ UNCHANGED <<log, call, entries>>
    BY <1>4 DEF RoundFails, LeaveRound, LoseConnection, UnlockLog
  <2>2. QED
    BY <2>1, HandlerBatches, QuietOStep DEF IInv
<1>5. CASE UNCHANGED vars
  BY <1>1, <1>5 DEF vars
<1>6. QED
  BY <1>1, <1>2, <1>3, <1>4, <1>5, SendPushOStep, ReceivePageOStep, ServerOStep DEF Next, RoundStep

\* In the stream and in every log the creation of an item comes before whatever else
\* happened to it, whichever batches were split, lost, repeated or stored concurrently.
THEOREM CreationsFirst == Spec => []CreatedFirst
<1>1. IInv /\ RInv /\ RowsSound /\ OInv /\ [Next]_vars => OInv'
  BY NextOInv
<1>2. OInv => CreatedFirst
  BY CreatedFirstIsOrdered DEF OInv
<1>3. QED
  BY RefinementInvariance, RowsAreSound, InitOInv, <1>1, <1>2, PTL DEF Spec
=============================================================================
