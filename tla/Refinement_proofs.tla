-------------------------- MODULE Refinement_proofs --------------------------
(* OfflineSync implements Replication, for every value of the constants. *)
EXTENDS OfflineSync_proofs

(***************************************************************************)
(* What the refinement needs beyond IInv: where events come from, that a   *)
(* call about to write has a fresh id, and that a device has no foreign    *)
(* event past its cursor.                                                  *)
(***************************************************************************)

\* A batch is of written events, all by one device.
OwnBatch(batch) ==
  /\ DOMAIN batch \subseteq issued
  /\ \A e, f \in DOMAIN batch : e.replica_id = f.replica_id

\* What is stored anywhere has been written.
Written ==
  /\ DOMAIN entries \subseteq issued
  /\ \A d \in Devices : Contents(d) \subseteq issued
  /\ \A h \in handlers : OwnBatch(h.events)

\* The event that d is about to write.
Pending(d) == call[d] # NoCall /\ call[d].st = "append"

FreshCalls ==
  \A d \in Devices : Pending(d) =>
    /\ \A f \in issued : f.replica_event_id # call[d].event.replica_event_id
    /\ \A c \in Devices \ {d} : call[c] # NoCall =>
         call[c].event.replica_event_id # call[d].event.replica_event_id

\* A page holds nothing at or before the cursor, and nothing past its end.
PageExact(d) ==
  reply[d].kind = "page" =>
    \A e \in DOMAIN reply[d].events :
      pulled[d] < reply[d].events[e] /\ reply[d].events[e] <= reply[d].next_offset

\* No foreign event reaches a device before its turn.
NothingEarly(d) ==
  \A e \in Contents(d) : e.replica_id # d => e \in DOMAIN entries /\ entries[e] <= pulled[d]

RInv == Written /\ FreshCalls /\ \A d \in Devices : PageExact(d) /\ NothingEarly(d)

\* The initial state satisfies it: there are no events.
LEMMA InitRInv == Init => RInv
BY DEF Init, DeviceInit, ServerInit, SyncInit, RInv, Written, FreshCalls, Pending, PageExact,
       NothingEarly, Contents, EmptyLog, NoReply

\* A step that leaves all of it alone preserves it.
LEMMA QuietRStep ==
  ASSUME RInv, UNCHANGED <<issued, log, call, entries, handlers, reply, pulled>>
  PROVE  RInv'
BY DEF RInv, Written, OwnBatch, FreshCalls, Pending, PageExact, NothingEarly, Contents

\* No batch appears or changes when handlers move on, lose their client or end.
LEMMA HandlerBatches ==
  ASSUME TypeOK,
         \/ \E d \in Devices : LoseConnection(d)
         \/ \E h \in handlers, st \in {"stored", "building"}, todo \in SUBSET Items : Advance(h, st, todo)
         \/ handlers' \subseteq handlers
  PROVE  \A h \in handlers' : \E g \in handlers : h.events = g.events
<1>1. \A h \in handlers : IsHandler(h)
  BY DEF TypeOK, ServerTypeOK
<1>2. ASSUME NEW d \in Devices, LoseConnection(d), NEW g \in handlers
      PROVE  [g EXCEPT !.from = IF @ = d THEN Gone ELSE @].events = g.events
  BY <1>1, <1>2 DEF IsHandler
<1>3. ASSUME NEW d \in Devices, LoseConnection(d), NEW h \in handlers'
      PROVE  \E g \in handlers : h.events = g.events
  <2>1. PICK g \in handlers : h = [g EXCEPT !.from = IF @ = d THEN Gone ELSE @]
    BY <1>3 DEF LoseConnection
  <2>2. QED
    BY <1>2, <1>3, <2>1
<1>4. ASSUME NEW k \in handlers, NEW st \in {"stored", "building"}, NEW todo \in SUBSET Items,
             Advance(k, st, todo), NEW h \in handlers'
      PROVE  \E g \in handlers : h.events = g.events
  <2> DEFINE a == [k EXCEPT !.st = st, !.todo = todo]
  <2>1. a = [from |-> k.from, st |-> st, todo |-> todo, events |-> k.events]
    BY <1>1, AdvanceShape
  <2>2. h \in handlers \/ h = a
    BY <1>4 DEF Advance
  <2> HIDE DEF a
  <2>3. QED
    BY <2>1, <2>2
<1>5. QED
  BY <1>3, <1>4

\* ... so they stay written events of one device.
LEMMA HandlersKept ==
  ASSUME IInv, RInv, UNCHANGED issued,
         \/ \E d \in Devices : LoseConnection(d)
         \/ \E h \in handlers, st \in {"stored", "building"}, todo \in SUBSET Items : Advance(h, st, todo)
         \/ handlers' \subseteq handlers
  PROVE  \A h \in handlers' : OwnBatch(h.events)'
<1>1. \A h \in handlers : OwnBatch(h.events)
  BY DEF RInv, Written
<1>2. QED
  BY <1>1, HandlerBatches DEF IInv, OwnBatch

-----------------------------------------------------------------------------
(* The steps of the devices *)

\* A call gets a fresh event id: fresh among the written events and the pending ones.
LEMMA CallRStep ==
  ASSUME IInv, RInv, NEW d \in Devices, ServiceCall(d) \/ FinishCall(d)
  PROVE  RInv'
<1>1. UNCHANGED <<issued, log, entries, handlers, reply, pulled>>
  BY DEF ServiceCall, CreateItem, ChangeItem, BeginCall, FinishCall, BuildCallRow, serverVars, syncVars
<1>2. call \in [Devices -> Call \cup {NoCall}]
  BY DEF IInv, TypeOK, DeviceTypeOK
<1>3. FreshCalls'
  <2>1. CASE ServiceCall(d)
    <3>1. PICK id \in EventIds, x \in Items, p \in Payloads : BeginCall(d, id, x, p)
      BY <2>1 DEF ServiceCall, CreateItem, ChangeItem, Payloads
    <3>2. /\ call[d] = NoCall
          /\ call'[d].event.replica_event_id = id
          /\ \A c \in Devices \ {d} : call'[c] = call[c]
      BY <1>2, <3>1 DEF BeginCall
    <3>3. /\ \A f \in issued : f.replica_event_id # id
          /\ \A c \in Devices : call[c] # NoCall => call[c].event.replica_event_id # id
      BY <3>1 DEF BeginCall, Authored
    <3>4. QED
      BY <1>1, <3>2, <3>3 DEF RInv, FreshCalls, Pending
  <2>2. CASE FinishCall(d)
    <3>1. call' = [call EXCEPT ![d] = NoCall]
      BY <2>2 DEF FinishCall, BuildCallRow
    <3>2. QED
      BY <1>1, <1>2, <3>1 DEF RInv, FreshCalls, Pending
  <2>3. QED
    BY <2>1, <2>2
<1>4. QED
  BY <1>1, <1>3 DEF RInv, Written, OwnBatch, PageExact, NothingEarly, Contents

\* What a StoreCall does to the state of the refinement.
LEMMA StoreCallEffect ==
  ASSUME IInv, NEW d \in Devices, StoreCall(d)
  PROVE  /\ call[d] \in Call /\ call[d] # NoCall /\ call[d].st = "append"
         /\ call[d].event \in Event /\ call[d].event.replica_id = d
         /\ issued' = issued \cup {call[d].event}
         /\ \A c \in Devices : Contents(c)' = IF c = d THEN Contents(d) \cup {call[d].event} ELSE Contents(c)
         /\ call'[d].event = call[d].event /\ ~Pending(d)'
         /\ \A c \in Devices \ {d} : call'[c] = call[c]
         /\ UNCHANGED <<entries, handlers, reply, pulled>>
<1>1. DOMAIN log = Devices /\ call \in [Devices -> Call \cup {NoCall}]
  BY DEF IInv, TypeOK, DeviceTypeOK
<1>2. call[d] # NoCall /\ call[d] \in Call /\ call[d].event \in Event
  BY <1>1 DEF StoreCall, AppendLocal, Call
<1>3. call' = [call EXCEPT ![d].st = "build"] /\ call'[d] = [event |-> call[d].event, st |-> "build"]
  BY <1>1, <1>2 DEF StoreCall, AppendLocal, Call
<1>4. \A c \in Devices : Contents(c)' = IF c = d THEN Contents(d) \cup {call[d].event} ELSE Contents(c)
  BY <1>1 DEF StoreCall, AppendLocal, PushEntries, PushAll, Contents
<1>5. QED
  BY <1>1, <1>2, <1>3, <1>4 DEF StoreCall, AppendLocal, serverVars, syncVars, Pending, IInv,
     InFlightSound, CallsOwn

\* A written event is its device's own, and no other pending call has its id.
LEMMA StoreCallRStep ==
  ASSUME IInv, RInv, NEW d \in Devices, StoreCall(d)
  PROVE  RInv'
<1> DEFINE e == call[d].event
<1>1. /\ call[d] # NoCall /\ e.replica_id = d /\ issued' = issued \cup {e}
      /\ \A c \in Devices : Contents(c)' = IF c = d THEN Contents(d) \cup {e} ELSE Contents(c)
      /\ call'[d].event = e /\ ~Pending(d)'
      /\ \A c \in Devices \ {d} : call'[c] = call[c]
      /\ UNCHANGED <<entries, handlers, reply, pulled>>
  BY StoreCallEffect
<1> HIDE DEF e
<1>2. Written'
  BY <1>1 DEF RInv, Written, OwnBatch
<1>3. FreshCalls'
  <2> SUFFICES ASSUME NEW c \in Devices, Pending(c)'
               PROVE  /\ \A f \in issued' : f.replica_event_id # call'[c].event.replica_event_id
                      /\ \A b \in Devices \ {c} : call'[b] # NoCall =>
                           call'[b].event.replica_event_id # call'[c].event.replica_event_id
    BY DEF FreshCalls
  <2>1. c # d /\ call'[c] = call[c] /\ Pending(c)
    BY <1>1 DEF Pending
  <2>2. /\ \A f \in issued : f.replica_event_id # call[c].event.replica_event_id
        /\ \A b \in Devices \ {c} : call[b] # NoCall =>
             call[b].event.replica_event_id # call[c].event.replica_event_id
    BY <2>1 DEF RInv, FreshCalls
  <2>3. e.replica_event_id # call[c].event.replica_event_id
    BY <1>1, <2>1, <2>2 DEF e
  <2>4. QED
    BY <1>1, <2>1, <2>2, <2>3
<1>4. \A c \in Devices : PageExact(c)' /\ NothingEarly(c)'
  BY <1>1 DEF RInv, PageExact, NothingEarly
<1>5. QED
  BY <1>2, <1>3, <1>4 DEF RInv

\* A batch to push is of the device's own events.
LEMMA SendPushRStep ==
  ASSUME IInv, RInv, NEW d \in Devices, NEW t \in Tasks, SendPush(d, t)
  PROVE  RInv'
<1> DEFINE batch == GetUnsynced(d, Batch)
           h == [from |-> d, st |-> "received", todo |-> {}, events |-> batch]
<1>1. /\ handlers' = handlers \cup {h}
      /\ UNCHANGED <<issued, log, call, entries, reply, pulled>>
  BY DEF SendPush, PostEvents, deviceVars
<1>2. OwnBatch(batch)
  BY DEF OwnBatch, GetUnsynced, Restrict, FirstOf, Unsynced, RInv, Written
<1>3. h.events = batch
  OBVIOUS
<1> HIDE DEF h, batch
<1>4. Written'
  BY <1>1, <1>2, <1>3 DEF RInv, Written, OwnBatch, Contents
<1>5. QED
  BY <1>1, <1>4 DEF RInv, FreshCalls, Pending, PageExact, NothingEarly, Contents

\* An answer read, or a connection lost, leaves no page.
LEMMA ReplyGoneRStep ==
  ASSUME IInv, RInv, NEW d \in Devices, NEW t \in Tasks,
         ReceiveAck(d, t) \/ ReceiveLastPage(d, t) \/ RoundFails(d, t)
  PROVE  RInv'
<1>1. /\ reply' = [reply EXCEPT ![d] = NoReply]
      /\ UNCHANGED <<issued, log, call, entries, pulled>>
      /\ LoseConnection(d) \/ UNCHANGED handlers
  BY DEF ReceiveAck, MarkSynced, ReceiveLastPage, RoundFails, LeaveRound, ConsumeReply, LoseConnection,
         UnlockLog
<1>2. DOMAIN reply = Devices
  BY DEF IInv, TypeOK, ServerTypeOK
<1>3. \A h \in handlers' : OwnBatch(h.events)'
  BY <1>1, HandlersKept
<1>4. \A c \in Devices : PageExact(c)'
  BY <1>1, <1>2 DEF RInv, PageExact, NoReply
<1>5. QED
  BY <1>1, <1>3, <1>4 DEF RInv, Written, FreshCalls, Pending, NothingEarly, Contents

\* The page holds what the stream has from the cursor to the page's last event.
LEMMA AnswerPullRStep ==
  ASSUME IInv, RInv, NEW d \in Devices, NEW t \in Tasks, AnswerPull(d, t)
  PROVE  RInv'
<1> DEFINE page == EventsAfter(pulled[d])
<1>1. UNCHANGED <<issued, log, call, entries, handlers, pulled>>
  BY DEF AnswerPull, GetEvents, deviceVars, syncVars
<1>2. PICK n \in 0 .. next_server_offset :
        /\ IsNextOffset(page, n)
        /\ reply' = [reply EXCEPT ![d] = [kind |-> "page", events |-> page, next_offset |-> n]]
  BY DEF AnswerPull, GetEvents
<1>3. DOMAIN reply = Devices
  BY DEF IInv, TypeOK, ServerTypeOK
<1>4. \A e \in DOMAIN page : pulled[d] < page[e] /\ page[e] <= n
  <2>1. \A e \in DOMAIN page : e \in DOMAIN entries /\ page[e] = entries[e] /\ entries[e] > pulled[d]
    BY DEF EventsAfter, Restrict, FirstOf
  <2>2. \A e \in DOMAIN entries : entries[e] \in Nat /\ pulled[d] \in Nat
    BY Numbers
  <2>3. \A e \in DOMAIN page : page[e] <= n
    BY <1>2 DEF IsNextOffset
  <2> HIDE DEF page
  <2>4. QED
    BY <2>1, <2>2, <2>3
<1> HIDE DEF page
<1>5. \A c \in Devices : PageExact(c)'
  BY <1>1, <1>2, <1>3, <1>4 DEF RInv, PageExact
<1>6. QED
  BY <1>1, <1>5 DEF RInv, Written, OwnBatch, FreshCalls, Pending, NothingEarly, Contents

\* What taking a page does: the log gains the stream's section up to the new cursor.
LEMMA ReceivePageEffect ==
  ASSUME IInv, RInv, NEW d \in Devices, NEW t \in Tasks, ReceivePage(d, t)
  PROVE  LET n == reply[d].next_offset
             page == DOMAIN reply[d].events
         IN  /\ n \in Nat /\ pulled[d] < n /\ n < next_server_offset
             /\ page \subseteq {e \in DOMAIN entries : pulled[d] < entries[e] /\ entries[e] <= n}
             /\ {e \in DOMAIN entries : pulled[d] < entries[e] /\ entries[e] <= n} \subseteq page
             /\ \A c \in Devices : Contents(c)' = IF c = d THEN Contents(d) \cup page ELSE Contents(c)
             /\ pulled' = [pulled EXCEPT ![d] = n]
             /\ reply' = [reply EXCEPT ![d] = NoReply]
             /\ UNCHANGED <<issued, call, entries, handlers>>
<1>1. ReplySound(d) /\ PageExact(d) /\ DOMAIN log = Devices /\ reply[d].next_offset \in Nat
      /\ pulled[d] \in Nat
  BY Numbers DEF IInv, RInv, InFlightSound, TypeOK, DeviceTypeOK
<1>2. reply[d].kind = "page" /\ DOMAIN reply[d].events # {}
  BY DEF ReceivePage
<1>3. \A e \in DOMAIN reply[d].events :
        /\ e \in DOMAIN entries /\ entries[e] \in Nat
        /\ pulled[d] < entries[e] /\ entries[e] <= reply[d].next_offset
  BY <1>1, <1>2, Numbers DEF ReplySound, PageExact
<1>4. \A c \in Devices :
        Contents(c)' = IF c = d THEN Contents(d) \cup DOMAIN reply[d].events ELSE Contents(c)
  BY <1>1 DEF ReceivePage, AppendReplicated, PushEntries, PushAll, Contents
<1>5. pulled[d] < reply[d].next_offset
  BY <1>1, <1>2, <1>3
<1>6. QED
  BY <1>1, <1>3, <1>4, <1>5 DEF ReceivePage, AppendReplicated, ConsumeReply, ReplySound

\* A received page, the last one too, preserves RInv.
LEMMA ReceivePageRStep ==
  ASSUME IInv, RInv, NEW d \in Devices, NEW t \in Tasks, ReceivePage(d, t)
  PROVE  RInv'
<1> DEFINE n == reply[d].next_offset
           page == DOMAIN reply[d].events
<1>1. /\ n \in Nat /\ pulled[d] < n
      /\ \A e \in page : e \in DOMAIN entries /\ entries[e] <= n
      /\ \A c \in Devices : Contents(c)' = IF c = d THEN Contents(d) \cup page ELSE Contents(c)
      /\ pulled' = [pulled EXCEPT ![d] = n]
      /\ reply' = [reply EXCEPT ![d] = NoReply]
      /\ UNCHANGED <<issued, call, entries, handlers>>
  BY ReceivePageEffect
<1>2. /\ DOMAIN reply = Devices /\ DOMAIN pulled = Devices /\ pulled[d] \in Nat
      /\ \A e \in DOMAIN entries : entries[e] \in Nat
  BY Numbers DEF IInv, TypeOK, ServerTypeOK, SyncTypeOK
<1> HIDE DEF n, page
<1>3. Written'
  BY <1>1 DEF RInv, Written, OwnBatch
<1>4. \A c \in Devices : PageExact(c)'
  BY <1>1, <1>2 DEF RInv, PageExact, NoReply
<1>5. \A c \in Devices : NothingEarly(c)'
  BY <1>1, <1>2 DEF RInv, NothingEarly
<1>6. QED
  BY <1>1, <1>3, <1>4, <1>5 DEF RInv, FreshCalls, Pending

\* A restarted device has nothing.
LEMMA RestartRStep ==
  ASSUME IInv, RInv, NEW d \in Devices, Restart(d)
  PROVE  RInv'
<1>1. /\ log' = [log EXCEPT ![d] = EmptyLog]
      /\ call' = [call EXCEPT ![d] = NoCall]
      /\ pulled' = [pulled EXCEPT ![d] = 0]
      /\ reply' = [reply EXCEPT ![d] = NoReply]
      /\ LoseConnection(d)
      /\ UNCHANGED <<issued, entries>>
  BY DEF Restart, LoseMemory, LoseConnection
<1>2. DOMAIN log = Devices /\ DOMAIN call = Devices /\ DOMAIN pulled = Devices /\ DOMAIN reply = Devices
  BY DEF IInv, TypeOK, DeviceTypeOK, ServerTypeOK, SyncTypeOK
<1>3. \A h \in handlers' : OwnBatch(h.events)'
  BY <1>1, HandlersKept
<1>4. \A c \in Devices : Contents(c)' = IF c = d THEN {} ELSE Contents(c)
  BY <1>1, <1>2 DEF Contents, EmptyLog
<1>5. Written'
  BY <1>1, <1>3, <1>4 DEF RInv, Written
<1>6. FreshCalls'
  BY <1>1, <1>2 DEF RInv, FreshCalls, Pending
<1>7. \A c \in Devices : PageExact(c)' /\ NothingEarly(c)'
  BY <1>1, <1>2, <1>4 DEF RInv, PageExact, NothingEarly, NoReply
<1>8. QED
  BY <1>5, <1>6, <1>7 DEF RInv

-----------------------------------------------------------------------------
(* The steps of the server *)

\* Only events of a batch enter the stream, and those that are there keep their place.
LEMMA AppendEventsEffect ==
  ASSUME IInv, NEW h \in handlers, AppendEvents(h)
  PROVE  /\ DOMAIN entries' = DOMAIN entries \cup NewEvents(h)
         /\ \A e \in DOMAIN entries : entries'[e] = entries[e]
BY DEF AppendEvents, PushAll

\* The server's steps preserve RInv.
LEMMA ServerRStep ==
  ASSUME IInv, RInv, Serve \/ Cancel
  PROVE  RInv'
<1>1. UNCHANGED <<issued, log, call, pulled>>
  BY DEF Serve, Cancel, deviceVars, syncVars
<1>2. \A h \in handlers : IsHandler(h) /\ OwnBatch(h.events)
  BY DEF IInv, TypeOK, ServerTypeOK, RInv, Written
<1>3. ASSUME NEW h \in handlers, AppendEvents(h) PROVE RInv'
  <2>1. NewEvents(h) \subseteq issued /\ RowsDue(h) \in SUBSET Items
    BY <1>2 DEF NewEvents, OwnBatch, RowsDue, IsHandler, IsLog, Event
  <2>2. \A g \in handlers' : OwnBatch(g.events)'
    BY <1>1, <1>3, <2>1, HandlersKept DEF AppendEvents
  <2>3. Written'
    BY <1>1, <1>3, <2>1, <2>2, AppendEventsEffect DEF RInv, Written, Contents
  <2>4. \A d \in Devices : NothingEarly(d)'
    BY <1>1, <1>3, AppendEventsEffect DEF RInv, NothingEarly, Contents
  <2>5. UNCHANGED reply
    BY <1>3 DEF AppendEvents, Advance
  <2>6. QED
    BY <1>1, <2>3, <2>4, <2>5 DEF RInv, FreshCalls, Pending, PageExact
<1>4. ASSUME NEW h \in handlers, LockServerStorage(h) \/ (\E x \in Items : BuildServerRow(h, x))
      PROVE  RInv'
  <2>1. UNCHANGED <<entries, reply>>
    BY <1>4 DEF LockServerStorage, BuildServerRow, Advance
  <2>2. h.todo \in SUBSET Items
    BY <1>2 DEF IsHandler
  <2>3. \E st \in {"stored", "building"}, todo \in SUBSET Items : Advance(h, st, todo)
    BY <1>4, <2>2 DEF LockServerStorage, BuildServerRow
  <2>4. \A g \in handlers' : OwnBatch(g.events)'
    BY <1>1, <2>3, HandlersKept
  <2>5. QED
    BY <1>1, <2>1, <2>4 DEF RInv, Written, FreshCalls, Pending, PageExact, NothingEarly, Contents
<1>5. ASSUME NEW h \in handlers, AnswerPost(h) \/ DropHandler(h) PROVE RInv'
  <2>1. UNCHANGED entries /\ handlers' \subseteq handlers
    BY <1>5 DEF AnswerPost, Answer, DropHandler
  <2>2. \A g \in handlers' : OwnBatch(g.events)'
    BY <1>1, <2>1, HandlersKept
  <2>3. \A d \in Devices : reply'[d] = reply[d] \/ reply'[d].kind = "ack"
    <3>1. DOMAIN reply = Devices
      BY DEF IInv, TypeOK, ServerTypeOK
    <3>2. QED
      BY <1>5, <3>1 DEF AnswerPost, Answer, DropHandler
  <2>4. \A d \in Devices : PageExact(d)'
    BY <1>1, <2>3 DEF RInv, PageExact
  <2>5. QED
    BY <1>1, <2>1, <2>2, <2>4 DEF RInv, Written, FreshCalls, Pending, NothingEarly, Contents
<1>6. QED
  BY <1>3, <1>4, <1>5 DEF Serve, HandlerStep, Cancel

\* Every step preserves RInv.
LEMMA NextRInv ==
  ASSUME IInv, RInv, [Next]_vars
  PROVE  RInv'
<1>1. ASSUME NEW d \in Devices, ServiceCall(d) \/ StoreCall(d) \/ FinishCall(d) \/ Restart(d)
      PROVE  RInv'
  BY <1>1, CallRStep, StoreCallRStep, RestartRStep
<1>2. ASSUME NEW d \in Devices, NEW t \in Tasks,
             \/ BeginRound(d, t) \/ FinishPush(d, t) \/ LockStorage(d, t)
             \/ \E x \in Items : RebuildRow(d, t, x)
      PROVE  RInv'
  <2>1. UNCHANGED <<issued, log, call, entries, handlers, reply, pulled>>
    BY <1>2 DEF BeginRound, LockLog, FinishPush, LockStorage, RebuildRow, BuildRow, deviceVars, serverVars
  <2>2. QED
    BY <2>1, QuietRStep
<1>3. ASSUME NEW d \in Devices, NEW t \in Tasks,
             RoundStep(d, t) \/ AnswerPull(d, t) \/ RoundFails(d, t)
      PROVE  RInv'
  BY <1>2, <1>3, SendPushRStep, ReplyGoneRStep, AnswerPullRStep, ReceivePageRStep DEF RoundStep
<1>4. CASE UNCHANGED vars
  BY <1>4, QuietRStep DEF vars
<1>5. QED
  BY <1>1, <1>2, <1>3, <1>4, ServerRStep DEF Next

-----------------------------------------------------------------------------
(* The theorems *)

\* IInv and RInv hold in every reachable state.
THEOREM RefinementInvariance == Spec => [](IInv /\ RInv)
<1>1. Init => IInv /\ RInv
  BY InitIInv, InitRInv
<1>2. IInv /\ RInv /\ [Next]_vars => IInv' /\ RInv'
  BY NextIInv, NextRInv
<1>3. QED
  BY <1>1, <1>2, PTL DEF Spec

\* Of the other devices' events every device has exactly the stream up to its cursor.
THEOREM SeesPrefixOnly == Spec => []DevicesSeePrefix
<1>1. IInv /\ RInv => DevicesSeePrefix
  <2> SUFFICES ASSUME IInv, RInv, NEW d \in Devices, NEW e \in Event, e.replica_id # d
               PROVE  e \in Contents(d) <=> e \in DOMAIN entries /\ entries[e] <= pulled[d]
    BY DEF DevicesSeePrefix, R!SeesPrefix, R!Event, Event, R!Payloads, Payloads
  <2>1. QED
    BY DEF IInv, CursorComplete, RInv, NothingEarly
<1>2. QED
  BY RefinementInvariance, <1>1, PTL

\* An instance has a Cardinality of its own, which is the same.
LEMMA SameCardinality == \A S : R!Cardinality(S) = Cardinality(S)
  BY DEF R!Cardinality, Cardinality

\* The written event of a call is Replication's Write.
LEMMA WriteStep ==
  ASSUME IInv, RInv, NEW d \in Devices, StoreCall(d)
  PROVE  R!Write(d)
<1> DEFINE e == call[d].event
<1>1. /\ e \in Event /\ e.replica_id = d /\ issued' = issued \cup {e} /\ Pending(d)
      /\ \A c \in Devices : Contents(c)' = IF c = d THEN Contents(d) \cup {e} ELSE Contents(c)
      /\ UNCHANGED <<entries, pulled>>
  BY StoreCallEffect DEF Pending
<1>2. \A f \in issued : f.replica_event_id # e.replica_event_id
  BY <1>1 DEF RInv, FreshCalls
<1> HIDE DEF e
<1>3. [c \in Devices |-> Contents(c)]' = [[c \in Devices |-> Contents(c)] EXCEPT ![d] = @ \cup {e}]
  BY <1>1
<1>4. QED
  BY <1>1, <1>2, <1>3 DEF R!Write, R!Event, Event, R!Payloads, Payloads

\* The append of a handler is Replication's Publish.
LEMMA PublishStep ==
  ASSUME IInv, RInv, IInv', NEW h \in handlers, AppendEvents(h), UNCHANGED <<deviceVars, syncVars>>
  PROVE  R!Publish
<1>1. DOMAIN entries' \ DOMAIN entries \subseteq DOMAIN h.events
  BY AppendEventsEffect DEF NewEvents
<1>2. OwnBatch(h.events)
  BY DEF RInv, Written
<1>3. Dense(entries)' /\ \A e \in DOMAIN entries : e \in DOMAIN entries' /\ entries'[e] = entries[e]
  BY AppendEventsEffect DEF IInv, OffsetsDense
<1>4. UNCHANGED <<issued, log, pulled>>
  BY DEF deviceVars, syncVars
<1>5. [c \in Devices |-> Contents(c)]' = [c \in Devices |-> Contents(c)]
  BY <1>4 DEF Contents
<1>6. QED
  BY <1>1, <1>2, <1>3, <1>4, <1>5, SameCardinality DEF R!Publish, R!Dense, Dense, OwnBatch

\* Taking a page is Replication's Take.
LEMMA TakeStep ==
  ASSUME IInv, RInv, NEW d \in Devices, NEW t \in Tasks, ReceivePage(d, t)
  PROVE  R!Take(d)
<1> DEFINE n == reply[d].next_offset
           page == DOMAIN reply[d].events
<1>1. /\ n \in Nat /\ pulled[d] < n /\ n < next_server_offset
      /\ page = R!Section(pulled[d], n)
      /\ \A c \in Devices : Contents(c)' = IF c = d THEN Contents(d) \cup page ELSE Contents(c)
      /\ pulled' = [pulled EXCEPT ![d] = n]
      /\ UNCHANGED <<issued, entries>>
  BY ReceivePageEffect DEF R!Section
<1>2. n \in (pulled[d] + 1) .. Cardinality(DOMAIN entries)
  <2>1. next_server_offset = Cardinality(DOMAIN entries) + 1 /\ pulled[d] \in Nat
    BY Numbers DEF IInv, OffsetsDense
  <2>2. Cardinality(DOMAIN entries) \in Nat
    BY EventsFinite DEF IInv, TypeOK, ServerTypeOK, IsLog
  <2> HIDE DEF n
  <2>3. QED
    BY <1>1, <2>1, <2>2
<1> HIDE DEF n, page
<1>3. [c \in Devices |-> Contents(c)]' =
        [[c \in Devices |-> Contents(c)] EXCEPT ![d] = @ \cup R!Section(pulled[d], n)]
  BY <1>1
<1>4. QED
  BY <1>1, <1>2, <1>3, SameCardinality DEF R!Take

\* A restart is Replication's Forget.
LEMMA ForgetStep ==
  ASSUME IInv, NEW d \in Devices, Restart(d)
  PROVE  R!Forget(d)
<1>1. /\ log' = [log EXCEPT ![d] = EmptyLog] /\ pulled' = [pulled EXCEPT ![d] = 0]
      /\ UNCHANGED <<issued, entries>> /\ DOMAIN log = Devices
  BY DEF Restart, LoseMemory, LoseConnection, IInv, TypeOK, DeviceTypeOK
<1>2. \A c \in Devices : Contents(c)' = IF c = d THEN {} ELSE Contents(c)
  BY <1>1 DEF Contents, EmptyLog
<1>3. [c \in Devices |-> Contents(c)]' = [[c \in Devices |-> Contents(c)] EXCEPT ![d] = {}]
  BY <1>2
<1>4. QED
  BY <1>1, <1>3 DEF R!Forget

\* Every step of the detailed system is a step of the abstract one, or none.
LEMMA StepRefines ==
  ASSUME IInv, RInv, IInv', [Next]_vars
  PROVE  [R!Next]_(R!vars)
<1>1. ASSUME UNCHANGED <<issued, log, entries, pulled>> PROVE UNCHANGED R!vars
  BY <1>1 DEF R!vars, Contents
<1>2. ASSUME NEW d \in Devices, ServiceCall(d) \/ StoreCall(d) \/ FinishCall(d) \/ Restart(d)
      PROVE  [R!Next]_(R!vars)
  <2>1. CASE StoreCall(d)
    BY <2>1, WriteStep DEF R!Next
  <2>2. CASE Restart(d)
    BY <2>2, ForgetStep DEF R!Next
  <2>3. CASE ServiceCall(d) \/ FinishCall(d)
    BY <1>1, <2>3 DEF ServiceCall, CreateItem, ChangeItem, BeginCall, FinishCall, BuildCallRow, serverVars, syncVars
  <2>4. QED
    BY <1>2, <2>1, <2>2, <2>3
<1>3. ASSUME NEW d \in Devices, NEW t \in Tasks,
             \/ BeginRound(d, t) \/ RoundStep(d, t) \/ AnswerPull(d, t) \/ RoundFails(d, t)
             \/ LockStorage(d, t) \/ \E x \in Items : RebuildRow(d, t, x)
      PROVE  [R!Next]_(R!vars)
  <2>1. CASE ReceivePage(d, t)
    BY <2>1, TakeStep DEF R!Next
  <2>2. ReceivePage(d, t) \/ UNCHANGED <<issued, log, entries, pulled>>
    BY <1>3 DEF BeginRound, LockLog, RoundStep, SendPush, PostEvents, ReceiveAck, MarkSynced, ConsumeReply,
       FinishPush, AnswerPull, GetEvents, ReceiveLastPage, UnlockLog, RoundFails, LeaveRound,
       LoseConnection, LockStorage, RebuildRow, BuildRow, deviceVars, serverVars, syncVars
  <2>3. QED
    BY <1>1, <2>1, <2>2
<1>4. CASE Serve
  <2>1. PICK h \in handlers : AppendEvents(h) \/ UNCHANGED entries
    BY <1>4 DEF Serve, HandlerStep, LockServerStorage, BuildServerRow, AnswerPost, Answer
  <2>2. UNCHANGED <<deviceVars, syncVars>>
    BY <1>4 DEF Serve
  <2>3. CASE AppendEvents(h)
    BY <2>2, <2>3, PublishStep DEF R!Next
  <2>4. CASE UNCHANGED entries
    BY <1>1, <2>2, <2>4 DEF deviceVars, syncVars
  <2>5. QED
    BY <2>1, <2>3, <2>4
<1>5. CASE Cancel \/ UNCHANGED vars
  BY <1>1, <1>5 DEF Cancel, DropHandler, deviceVars, syncVars, vars
<1>6. QED
  BY <1>2, <1>3, <1>4, <1>5 DEF Next

\* OfflineSync implements Replication: batches, pages, retries, lost answers, restarts
\* and mutexes only ever write, publish, take a section of the stream, or forget.
THEOREM Refinement == Spec => ImplementsReplication
<1>1. Init => R!Init
  BY DEF Init, DeviceInit, ServerInit, SyncInit, R!Init, Contents, R!EmptyLog, EmptyLog
<1>2. QED
  BY <1>1, StepRefines, RefinementInvariance, PTL DEF Spec, ImplementsReplication, R!Spec
=============================================================================
