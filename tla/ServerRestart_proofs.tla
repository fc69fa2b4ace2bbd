------------------------ MODULE ServerRestart_proofs ------------------------
(* What survives the death of the server process, for every value of the  *)
(* constants and however often it dies.                                   *)
EXTENDS ServerRestart, Rows_proofs

(***************************************************************************)
(* Beside a new stream the cursors, pages and acknowledgements of the old  *)
(* one are wrong: IInv is lost.  What is left is a bound n per device.  A  *)
(* cursor, on the device or on its way to it, lies within the new stream   *)
(* or below n; and beyond n nothing is skipped.  The offsets that append   *)
(* assigns later are covered by the same bound.                            *)
(***************************************************************************)

\* The stored events lie below the next offset.
Below ==
  \A e \in DOMAIN entries :
    entries[e] \in Nat /\ 0 < entries[e] /\ entries[e] < next_server_offset

\* d skips no offset of the stream but those up to n.
SkipsUpTo(d, n) ==
  /\ pulled[d] < next_server_offset \/ pulled[d] <= n
  /\ reply[d].next_offset < next_server_offset \/ reply[d].next_offset <= n
  /\ \A e \in DOMAIN entries :
       pulled[d] < entries[e] /\ entries[e] <= reply[d].next_offset
         => e \in DOMAIN reply[d].events \/ entries[e] <= n
  /\ \A e \in DOMAIN entries :
       entries[e] <= pulled[d] => e \in Contents(d) \/ entries[e] <= n

CInv ==
  /\ TypeOK
  /\ StoredBatches
  /\ Below
  /\ passed \in [Devices -> Nat]
  /\ \A d \in Devices : SkipsUpTo(d, passed[d])

\* The server starts from nothing.
LEMMA InitCInv == CrashInit => CInv
<1> SUFFICES ASSUME CrashInit PROVE CInv
  OBVIOUS
<1>1. TypeOK /\ entries = EmptyLog /\ DOMAIN entries = {} /\ handlers = {} /\ next_server_offset = 1
  BY InitType DEF CrashInit, Init, ServerInit, EmptyLog
<1>2. \A d \in Devices : pulled[d] = 0 /\ reply[d].next_offset = 0 /\ passed[d] = 0
  BY DEF CrashInit, Init, ServerInit, SyncInit, NoReply
<1>3. passed \in [Devices -> Nat]
  BY DEF CrashInit
<1>4. QED
  BY <1>1, <1>2, <1>3 DEF CInv, StoredBatches, Below, SkipsUpTo

-----------------------------------------------------------------------------
(* Steps while the server lives *)

\* append numbers what it adds from the next offset on.
LEMMA StreamAppends ==
  ASSUME TypeOK, Below, [Next]_vars
  PROVE  /\ next_server_offset' \in Nat /\ next_server_offset <= next_server_offset'
         /\ \A e \in DOMAIN entries' :
              \/ e \in DOMAIN entries /\ entries'[e] = entries[e]
              \/ /\ entries'[e] \in Nat
                 /\ next_server_offset <= entries'[e] /\ entries'[e] < next_server_offset'
<1>1. next_server_offset \in Nat \ {0}
  BY DEF TypeOK, ServerTypeOK
<1>2. CASE UNCHANGED <<entries, next_server_offset>>
  BY <1>1, <1>2
<1>3. ASSUME NEW h \in handlers, AppendEvents(h)
      PROVE  /\ next_server_offset' \in Nat /\ next_server_offset <= next_server_offset'
             /\ \A e \in DOMAIN entries' :
                  \/ e \in DOMAIN entries /\ entries'[e] = entries[e]
                  \/ /\ entries'[e] \in Nat
                     /\ next_server_offset <= entries'[e] /\ entries'[e] < next_server_offset'
  <2> DEFINE new == NewEvents(h)
  <2>1. IsLog(h.events)
    BY DEF TypeOK, ServerTypeOK, IsHandler
  <2>2. new \subseteq Event /\ \A f \in new : h.events[f] \in Nat
    BY <2>1 DEF NewEvents, IsLog
  <2>3. Cardinality(new) \in Nat
    BY <2>2, EventsFinite
  <2>4. entries' = PushAll(entries, new, h.events, next_server_offset)
        /\ next_server_offset' = next_server_offset + Cardinality(new)
    BY <1>3 DEF AppendEvents
  <2> HIDE DEF new
  <2>5. ASSUME NEW e \in DOMAIN entries'
        PROVE  \/ e \in DOMAIN entries /\ entries'[e] = entries[e]
               \/ /\ entries'[e] \in Nat
                  /\ next_server_offset <= entries'[e] /\ entries'[e] < next_server_offset'
    <3>1. CASE e \in DOMAIN entries
      BY <2>4, <3>1 DEF PushAll
    <3>2. CASE e \notin DOMAIN entries
      <4>1. e \in new /\ entries'[e] = next_server_offset + Rank(new, h.events, e)
        BY <2>4, <2>5, <3>2 DEF PushAll
      <4>2. Rank(new, h.events, e) \in Nat /\ Rank(new, h.events, e) < Cardinality(new)
        BY <2>2, <4>1, RankBound
      <4>3. QED
        BY <1>1, <2>3, <2>4, <4>1, <4>2
    <3>3. QED
      BY <3>1, <3>2
  <2>6. QED
    BY <1>1, <2>3, <2>4, <2>5
<1>4. CASE Serve
  <2>1. \A h \in handlers : LockServerStorage(h) \/ AnswerPost(h) \/ (\E x \in Items : BuildServerRow(h, x))
          => UNCHANGED <<entries, next_server_offset>>
    BY DEF LockServerStorage, AnswerPost, Answer, BuildServerRow
  <2>2. QED
    BY <1>2, <1>3, <1>4, <2>1 DEF Serve, HandlerStep
<1>5. ASSUME NEW d \in Devices, ServiceCall(d) \/ StoreCall(d) \/ FinishCall(d) \/ Restart(d)
      PROVE  UNCHANGED <<entries, next_server_offset>>
  BY <1>5 DEF ServiceCall, StoreCall, FinishCall, Restart, LoseConnection, serverVars
<1>6. ASSUME NEW d \in Devices, NEW t \in Tasks,
             \/ BeginRound(d, t) \/ RoundStep(d, t) \/ AnswerPull(d, t) \/ RoundFails(d, t) \/ LockStorage(d, t)
             \/ \E x \in Items : RebuildRow(d, t, x)
      PROVE  UNCHANGED <<entries, next_server_offset>>
  BY <1>6 DEF BeginRound, RoundStep, SendPush, PostEvents, ReceiveAck, ConsumeReply, FinishPush,
              AnswerPull, GetEvents, ReceivePage, ReceiveLastPage, RoundFails, LeaveRound, LoseConnection,
              LockStorage, RebuildRow, serverVars
<1>7. CASE Cancel \/ UNCHANGED vars
  BY <1>2, <1>7 DEF Cancel, DropHandler, vars
<1>8. QED
  BY <1>2, <1>4, <1>5, <1>6, <1>7 DEF Next

\* The shape of the state, the stored batches and the bound on the offsets need
\* nothing of the devices' cursors.
LEMMA ServedBase ==
  ASSUME TypeOK, StoredBatches, Below, [Next]_vars
  PROVE  TypeOK' /\ StoredBatches' /\ Below'
<1>1. TypeOK'
  BY NextType
<1>2. StoredBatches'
  <2> SUFFICES ASSUME NEW h \in handlers', h.st # "received" PROVE DOMAIN h.events \subseteq DOMAIN entries'
    BY DEF StoredBatches
  <2>1. CASE \E g \in handlers : g.st = h.st /\ g.todo = h.todo /\ g.events = h.events
    BY <2>1, StreamStep DEF StoredBatches
  <2>2. ASSUME NEW g \in handlers, Advanced(g, h) PROVE DOMAIN h.events \subseteq DOMAIN entries'
    <3>1. h.events = g.events
      BY <2>2 DEF Advanced
    <3>2. CASE AppendEvents(g)
      <4>1. entries' = PushAll(entries, NewEvents(g), g.events, next_server_offset)
        BY <3>2 DEF AppendEvents
      <4>2. QED
        BY <3>1, <4>1 DEF PushAll, NewEvents
    <3>3. CASE LockServerStorage(g) \/ \E x \in Items : BuildServerRow(g, x)
      <4>1. g.st # "received"
        BY <3>3 DEF LockServerStorage, BuildServerRow
      <4>2. QED
        BY <3>1, <4>1, StreamStep DEF StoredBatches
    <3>4. QED
      BY <2>2, <3>2, <3>3 DEF Advanced
  <2>3. QED
    BY <2>1, <2>2, HandlerOrigin
<1>3. Below'
  <2>1. next_server_offset \in Nat \ {0}
    BY DEF TypeOK, ServerTypeOK
  <2> SUFFICES ASSUME NEW e \in DOMAIN entries'
               PROVE  entries'[e] \in Nat /\ 0 < entries'[e] /\ entries'[e] < next_server_offset'
    BY DEF Below
  <2>2. CASE e \in DOMAIN entries /\ entries'[e] = entries[e]
    BY <2>1, <2>2, StreamAppends DEF Below
  <2>3. CASE entries'[e] \in Nat /\ next_server_offset <= entries'[e] /\ entries'[e] < next_server_offset'
    BY <2>1, <2>3
  <2>4. QED
    BY <2>2, <2>3, StreamAppends
<1>4. QED
  BY <1>1, <1>2, <1>3

\* Only a restart of the device takes events out of its log.
LEMMA ContentsGrow ==
  ASSUME TypeOK, [Next]_vars, NEW d \in Devices
  PROVE  Restart(d) \/ Contents(d) \subseteq Contents(d)'
<1>1. DOMAIN log = Devices
  BY DEF TypeOK, DeviceTypeOK
<1>2. ASSUME UNCHANGED log PROVE Contents(d) \subseteq Contents(d)'
  BY <1>2 DEF Contents
<1>3. ASSUME NEW c \in Devices, Restart(c) PROVE Restart(d) \/ Contents(d) \subseteq Contents(d)'
  <2>1. CASE c = d
    BY <1>3, <2>1
  <2>2. CASE c # d
    BY <1>1, <1>3, <2>2 DEF Restart, LoseMemory, Contents
  <2>3. QED
    BY <2>1, <2>2
<1>4. ASSUME NEW c \in Devices, StoreCall(c) PROVE Contents(d) \subseteq Contents(d)'
  BY <1>4, PushEntriesKeeps DEF StoreCall, AppendLocal, Keeps, Contents
<1>5. ASSUME NEW c \in Devices, NEW t \in Tasks, ReceivePage(c, t) PROVE Contents(d) \subseteq Contents(d)'
  BY <1>5, PushEntriesKeeps DEF ReceivePage, AppendReplicated, Keeps, Contents
<1>6. ASSUME NEW c \in Devices, ServiceCall(c) \/ FinishCall(c)
      PROVE  UNCHANGED log
  BY <1>6 DEF ServiceCall, CreateItem, ChangeItem, BeginCall, FinishCall, BuildCallRow
<1>7. ASSUME NEW c \in Devices, NEW t \in Tasks,
             \/ BeginRound(c, t) \/ SendPush(c, t) \/ ReceiveAck(c, t) \/ FinishPush(c, t) \/ ReceiveLastPage(c, t)
             \/ AnswerPull(c, t) \/ RoundFails(c, t) \/ LockStorage(c, t)
             \/ \E y \in Items : RebuildRow(c, t, y)
      PROVE  UNCHANGED log
  BY <1>7 DEF BeginRound, LockLog, SendPush, ReceiveAck, MarkSynced, FinishPush, ReceiveLastPage, UnlockLog,
              AnswerPull, RoundFails, LockStorage, RebuildRow, BuildRow, deviceVars
<1>8. CASE Serve \/ Cancel \/ UNCHANGED vars
  BY <1>2, <1>8 DEF Serve, Cancel, deviceVars, vars
<1>9. QED
  BY <1>2, <1>3, <1>4, <1>5, <1>6, <1>7, <1>8 DEF Next, RoundStep

\* The cursor of d moves when a page arrives, and a cursor is sent to d with a page.
CursorKept(d) ==
  /\ pulled'[d] = pulled[d]
  /\ reply'[d] = reply[d] \/ reply'[d].next_offset = 0

\* No other step of a living device moves its cursor.
LEMMA CursorOrigin ==
  ASSUME TypeOK, [Next]_vars, NEW d \in Devices
  PROVE  \/ CursorKept(d)
         \/ Restart(d)
         \/ \E t \in Tasks : AnswerPull(d, t) \/ ReceivePage(d, t)
<1>1. DOMAIN reply = Devices /\ pulled \in [Devices -> Nat]
  BY DEF TypeOK, ServerTypeOK, SyncTypeOK
<1>2. ASSUME UNCHANGED <<pulled, reply>> PROVE CursorKept(d)
  BY <1>2 DEF CursorKept
<1>3. ASSUME NEW c \in Devices, UNCHANGED pulled, reply' = [reply EXCEPT ![c] = NoReply]
      PROVE  CursorKept(d)
  BY <1>1, <1>3 DEF CursorKept, NoReply
<1>4. ASSUME NEW c \in Devices, NEW t \in Tasks, AnswerPull(c, t)
      PROVE  CursorKept(d) \/ AnswerPull(d, t)
  <2>1. CASE c = d
    BY <1>4, <2>1
  <2>2. CASE c # d
    <3>1. PICK r : reply' = [reply EXCEPT ![c] = r]
      BY <1>4 DEF AnswerPull, GetEvents
    <3>2. QED
      BY <1>1, <1>4, <2>2, <3>1 DEF AnswerPull, syncVars, CursorKept
  <2>3. QED
    BY <2>1, <2>2
<1>5. ASSUME NEW c \in Devices, NEW t \in Tasks, ReceivePage(c, t)
      PROVE  CursorKept(d) \/ ReceivePage(d, t)
  <2>1. CASE c = d
    BY <1>5, <2>1
  <2>2. CASE c # d
    BY <1>1, <1>5, <2>2 DEF ReceivePage, ConsumeReply, CursorKept
  <2>3. QED
    BY <2>1, <2>2
<1>6. ASSUME NEW c \in Devices, Restart(c) PROVE CursorKept(d) \/ Restart(d)
  <2>1. CASE c = d
    BY <1>6, <2>1
  <2>2. CASE c # d
    BY <1>1, <1>6, <2>2 DEF Restart, LoseConnection, CursorKept
  <2>3. QED
    BY <2>1, <2>2
<1>7. ASSUME NEW h \in handlers, AnswerPost(h) PROVE reply'[d] = reply[d] \/ reply'[d].next_offset = 0
  <2> DEFINE acked == Restrict(entries, DOMAIN h.events)
  <2>1. reply' = IF h.from = Gone THEN reply
                 ELSE [reply EXCEPT ![h.from] = [kind |-> "ack", events |-> acked, next_offset |-> 0]]
    BY <1>7 DEF AnswerPost, Answer
  <2> HIDE DEF acked
  <2>2. QED
    BY <1>1, <2>1
<1>8. CASE Serve
  <2>1. \A h \in handlers : AppendEvents(h) \/ LockServerStorage(h) \/ (\E x \in Items : BuildServerRow(h, x))
          => UNCHANGED reply
    BY DEF AppendEvents, LockServerStorage, BuildServerRow, Advance
  <2>2. UNCHANGED pulled
    BY <1>8 DEF Serve, syncVars
  <2>3. QED
    BY <1>7, <1>8, <2>1, <2>2 DEF Serve, HandlerStep, CursorKept
<1>9. CASE Cancel \/ UNCHANGED vars
  BY <1>2, <1>9 DEF Cancel, DropHandler, syncVars, vars
<1>10. ASSUME NEW c \in Devices, ServiceCall(c) \/ StoreCall(c) \/ FinishCall(c)
       PROVE  UNCHANGED <<pulled, reply>>
  BY <1>10 DEF ServiceCall, StoreCall, FinishCall, serverVars, syncVars
<1>11. ASSUME NEW c \in Devices, NEW t \in Tasks,
              \/ BeginRound(c, t) \/ SendPush(c, t) \/ FinishPush(c, t) \/ LockStorage(c, t)
              \/ \E x \in Items : RebuildRow(c, t, x)
       PROVE  UNCHANGED <<pulled, reply>>
  BY <1>11 DEF BeginRound, SendPush, PostEvents, FinishPush, LockStorage, RebuildRow, serverVars
<1>12. ASSUME NEW c \in Devices, NEW t \in Tasks,
              ReceiveAck(c, t) \/ ReceiveLastPage(c, t) \/ RoundFails(c, t)
       PROVE  UNCHANGED pulled /\ reply' = [reply EXCEPT ![c] = NoReply]
  BY <1>12 DEF ReceiveAck, ReceiveLastPage, ConsumeReply, RoundFails, LeaveRound, LoseConnection
<1>13. QED
  BY <1>2, <1>3, <1>4, <1>5, <1>6, <1>8, <1>9, <1>10, <1>11, <1>12 DEF Next, RoundStep

\* A page of the new stream for whatever cursor: complete, and with a cursor that lies
\* within the stream (events_after).
LEMMA PageComplete ==
  ASSUME TypeOK, Below, NEW d \in Devices, NEW t \in Tasks, AnswerPull(d, t)
  PROVE  /\ reply'[d].next_offset < next_server_offset
         /\ \A e \in DOMAIN entries :
              pulled[d] < entries[e] /\ entries[e] <= reply'[d].next_offset
                => e \in DOMAIN reply'[d].events
<1> DEFINE page == EventsAfter(pulled[d])
           newer == {e \in DOMAIN entries : entries[e] > pulled[d]}
<1>1. PICK n \in 0 .. next_server_offset :
        /\ IsNextOffset(page, n)
        /\ reply' = [reply EXCEPT ![d] = [kind |-> "page", events |-> page, next_offset |-> n]]
  BY DEF AnswerPull, GetEvents
<1>2. DOMAIN reply = Devices /\ next_server_offset \in Nat \ {0} /\ pulled[d] \in Nat /\ n \in Nat
  BY DEF TypeOK, ServerTypeOK, SyncTypeOK
<1>3. /\ DOMAIN page = FirstOf(newer, entries, Batch)
      /\ DOMAIN page \subseteq newer
      /\ \A e \in DOMAIN page : page[e] = entries[e]
  BY DEF EventsAfter, Restrict, FirstOf
<1>4. newer \subseteq Event /\ Batch \in Nat /\ \A f \in newer : entries[f] \in Nat
  BY BatchPositive DEF Below, TypeOK, ServerTypeOK, IsLog
<1>5. /\ DOMAIN page = {} => n = 0
      /\ DOMAIN page # {} => \E e \in DOMAIN page : page[e] = n
  BY <1>1 DEF IsNextOffset, Range
<1>6. reply'[d].events = page /\ reply'[d].next_offset = n
  BY <1>1, <1>2
<1> HIDE DEF page
<1>7. n < next_server_offset
  <2>1. CASE DOMAIN page = {}
    BY <1>2, <1>5, <2>1
  <2>2. ASSUME NEW g \in DOMAIN page, page[g] = n PROVE n < next_server_offset
    BY <1>3, <2>2 DEF Below
  <2>3. QED
    BY <1>5, <2>1, <2>2
<1>8. ASSUME NEW e \in DOMAIN entries, pulled[d] < entries[e], entries[e] <= n
      PROVE  e \in DOMAIN page
  <2>1. e \in newer /\ n # 0
    BY <1>2, <1>8 DEF Below
  <2>2. PICK g \in DOMAIN page : page[g] = n
    BY <1>5, <2>1
  <2>3. g \in FirstOf(newer, entries, Batch) /\ entries[e] <= entries[g]
    BY <1>3, <1>8, <2>2
  <2> HIDE DEF newer
  <2>4. QED
    BY <1>3, <1>4, <2>1, <2>3, FirstOfPrefix
<1>9. QED
  BY <1>6, <1>7, <1>8

\* Nothing is skipped beyond a bound while the device lives.
LEMMA SkipsStep ==
  ASSUME TypeOK, Below, [Next]_vars, NEW d \in Devices, ~Restart(d), NEW n \in Nat, SkipsUpTo(d, n)
  PROVE  SkipsUpTo(d, n)'
<1> DEFINE next == next_server_offset
           cursor == reply[d].next_offset
<1>1. next \in Nat \ {0} /\ pulled[d] \in Nat /\ cursor \in Nat
  BY DEF TypeOK, ServerTypeOK, SyncTypeOK
<1>2. /\ next' \in Nat /\ next <= next'
      /\ \A e \in DOMAIN entries' :
           \/ e \in DOMAIN entries /\ entries'[e] = entries[e] /\ entries[e] \in Nat /\ 0 < entries[e]
           \/ entries'[e] \in Nat /\ next <= entries'[e]
  BY StreamAppends DEF Below
<1>3. Contents(d) \subseteq Contents(d)'
  BY ContentsGrow
<1>4. /\ pulled[d] < next \/ pulled[d] <= n
      /\ cursor < next \/ cursor <= n
      /\ \A e \in DOMAIN entries :
           pulled[d] < entries[e] /\ entries[e] <= cursor => e \in DOMAIN reply[d].events \/ entries[e] <= n
      /\ \A e \in DOMAIN entries : entries[e] <= pulled[d] => e \in Contents(d) \/ entries[e] <= n
  BY DEF SkipsUpTo
<1>5. CASE CursorKept(d)
  <2>1. pulled'[d] = pulled[d] /\ (reply'[d] = reply[d] \/ reply'[d].next_offset = 0)
    BY <1>5 DEF CursorKept
  <2>2. /\ pulled'[d] < next' \/ pulled'[d] <= n
        /\ reply'[d].next_offset < next' \/ reply'[d].next_offset <= n
    BY <1>1, <1>2, <1>4, <2>1
  <2>3. ASSUME NEW e \in DOMAIN entries', entries'[e] <= pulled'[d]
        PROVE  e \in Contents(d)' \/ entries'[e] <= n
    BY <1>1, <1>2, <1>3, <1>4, <2>1, <2>3
  <2>4. ASSUME NEW e \in DOMAIN entries', pulled'[d] < entries'[e], entries'[e] <= reply'[d].next_offset
        PROVE  e \in DOMAIN reply'[d].events \/ entries'[e] <= n
    <3>1. CASE reply'[d] = reply[d]
      BY <1>1, <1>2, <1>4, <2>1, <2>4, <3>1
    <3>2. CASE reply'[d].next_offset = 0
      BY <1>1, <1>2, <2>4, <3>2
    <3>3. QED
      BY <2>1, <3>1, <3>2
  <2>5. QED
    BY <2>2, <2>3, <2>4 DEF SkipsUpTo, Contents
<1>6. ASSUME NEW t \in Tasks, AnswerPull(d, t) PROVE SkipsUpTo(d, n)'
  <2>1. UNCHANGED <<log, pulled, entries, next_server_offset>>
    BY <1>6 DEF AnswerPull, GetEvents, deviceVars, syncVars
  <2>2. QED
    BY <1>4, <1>6, <2>1, PageComplete DEF SkipsUpTo, Contents
<1>7. ASSUME NEW t \in Tasks, ReceivePage(d, t) PROVE SkipsUpTo(d, n)'
  <2>1. /\ log' = [log EXCEPT ![d] = PushAll(@, DOMAIN reply[d].events \ Contents(d), reply[d].events, NextPosition(d))]
        /\ pulled' = [pulled EXCEPT ![d] = cursor]
        /\ reply' = [reply EXCEPT ![d] = NoReply]
        /\ UNCHANGED <<entries, next_server_offset>>
    BY <1>7 DEF ReceivePage, AppendReplicated, PushEntries, ConsumeReply
  <2>2. DOMAIN log = Devices /\ DOMAIN pulled = Devices /\ DOMAIN reply = Devices
    BY DEF TypeOK, DeviceTypeOK, ServerTypeOK, SyncTypeOK
  <2>3. DOMAIN log'[d] = Contents(d) \cup DOMAIN reply[d].events
    BY <2>1, <2>2 DEF PushAll, Contents
  <2>4. pulled'[d] = cursor /\ reply'[d].next_offset = 0
    BY <2>1, <2>2 DEF NoReply
  <2>5. ASSUME NEW e \in DOMAIN entries, entries[e] <= cursor
        PROVE  e \in DOMAIN log'[d] \/ entries[e] <= n
    <3>1. entries[e] \in Nat
      BY DEF Below
    <3>2. CASE entries[e] <= pulled[d]
      BY <1>4, <2>3, <3>2
    <3>3. CASE pulled[d] < entries[e]
      BY <1>4, <2>3, <2>5, <3>3
    <3>4. QED
      BY <1>1, <3>1, <3>2, <3>3
  <2>6. \A e \in DOMAIN entries : ~(entries[e] <= 0)
    BY DEF Below
  <2>7. pulled'[d] < next' \/ pulled'[d] <= n
    BY <1>4, <2>1, <2>4
  <2>8. reply'[d].next_offset < next'
    BY <1>1, <2>1, <2>4
  <2>9. \A e \in DOMAIN entries' : ~(entries'[e] <= reply'[d].next_offset)
    BY <2>1, <2>4, <2>6
  <2>10. \A e \in DOMAIN entries' : entries'[e] <= pulled'[d] => e \in Contents(d)' \/ entries'[e] <= n
    BY <2>1, <2>4, <2>5 DEF Contents
  <2> HIDE DEF cursor
  <2>11. QED
    BY <2>7, <2>8, <2>9, <2>10 DEF SkipsUpTo
<1>8. QED
  BY <1>5, <1>6, <1>7, CursorOrigin

\* A device that starts over has skipped nothing.
LEMMA StartsOver ==
  ASSUME TypeOK, Below, NEW d \in Devices, Restart(d)
  PROVE  SkipsUpTo(d, 0)'
<1>1. pulled'[d] = 0 /\ reply'[d].next_offset = 0 /\ UNCHANGED <<entries, next_server_offset>>
  BY DEF Restart, LoseConnection, NoReply, TypeOK, ServerTypeOK, SyncTypeOK
<1>2. \A e \in DOMAIN entries : entries[e] \in Nat /\ 0 < entries[e]
  BY DEF Below
<1>3. QED
  BY <1>1, <1>2 DEF SkipsUpTo

\* A step of the system beside the living server preserves the invariant.
LEMMA LivingCInv ==
  ASSUME CInv, [Next]_vars, passed' = [d \in Devices |-> IF Restart(d) THEN 0 ELSE passed[d]]
  PROVE  CInv'
<1>1. TypeOK' /\ StoredBatches' /\ Below'
  BY ServedBase DEF CInv
<1>2. passed' \in [Devices -> Nat]
  BY DEF CInv
<1>3. ASSUME NEW d \in Devices PROVE SkipsUpTo(d, passed[d])'
  <2>1. CASE Restart(d)
    <3>1. passed'[d] = 0
      BY <2>1
    <3>2. QED
      BY <2>1, <3>1, StartsOver DEF CInv, SkipsUpTo
  <2>2. CASE ~Restart(d)
    <3>1. PICK n \in Nat : n = passed[d]
      BY DEF CInv
    <3>2. SkipsUpTo(d, n)
      BY <3>1 DEF CInv
    <3>3. SkipsUpTo(d, n)'
      BY <2>2, <3>2, SkipsStep DEF CInv
    <3>4. passed'[d] = n
      BY <2>2, <3>1
    <3>5. QED
      BY <3>3, <3>4 DEF SkipsUpTo
  <2>3. QED
    BY <2>1, <2>2
<1>4. QED
  BY <1>1, <1>2, <1>3 DEF CInv

-----------------------------------------------------------------------------
(* The death of the server *)

\* Rounds that fail keep the shape of the state.
LEMMA FailRoundsType ==
  ASSUME TypeOK, NEW lost, FailRounds(lost)
  PROVE  /\ pc' \in [Devices -> [Tasks -> Control]]
         /\ touched' \in [Devices -> [Tasks -> SUBSET Items]]
         /\ orphaned' \in [Devices -> SUBSET Items]
         /\ log_lock' \in [Devices -> Tasks \cup {Free}]
<1> DEFINE kept(d, t) == d \notin lost \/ pc[d][t] \notin {"pushing", "pull"}
           dropped(d) == UNION {touched[d][t] : t \in {t \in Tasks : ~kept(d, t)}}
<1>1. pc \in [Devices -> [Tasks -> Control]] /\ touched \in [Devices -> [Tasks -> SUBSET Items]]
      /\ orphaned \in [Devices -> SUBSET Items] /\ log_lock \in [Devices -> Tasks \cup {Free}]
  BY DEF TypeOK, SyncTypeOK, DeviceTypeOK
<1>2. /\ pc' = [d \in Devices |-> [t \in Tasks |-> IF kept(d, t) THEN pc[d][t] ELSE "idle"]]
      /\ touched' = [d \in Devices |-> [t \in Tasks |-> IF kept(d, t) THEN touched[d][t] ELSE {}]]
      /\ orphaned' = [d \in Devices |-> orphaned[d] \cup dropped(d)]
      /\ log_lock' = [d \in Devices |-> IF d \in lost THEN Free ELSE log_lock[d]]
  BY DEF FailRounds
<1>3. \A d \in Devices : dropped(d) \subseteq Items
  BY <1>1
<1> HIDE DEF kept, dropped
<1>4. pc' \in [Devices -> [Tasks -> Control]]
  BY <1>1, <1>2 DEF Control
<1>5. touched' \in [Devices -> [Tasks -> SUBSET Items]]
  BY <1>1, <1>2
<1>6. orphaned' \in [Devices -> SUBSET Items] /\ log_lock' \in [Devices -> Tasks \cup {Free}]
  BY <1>1, <1>2, <1>3
<1>7. QED
  BY <1>4, <1>5, <1>6

\* The greatest of three numbers is a number, and no less than any of them.
LEMMA MaxOfThree ==
  ASSUME NEW i \in Nat, NEW j \in Nat, NEW k \in Nat
  PROVE  Max({i, j, k}) \in Nat /\ i <= Max({i, j, k}) /\ j <= Max({i, j, k}) /\ k <= Max({i, j, k})
<1>1. \E x \in {i, j, k} : \A y \in {i, j, k} : x >= y
  <2>1. CASE i >= j /\ i >= k
    BY <2>1
  <2>2. CASE j >= i /\ j >= k
    BY <2>2
  <2>3. CASE k >= i /\ k >= j
    BY <2>3
  <2>4. QED
    BY <2>1, <2>2, <2>3
<1>2. Max({i, j, k}) \in {i, j, k} /\ \A y \in {i, j, k} : Max({i, j, k}) >= y
  BY <1>1 DEF Max
<1>3. QED
  BY <1>2

\* The new stream is empty; what each device brings along lies below its bound.
LEMMA CrashCInv ==
  ASSUME CInv, CrashServer
  PROVE  CInv'
<1>1. PICK lost : /\ FailRounds(lost)
                  /\ reply' = [d \in Devices |-> IF d \in lost THEN NoReply ELSE reply[d]]
  BY DEF CrashServer
<1>2. /\ entries' = EmptyLog /\ next_server_offset' = 1
      /\ srv_items' = [x \in Items |-> {}] /\ handlers' = {}
      /\ passed' = [d \in Devices |-> Max({pulled[d], passed[d], reply'[d].next_offset})]
      /\ UNCHANGED <<issued, forgotten, log, stamp, rows, call, pulled, failures, restarts>>
  BY DEF CrashServer
<1>3. DeviceTypeOK /\ ServerTypeOK /\ SyncTypeOK /\ passed \in [Devices -> Nat]
  BY DEF CInv, TypeOK
<1>4. \A d \in Devices : /\ reply'[d].kind \in {"none", "ack", "page"}
                         /\ IsLog(reply'[d].events) /\ reply'[d].next_offset \in Nat
  BY <1>1, <1>3, EmptyLogIsLog DEF ServerTypeOK, NoReply
<1>5. TypeOK'
  <2>1. DeviceTypeOK' /\ SyncTypeOK'
    BY <1>1, <1>2, <1>3, FailRoundsType DEF TypeOK, DeviceTypeOK, SyncTypeOK
  <2>2. ServerTypeOK'
    BY <1>1, <1>2, <1>4, EmptyLogIsLog DEF ServerTypeOK
  <2>3. QED
    BY <2>1, <2>2 DEF TypeOK
<1>6. \A d \in Devices : passed'[d] \in Nat /\ pulled'[d] <= passed'[d] /\ reply'[d].next_offset <= passed'[d]
  BY <1>2, <1>3, <1>4, MaxOfThree DEF SyncTypeOK
<1>7. passed' \in [Devices -> Nat]
  BY <1>2, <1>6
<1>8. DOMAIN entries' = {}
  BY <1>2 DEF EmptyLog
<1>9. (StoredBatches /\ Below)' /\ \A d \in Devices : SkipsUpTo(d, passed[d])'
  BY <1>2, <1>6, <1>8 DEF StoredBatches, Below, SkipsUpTo
<1>10. QED
  BY <1>5, <1>7, <1>9 DEF CInv

-----------------------------------------------------------------------------
\* A device skips offsets of a new stream only below the cursors it brought along from
\* the old ones, however often the server dies and whatever was on its way when it did.
THEOREM RestartInvariance == CrashSpec => []CInv
<1>1. CInv /\ [CrashNext]_restartVars => CInv'
  <2> SUFFICES ASSUME CInv, [CrashNext]_restartVars PROVE CInv'
    OBVIOUS
  <2>1. CASE CrashServer
    BY <2>1, CrashCInv
  <2>2. CASE Next /\ passed' = [d \in Devices |-> IF Restart(d) THEN 0 ELSE passed[d]]
    BY <2>2, LivingCInv
  <2>3. CASE UNCHANGED restartVars
    <3>1. UNCHANGED <<vars, passed>>
      BY <2>3 DEF restartVars
    <3>2. TypeOK' /\ StoredBatches' /\ Below'
      BY <3>1, ServedBase DEF CInv
    <3>3. QED
      BY <3>1, <3>2 DEF CInv, SkipsUpTo, Contents, vars
  <2>4. QED
    BY <2>1, <2>2, <2>3 DEF CrashNext
<1>2. QED
  BY InitCInv, <1>1, PTL DEF CrashSpec

\* What the cursor of a device skips of the new stream is what lies below the cursor it
\* brought along, and nothing else (events_after, pull).
THEOREM SkippedWasPassed == CrashSpec => []OnlyPassedSkipped
<1>1. CInv => OnlyPassedSkipped
  BY DEF CInv, SkipsUpTo, OnlyPassedSkipped
<1>2. QED
  BY RestartInvariance, <1>1, PTL
=============================================================================
