----------------------------- MODULE Rows_proofs -----------------------------
(* The projection tables of OfflineSync: why a row may lag behind the log, and *)
(* why a deleted item does not come back, for every value of the constants.    *)
EXTENDS Refinement_proofs

\* An event only matters to the row of its own item.
LEMMA ProjectionLocal ==
  ASSUME NEW S, NEW new, NEW x, \A e \in new : e.entity_id # x
  PROVE  Projection(S \cup new, x) = Projection(S, x)
<1>1. EventsOfEntity(S \cup new, x) = EventsOfEntity(S, x)
  BY DEF EventsOfEntity
<1>2. QED
  BY <1>1 DEF Projection, Deleted

\* The row of a deleted item is no row.
LEMMA DeletedProjection ==
  ASSUME NEW S, NEW x, Deleted(S, x)
  PROVE  Projection(S, x) = {}
BY DEF Projection

-----------------------------------------------------------------------------
(***************************************************************************)
(* DeletionFinal: rows are only ever written by a rebuild from the current *)
(* log or emptied by a restart.                                            *)
(***************************************************************************)

\* The row of x on d is left alone, rebuilt from the log, or emptied by a restart.
RowWritten(d, x) ==
  \/ rows'[d][x] \in {rows[d][x], Projection(Contents(d), x)}
  \/ rows'[d][x] = {} /\ restarts' # restarts

\* A step does nothing else to a row of a device.
LEMMA RowsWritten ==
  ASSUME TypeOK, [Next]_vars, NEW d \in Devices, NEW x \in Items
  PROVE  RowWritten(d, x)
<1>1. rows \in [Devices -> [Items -> SUBSET Event]]
  BY DEF TypeOK, DeviceTypeOK
<1>2. CASE UNCHANGED rows
  BY <1>2 DEF RowWritten
<1>3. ASSUME NEW c \in Devices, NEW t \in Tasks, NEW y \in Items, RebuildRow(c, t, y)
      PROVE  RowWritten(d, x)
  <2>1. rows' = [rows EXCEPT ![c][y] = Projection(Contents(c), y)]
    BY <1>3 DEF RebuildRow, BuildRow, BuildProjection
  <2>2. QED
    BY <1>1, <2>1 DEF RowWritten
<1>4. ASSUME NEW c \in Devices, FinishCall(c)
      PROVE  RowWritten(d, x)
  <2>1. PICK y : rows' = [rows EXCEPT ![c][y] = Projection(Contents(c), y)]
    BY <1>4 DEF FinishCall, BuildCallRow, CanBuild, BuildProjection
  <2>2. QED
    BY <1>1, <2>1 DEF RowWritten
<1>5. ASSUME NEW c \in Devices, Restart(c)
      PROVE  RowWritten(d, x)
  <2>1. restarts' # restarts
    BY <1>5 DEF Restart, TypeOK, SyncTypeOK
  <2>2. QED
    BY <1>1, <1>5, <2>1 DEF Restart, LoseMemory, RowWritten
<1>6. ASSUME NEW c \in Devices, ServiceCall(c) \/ StoreCall(c)
      PROVE  UNCHANGED rows
  BY <1>6 DEF ServiceCall, CreateItem, ChangeItem, BeginCall, StoreCall, AppendLocal, PushEntries
<1>7. ASSUME NEW c \in Devices, NEW t \in Tasks,
             BeginRound(c, t) \/ RoundStep(c, t) \/ AnswerPull(c, t) \/ RoundFails(c, t) \/ LockStorage(c, t)
      PROVE  UNCHANGED rows
  BY <1>7 DEF BeginRound, LockLog, RoundStep, SendPush, ReceiveAck, MarkSynced, FinishPush, AnswerPull,
              ReceivePage, Touched, AppendReplicated, PushEntries, ReceiveLastPage, UnlockLog, RoundFails, LeaveRound, LockStorage, deviceVars
<1>8. CASE Serve \/ Cancel \/ UNCHANGED vars
  BY <1>2, <1>8 DEF Serve, Cancel, deviceVars, vars
<1>9. QED
  BY <1>2, <1>3, <1>4, <1>5, <1>6, <1>7, <1>8 DEF Next

\* A step leaves a row of the server alone or rebuilds it from the log.
LEMMA ServerRowsWritten ==
  ASSUME TypeOK, [Next]_vars, NEW x \in Items
  PROVE  srv_items'[x] \in {srv_items[x], Projection(DOMAIN entries, x)}
<1>1. srv_items \in [Items -> SUBSET Event]
  BY DEF TypeOK, ServerTypeOK
<1>2. ASSUME NEW h \in handlers, NEW y \in Items, BuildServerRow(h, y)
      PROVE  srv_items'[x] \in {srv_items[x], Projection(DOMAIN entries, x)}
  BY <1>1, <1>2 DEF BuildServerRow, Advance
<1>3. CASE Serve
  BY <1>2, <1>3 DEF Serve, HandlerStep, AppendEvents, Advance, NewEvents, RowsDue, LockServerStorage, Advance, AnswerPost, Answer
<1>4. ASSUME NEW c \in Devices, ServiceCall(c) \/ StoreCall(c) \/ FinishCall(c) \/ Restart(c)
      PROVE  UNCHANGED srv_items
  BY <1>4 DEF ServiceCall, StoreCall, FinishCall, Restart, LoseConnection, serverVars
<1>5. ASSUME NEW c \in Devices, NEW t \in Tasks,
             \/ BeginRound(c, t) \/ RoundStep(c, t) \/ AnswerPull(c, t) \/ RoundFails(c, t) \/ LockStorage(c, t)
             \/ \E y \in Items : RebuildRow(c, t, y)
      PROVE  UNCHANGED srv_items
  BY <1>5 DEF BeginRound, RoundStep, SendPush, PostEvents, ReceiveAck, ConsumeReply, FinishPush,
              AnswerPull, GetEvents, ReceivePage, Touched, ReceiveLastPage, RoundFails, LeaveRound, LoseConnection,
              LockStorage, RebuildRow, serverVars
<1>6. CASE Cancel \/ UNCHANGED vars
  BY <1>6 DEF Cancel, DropHandler, vars
<1>7. QED
  BY <1>3, <1>4, <1>5, <1>6 DEF Next

\* Deletion wins on every replica: the row of a deleted item, once taken out, is
\* never back, whatever arrives later (build_projection).
THEOREM DeletionWins == Spec => DeletionFinal
<1> DEFINE StaysOut ==
      \A x \in Items :
        /\ Deleted(DOMAIN entries, x) /\ srv_items[x] = {} => srv_items'[x] = {}
        /\ \A d \in Devices :
             Deleted(Contents(d), x) /\ rows[d][x] = {} => rows'[d][x] = {}
<1>1. IInv /\ [Next]_vars => [StaysOut]_vars
  <2> SUFFICES ASSUME IInv, [Next]_vars PROVE StaysOut
    OBVIOUS
  <2>1. TypeOK
    BY DEF IInv
  <2>2. \A x \in Items : srv_items'[x] \in {srv_items[x], Projection(DOMAIN entries, x)}
    BY <2>1, ServerRowsWritten
  <2>3. \A d \in Devices, x \in Items : RowWritten(d, x)
    BY <2>1, RowsWritten
  <2>4. QED
    BY <2>2, <2>3, DeletedProjection DEF RowWritten
<1>2. QED
  BY Invariance, <1>1, PTL DEF Spec, DeletionFinal

-----------------------------------------------------------------------------
(***************************************************************************)
(* SyncKeepsLog and RowsGrow: while a device runs its log only grows, so a *)
(* rebuild finds in the log whatever the row was folded from.              *)
(***************************************************************************)

\* What d holds stays, where it was and with the marker it had.
Keeps(d) ==
  \A e \in Contents(d) :
    /\ e \in DOMAIN log'[d] /\ log'[d][e] = log[d][e]
    /\ stamp[d][e] # 0 => stamp'[d][e] = stamp[d][e]

\* A log that is left alone keeps what it holds.
LEMMA IdleKeeps ==
  ASSUME NEW d \in Devices, log'[d] = log[d], stamp'[d] = stamp[d]
  PROVE  Keeps(d)
BY DEF Keeps, Contents

\* The append loop of `append` and `append_local` pushes behind what is there.
LEMMA PushEntriesKeeps ==
  ASSUME TypeOK, NEW c \in Devices, NEW batch, PushEntries(c, batch), NEW d \in Devices
  PROVE  Keeps(d)
<1> DEFINE new == DOMAIN batch \ Contents(c)
<1>1. /\ log' = [log EXCEPT ![c] = PushAll(@, new, batch, NextPosition(c))]
      /\ stamp' = [stamp EXCEPT ![c] = [e \in Contents(c) \cup new |->
                      IF e \in new THEN batch[e] ELSE stamp[c][e]]]
  BY DEF PushEntries
<1>2. DOMAIN log = Devices /\ DOMAIN stamp = Devices
  BY DEF TypeOK, DeviceTypeOK
<1>3. CASE d = c
  <2>1. log'[d] = PushAll(log[d], new, batch, NextPosition(c))
    BY <1>1, <1>2, <1>3
  <2>2. stamp'[d] = [e \in Contents(c) \cup new |-> IF e \in new THEN batch[e] ELSE stamp[c][e]]
    BY <1>1, <1>2, <1>3
  <2>3. \A e \in Contents(d) : e \notin new
    BY <1>3
  <2> HIDE DEF new
  <2>4. QED
    BY <1>3, <2>1, <2>2, <2>3 DEF Keeps, Contents, PushAll
<1>4. CASE d # c
  BY <1>1, <1>2, <1>4 DEF Keeps, Contents
<1>5. QED
  BY <1>3, <1>4

\* An acknowledgement tells an event that is marked already what it is marked with.
LEMMA MarkSyncedKeeps ==
  ASSUME IInv, NEW c \in Devices, MarkSynced(c, reply[c].events), NEW d \in Devices
  PROVE  Keeps(d)
<1> DEFINE acked == reply[c].events
<1>1. DOMAIN stamp = Devices
  BY DEF IInv, TypeOK, DeviceTypeOK
<1>2. log' = log /\ stamp' = [stamp EXCEPT ![c] = [e \in Contents(c) |->
                                IF e \in DOMAIN acked THEN acked[e] ELSE stamp[c][e]]]
  BY DEF MarkSynced
<1>3. \A e \in DOMAIN acked : acked[e] = entries[e]
  BY DEF IInv, InFlightSound, ReplySound
<1>4. \A e \in Contents(c) : stamp[c][e] # 0 => entries[e] = stamp[c][e]
  BY DEF IInv, StampAgrees
<1> HIDE DEF acked
<1>5. QED
  BY <1>1, <1>2, <1>3, <1>4 DEF Keeps, Contents

\* Only a restart of the device itself takes anything out of its log, and then it
\* takes the rows as well.
LEMMA LogsGrow ==
  ASSUME IInv, [Next]_vars, NEW d \in Devices
  PROVE  Keeps(d) \/ (Restart(d) /\ restarts' # restarts /\ \A x \in Items : rows'[d][x] = {})
<1>1. TypeOK
  BY DEF IInv
<1>2. DOMAIN log = Devices /\ DOMAIN stamp = Devices /\ DOMAIN rows = Devices
  BY <1>1 DEF TypeOK, DeviceTypeOK
<1>3. ASSUME UNCHANGED <<log, stamp>>
      PROVE  Keeps(d)
  BY <1>3, IdleKeeps
<1>4. ASSUME NEW c \in Devices, Restart(c)
      PROVE  Keeps(d) \/ (Restart(d) /\ restarts' # restarts /\ \A x \in Items : rows'[d][x] = {})
  <2>1. restarts' # restarts
    BY <1>1, <1>4 DEF Restart, TypeOK, SyncTypeOK
  <2>2. /\ log' = [log EXCEPT ![c] = EmptyLog] /\ stamp' = [stamp EXCEPT ![c] = EmptyLog]
        /\ rows' = [rows EXCEPT ![c] = [x \in Items |-> {}]]
    BY <1>4 DEF Restart, LoseMemory
  <2>3. CASE d = c
    BY <1>2, <1>4, <2>1, <2>2, <2>3
  <2>4. CASE d # c
    <3>1. log'[d] = log[d] /\ stamp'[d] = stamp[d]
      BY <1>2, <2>2, <2>4
    <3>2. QED
      BY <3>1, IdleKeeps
  <2>5. QED
    BY <2>3, <2>4
<1>5. ASSUME NEW c \in Devices, StoreCall(c)
      PROVE  Keeps(d)
  BY <1>1, <1>5, PushEntriesKeeps DEF StoreCall, AppendLocal
<1>6. ASSUME NEW c \in Devices, NEW t \in Tasks, ReceivePage(c, t)
      PROVE  Keeps(d)
  BY <1>1, <1>6, PushEntriesKeeps DEF ReceivePage, AppendReplicated
<1>7. ASSUME NEW c \in Devices, NEW t \in Tasks, ReceiveAck(c, t)
      PROVE  Keeps(d)
  BY <1>7, MarkSyncedKeeps DEF ReceiveAck
<1>8. ASSUME NEW c \in Devices, ServiceCall(c) \/ FinishCall(c)
      PROVE  UNCHANGED <<log, stamp>>
  BY <1>8 DEF ServiceCall, CreateItem, ChangeItem, BeginCall, FinishCall, BuildCallRow
<1>9. ASSUME NEW c \in Devices, NEW t \in Tasks,
             \/ BeginRound(c, t) \/ SendPush(c, t) \/ FinishPush(c, t) \/ ReceiveLastPage(c, t)
             \/ AnswerPull(c, t) \/ RoundFails(c, t) \/ LockStorage(c, t)
             \/ \E y \in Items : RebuildRow(c, t, y)
      PROVE  UNCHANGED <<log, stamp>>
  BY <1>9 DEF BeginRound, LockLog, SendPush, FinishPush, ReceiveLastPage, UnlockLog, AnswerPull,
              RoundFails, LockStorage, RebuildRow, BuildRow, deviceVars
<1>10. CASE Serve \/ Cancel \/ UNCHANGED vars
  BY <1>3, <1>10 DEF Serve, Cancel, deviceVars, vars
<1>11. QED
  BY <1>3, <1>4, <1>5, <1>6, <1>7, <1>8, <1>9, <1>10 DEF Next, RoundStep

\* No round ever takes an event out of a device's log, moves it, or makes it unsynced
\* again (push, mark_synced, append).
THEOREM LogsKept == Spec => SyncKeepsLog
<1> DEFINE Kept == restarts' = restarts => \A d \in Devices : Keeps(d)
<1>1. IInv /\ [Next]_vars => [Kept]_vars
  BY LogsGrow
<1>2. QED
  BY Invariance, <1>1, PTL DEF Spec, SyncKeepsLog, Keeps

\* A row shows only events of its item that its replica holds.
RowsSound ==
  \A x \in Items :
    /\ srv_items[x] \subseteq EventsOfEntity(DOMAIN entries, x)
    /\ \A d \in Devices : rows[d][x] \subseteq EventsOfEntity(Contents(d), x)

\* The projection of an item is taken from the item's events, and is all of them
\* unless it is deleted.
LEMMA ProjectionOfEvents ==
  ASSUME NEW S, NEW x
  PROVE  /\ Projection(S, x) \subseteq EventsOfEntity(S, x)
         /\ ~Deleted(S, x) => Projection(S, x) = EventsOfEntity(S, x)
BY DEF Projection

\* RowsSound is preserved because logs and stream only grow.
LEMMA NextRowsSound ==
  ASSUME IInv, RowsSound, [Next]_vars
  PROVE  RowsSound'
<1> SUFFICES ASSUME NEW x \in Items
             PROVE  /\ srv_items'[x] \subseteq EventsOfEntity(DOMAIN entries', x)
                    /\ \A d \in Devices : rows'[d][x] \subseteq EventsOfEntity(Contents(d)', x)
  BY DEF RowsSound, Contents
<1>1. TypeOK
  BY DEF IInv
<1>2. srv_items'[x] \subseteq EventsOfEntity(DOMAIN entries, x)
  BY <1>1, ServerRowsWritten, ProjectionOfEvents DEF RowsSound
<1>3. ASSUME NEW d \in Devices PROVE rows'[d][x] \subseteq EventsOfEntity(Contents(d)', x)
  <2>1. rows'[d][x] \subseteq EventsOfEntity(Contents(d), x)
    BY <1>1, RowsWritten, ProjectionOfEvents DEF RowsSound, RowWritten
  <2>2. Keeps(d) \/ rows'[d][x] = {}
    BY LogsGrow
  <2>3. QED
    BY <2>1, <2>2 DEF Keeps, Contents, EventsOfEntity
<1>4. QED
  BY <1>2, <1>3, StreamStep DEF EventsOfEntity

\* No replica ever shows an event that is not in its log (build_projection).
THEOREM RowsAreSound == Spec => []RowsSound
<1>1. Init => RowsSound
  BY DEF Init, DeviceInit, ServerInit, RowsSound
<1>2. IInv /\ RowsSound /\ [Next]_vars => RowsSound'
  BY NextRowsSound
<1>3. QED
  BY Invariance, <1>1, <1>2, PTL DEF Spec

\* No rebuild, by whichever handler, call or round, takes a row back to an older log:
\* only deletion and a restart remove events from a row (build_projection).
THEOREM RowsOnlyGrow == Spec => RowsGrow
<1> DEFINE Grown ==
             \A x \in Items :
               /\ srv_items[x] \subseteq srv_items'[x] \/ Deleted(DOMAIN entries, x)
               /\ \A d \in Devices :
                    \/ rows[d][x] \subseteq rows'[d][x]
                    \/ Deleted(Contents(d), x)
                    \/ restarts' # restarts
<1>1. IInv /\ RowsSound /\ [Next]_vars => [Grown]_vars
  <2> SUFFICES ASSUME IInv, RowsSound, [Next]_vars PROVE Grown
    OBVIOUS
  <2>1. TypeOK
    BY DEF IInv
  <2>2. \A x \in Items : srv_items'[x] \in {srv_items[x], Projection(DOMAIN entries, x)}
    BY <2>1, ServerRowsWritten
  <2>3. \A d \in Devices, x \in Items : RowWritten(d, x)
    BY <2>1, RowsWritten
  <2>4. QED
    BY <2>2, <2>3, ProjectionOfEvents DEF RowsSound, RowWritten
<1>2. QED
  BY Invariance, RowsAreSound, <1>1, PTL DEF Spec, RowsGrow

-----------------------------------------------------------------------------
(***************************************************************************)
(* StaleRowsExplained is inductive beside TypeOK: it needs nothing of the  *)
(* mutexes.  One step per action that writes a log, a row or a reason for  *)
(* a row to lag.                                                           *)
(***************************************************************************)

\* The row of x on d is up to date, or its lag has a reason.
Explained(d, x) ==
  rows[d][x] # Projection(Contents(d), x) => RebuildDue(d, x) \/ x \in orphaned[d]

\* A step of one device that keeps every row of it explained keeps all rows explained.
LEMMA OtherDevices ==
  ASSUME TypeOK, StaleRowsExplained, NEW c \in Devices,
         \A d \in Devices \ {c} :
           /\ rows'[d] = rows[d] /\ log'[d] = log[d] /\ call'[d] = call[d]
           /\ touched'[d] = touched[d] /\ orphaned'[d] = orphaned[d],
         \A x \in Items : Explained(c, x)'
  PROVE  StaleRowsExplained'
<1> SUFFICES ASSUME NEW d \in Devices, NEW x \in Items PROVE Explained(d, x)'
  BY DEF StaleRowsExplained, Explained
<1>1. Explained(d, x)
  BY DEF StaleRowsExplained, Explained
<1>2. CASE d # c
  BY <1>1, <1>2 DEF Explained, RebuildDue, Contents
<1>3. QED
  BY <1>2

\* Steps that touch neither rows, logs nor reasons.
LEMMA IdleRowStep ==
  ASSUME StaleRowsExplained, UNCHANGED <<log, rows, call, touched, orphaned>>
  PROVE  StaleRowsExplained'
BY DEF StaleRowsExplained, RebuildDue, Contents

\* A new call only adds a reason; a stored event makes only the row lag that the
\* call is about to rebuild; the call rebuilds it before it returns.
LEMMA CallRowStep ==
  ASSUME TypeOK, StaleRowsExplained, NEW c \in Devices,
         ServiceCall(c) \/ StoreCall(c) \/ FinishCall(c) \/ Restart(c)
  PROVE  StaleRowsExplained'
<1>1. /\ DOMAIN log = Devices /\ rows \in [Devices -> [Items -> SUBSET Event]]
      /\ call \in [Devices -> Call \cup {NoCall}]
      /\ touched \in [Devices -> [Tasks -> SUBSET Items]] /\ orphaned \in [Devices -> SUBSET Items]
  BY DEF TypeOK, DeviceTypeOK, SyncTypeOK
<1>2. \A x \in Items : Explained(c, x)
  BY DEF StaleRowsExplained, Explained
<1>3. CASE ServiceCall(c)
  <2>1. PICK id \in EventIds, y \in Items, p \in Payloads : BeginCall(c, id, y, p)
    BY <1>3 DEF ServiceCall, CreateItem, ChangeItem, Payloads
  <2>2. call[c] = NoCall /\ UNCHANGED <<log, rows, touched, orphaned>>
    BY <1>3, <2>1 DEF BeginCall, ServiceCall, syncVars
  <2>3. \A d \in Devices \ {c} : call'[d] = call[d]
    BY <1>1, <2>1 DEF BeginCall
  <2>4. \A x \in Items : Explained(c, x)'
    BY <1>2, <2>2 DEF Explained, RebuildDue, Contents
  <2>5. QED
    BY <2>2, <2>3, <2>4, OtherDevices
<1>4. CASE StoreCall(c)
  <2> DEFINE batch == [f \in {call[c].event} |-> 0]
             new == DOMAIN batch \ Contents(c)
             e == call[c].event
  <2>1. /\ call[c] # NoCall /\ call' = [call EXCEPT ![c].st = "build"]
        /\ log' = [log EXCEPT ![c] = PushAll(@, new, batch, NextPosition(c))]
        /\ UNCHANGED <<rows, touched, orphaned>>
    BY <1>4 DEF StoreCall, AppendLocal, PushEntries, syncVars
  <2>2. call[c] \in Call
    BY <1>1, <2>1
  <2>3. call'[c] = [event |-> e, st |-> "build"]
    BY <1>1, <2>1, <2>2 DEF Call
  <2>4. \A d \in Devices \ {c} : call'[d] = call[d] /\ log'[d] = log[d]
    BY <1>1, <2>1
  <2>5. Contents(c)' = Contents(c) \cup new
    BY <1>1, <2>1 DEF Contents, PushAll
  <2>6. ASSUME NEW x \in Items PROVE Explained(c, x)'
    <3>1. CASE x = e.entity_id
      <4>1. call'[c] # NoCall
        <5>1. call'[c] \in Call
          BY <2>2, <2>3 DEF Call
        <5>2. QED
          BY <5>1, NoCallIsNoRecord
      <4>2. QED
        BY <2>3, <3>1, <4>1 DEF Explained, RebuildDue
    <3>2. CASE x # e.entity_id
      <4>1. Projection(Contents(c)', x) = Projection(Contents(c), x)
        <5>1. \A f \in new : f.entity_id # x
          BY <3>2
        <5> HIDE DEF new
        <5>2. Projection(Contents(c) \cup new, x) = Projection(Contents(c), x)
          BY <5>1, ProjectionLocal
        <5>3. QED
          BY <2>5, <5>2
      <4>2. QED
        BY <1>2, <2>1, <3>2, <4>1 DEF Explained, RebuildDue
    <3>3. QED
      BY <3>1, <3>2
  <2>7. QED
    BY <2>1, <2>4, <2>6, OtherDevices
<1>5. CASE FinishCall(c)
  <2> DEFINE y == call[c].event.entity_id
  <2>1. /\ call[c] # NoCall
        /\ rows' = [rows EXCEPT ![c][y] = Projection(Contents(c), y)]
        /\ call' = [call EXCEPT ![c] = NoCall]
        /\ orphaned' = [orphaned EXCEPT ![c] = @ \ {y}]
        /\ UNCHANGED <<log, touched>>
    BY <1>5 DEF FinishCall, BuildCallRow, CanBuild, BuildProjection
  <2>2. ASSUME NEW x \in Items PROVE Explained(c, x)'
    <3>1. CASE x = y
      BY <1>1, <2>1, <3>1 DEF Explained, Contents
    <3>2. CASE x # y
      BY <1>1, <1>2, <2>1, <3>2 DEF Explained, RebuildDue, Contents
    <3>3. QED
      BY <3>1, <3>2
  <2> HIDE DEF y
  <2>3. \A d \in Devices \ {c} : rows'[d] = rows[d] /\ call'[d] = call[d] /\ orphaned'[d] = orphaned[d]
    BY <1>1, <2>1
  <2>4. QED
    BY <2>1, <2>2, <2>3, OtherDevices
<1>6. CASE Restart(c)
  <2>1. /\ log' = [log EXCEPT ![c] = EmptyLog]
        /\ rows' = [rows EXCEPT ![c] = [x \in Items |-> {}]]
        /\ call' = [call EXCEPT ![c] = NoCall]
        /\ touched' = [touched EXCEPT ![c] = [t \in Tasks |-> {}]]
        /\ orphaned' = [orphaned EXCEPT ![c] = {}]
    BY <1>6 DEF Restart, LoseMemory
  <2>2. \A x \in Items : Projection(Contents(c)', x) = {} /\ rows'[c][x] = {}
    BY <1>1, <2>1 DEF Contents, EmptyLog, Projection, EventsOfEntity
  <2>3. \A x \in Items : Explained(c, x)'
    BY <2>2 DEF Explained
  <2>4. \A d \in Devices \ {c} :
          /\ rows'[d] = rows[d] /\ log'[d] = log[d] /\ call'[d] = call[d]
          /\ touched'[d] = touched[d] /\ orphaned'[d] = orphaned[d]
    BY <1>1, <2>1
  <2>5. QED
    BY <2>3, <2>4, OtherDevices
<1>7. QED
  BY <1>3, <1>4, <1>5, <1>6

\* A page makes only rows lag that the round will rebuild; a failed round orphans
\* them; a rebuild makes a row current.
LEMMA RoundRowStep ==
  ASSUME TypeOK, StaleRowsExplained, NEW c \in Devices, NEW t \in Tasks,
         ReceivePage(c, t) \/ RoundFails(c, t) \/ (\E y \in Items : RebuildRow(c, t, y))
  PROVE  StaleRowsExplained'
<1>1. /\ DOMAIN log = Devices /\ rows \in [Devices -> [Items -> SUBSET Event]]
      /\ touched \in [Devices -> [Tasks -> SUBSET Items]] /\ orphaned \in [Devices -> SUBSET Items]
  BY DEF TypeOK, DeviceTypeOK, SyncTypeOK
<1>2. \A x \in Items : Explained(c, x)
  BY DEF StaleRowsExplained, Explained
<1>3. CASE ReceivePage(c, t)
  <2> DEFINE page == reply[c].events
             new == DOMAIN page \ Contents(c)
             hit == {e.entity_id : e \in DOMAIN page}
  <2>1. /\ log' = [log EXCEPT ![c] = PushAll(@, new, page, NextPosition(c))]
        /\ touched' = [touched EXCEPT ![c][t] = @ \cup hit]
        /\ UNCHANGED <<rows, call, orphaned>>
    BY <1>3 DEF ReceivePage, Touched, AppendReplicated, PushEntries
  <2>2. Contents(c)' = Contents(c) \cup new
    BY <1>1, <2>1 DEF Contents, PushAll
  <2>3. touched'[c][t] = touched[c][t] \cup hit /\ \A u \in Tasks : touched[c][u] \subseteq touched'[c][u]
    BY <1>1, <2>1
  <2>4. ASSUME NEW x \in Items PROVE Explained(c, x)'
    <3>1. CASE x \in hit
      BY <2>3, <3>1 DEF Explained, RebuildDue
    <3>2. CASE x \notin hit
      <4>1. Projection(Contents(c)', x) = Projection(Contents(c), x)
        <5>1. \A f \in new : f.entity_id # x
          BY <3>2
        <5> HIDE DEF new
        <5>2. Projection(Contents(c) \cup new, x) = Projection(Contents(c), x)
          BY <5>1, ProjectionLocal
        <5>3. QED
          BY <2>2, <5>2
      <4>2. QED
        BY <1>2, <2>1, <2>3, <4>1 DEF Explained, RebuildDue
    <3>3. QED
      BY <3>1, <3>2
  <2>5. \A d \in Devices \ {c} : log'[d] = log[d] /\ touched'[d] = touched[d]
    BY <1>1, <2>1
  <2>6. QED
    BY <2>1, <2>4, <2>5, OtherDevices
<1>4. CASE RoundFails(c, t)
  <2>1. /\ touched' = [touched EXCEPT ![c][t] = {}]
        /\ orphaned' = [orphaned EXCEPT ![c] = @ \cup touched[c][t]]
        /\ UNCHANGED <<log, rows, call>>
    BY <1>4 DEF RoundFails, LeaveRound, UnlockLog
  <2>2. /\ orphaned'[c] = orphaned[c] \cup touched[c][t]
        /\ \A u \in Tasks \ {t} : touched'[c][u] = touched[c][u]
    BY <1>1, <2>1
  <2>3. \A x \in Items : Explained(c, x)'
    BY <1>2, <2>1, <2>2 DEF Explained, RebuildDue, Contents
  <2>4. \A d \in Devices \ {c} : touched'[d] = touched[d] /\ orphaned'[d] = orphaned[d]
    BY <1>1, <2>1
  <2>5. QED
    BY <2>1, <2>3, <2>4, OtherDevices
<1>5. ASSUME NEW y \in Items, RebuildRow(c, t, y)
      PROVE  StaleRowsExplained'
  <2>1. /\ rows' = [rows EXCEPT ![c][y] = Projection(Contents(c), y)]
        /\ touched' = [touched EXCEPT ![c][t] = @ \ {y}]
        /\ orphaned' = [orphaned EXCEPT ![c] = @ \ {y}]
        /\ UNCHANGED <<log, call>>
    BY <1>5 DEF RebuildRow, BuildRow, BuildProjection
  <2>2. ASSUME NEW x \in Items PROVE Explained(c, x)'
    <3>1. CASE x = y
      BY <1>1, <2>1, <3>1 DEF Explained, Contents
    <3>2. CASE x # y
      <4>1. rows'[c][x] = rows[c][x] /\ (x \in orphaned'[c] <=> x \in orphaned[c])
        BY <1>1, <2>1, <3>2
      <4>2. \A u \in Tasks : x \in touched'[c][u] <=> x \in touched[c][u]
        BY <1>1, <2>1, <3>2
      <4>3. QED
        BY <1>2, <2>1, <4>1, <4>2 DEF Explained, RebuildDue, Contents
    <3>3. QED
      BY <3>1, <3>2
  <2>3. \A d \in Devices \ {c} :
          rows'[d] = rows[d] /\ touched'[d] = touched[d] /\ orphaned'[d] = orphaned[d]
    BY <1>1, <2>1
  <2>4. QED
    BY <2>1, <2>2, <2>3, OtherDevices
<1>6. QED
  BY <1>3, <1>4, <1>5

\* A row of a device lags behind its log only while its rebuild is due, or when a
\* failed round dropped it: no interleaving of any number of service calls, rounds
\* and tasks leaves a stale row in another way.
THEOREM RowsExplained == Spec => []StaleRowsExplained
<1>1. Init => StaleRowsExplained
  BY DEF Init, DeviceInit, StaleRowsExplained, Contents, EmptyLog, Projection, EventsOfEntity
<1>2. TypeOK /\ StaleRowsExplained /\ [Next]_vars => StaleRowsExplained'
  <2> SUFFICES ASSUME TypeOK, StaleRowsExplained, [Next]_vars PROVE StaleRowsExplained'
    OBVIOUS
  <2>1. ASSUME NEW c \in Devices, NEW t \in Tasks,
               BeginRound(c, t) \/ RoundStep(c, t) \/ AnswerPull(c, t) \/ LockStorage(c, t)
        PROVE  ReceivePage(c, t) \/ UNCHANGED <<log, rows, call, touched, orphaned>>
    BY <2>1 DEF BeginRound, LockLog, RoundStep, SendPush, ReceiveAck, MarkSynced, FinishPush, AnswerPull,
                ReceiveLastPage, UnlockLog, LockStorage, deviceVars, syncVars
  <2>2. CASE Serve \/ Cancel \/ UNCHANGED vars
    <3>1. UNCHANGED <<log, rows, call, touched, orphaned>>
      BY <2>2 DEF Serve, Cancel, deviceVars, syncVars, vars
    <3>2. QED
      BY <3>1, IdleRowStep
  <2>3. QED
    BY <2>1, <2>2, IdleRowStep, CallRowStep, RoundRowStep DEF Next
<1>3. QED
  BY TypeCorrect, <1>1, <1>2, PTL DEF Spec

-----------------------------------------------------------------------------
(***************************************************************************)
(* AckedIsServed and ServerRowRepairable: from the moment the server       *)
(* stores an event until its row shows it, some handler has yet to rebuild *)
(* that row, or the author has not seen the acknowledgement and will push  *)
(* again.  A page never brings an author an event of its own that it       *)
(* lacks, unless it has forgotten the event in a restart: of the others it *)
(* learns only by acknowledgements.                                        *)
(***************************************************************************)

\* A handler has yet to rebuild the rows its batch needs.
HandlersServe ==
  \A h \in handlers : h.st # "received" =>
    \A e \in DOMAIN h.events : e.entity_id \in h.todo \/ Reflected(e)

AcksServed ==
  \A d \in Devices : reply[d].kind = "ack" => \A e \in DOMAIN reply[d].events : Reflected(e)

\* What an author has written and not forgotten it still holds; what the server stored
\* of that and does not show, it holds as unsynced.
AuthorsRetry ==
  /\ \A e \in issued : e.replica_id \in Devices /\ (e \in Contents(e.replica_id) \/ e \in forgotten)
  /\ \A e \in DOMAIN entries : Reflected(e) \/ e \in Unsynced(e.replica_id) \/ e \in forgotten

SInv == HandlersServe /\ AcksServed /\ AuthorsRetry

\* Initially there is nothing to serve.
LEMMA InitSInv == Init => SInv
BY DEF Init, DeviceInit, ServerInit, SyncInit, SInv, HandlersServe, AcksServed, AuthorsRetry,
       NoReply, EmptyLog

\* What the table shows it goes on showing, however the row is rebuilt.
LEMMA ReflectedStays ==
  ASSUME TypeOK, [Next]_vars, NEW e, Reflected(e)
  PROVE  Reflected(e)'
<1>1. e \in DOMAIN entries /\ e \in DOMAIN entries'
  BY StreamStep DEF Reflected
<1>2. e \in Event /\ e.entity_id \in Items
  BY <1>1 DEF TypeOK, ServerTypeOK, IsLog, Event
<1> DEFINE x == e.entity_id
<1>3. srv_items'[x] \in {srv_items[x], Projection(DOMAIN entries, x)}
  BY <1>2, ServerRowsWritten
<1>4. Deleted(DOMAIN entries, x) => Deleted(DOMAIN entries', x)
  BY StreamStep DEF Deleted, EventsOfEntity
<1>5. CASE e.payload = "Deleted"
  <2>1. Deleted(DOMAIN entries, x)
    BY <1>1, <1>5 DEF Deleted, EventsOfEntity
  <2>2. Projection(DOMAIN entries, x) = {}
    BY <2>1, DeletedProjection
  <2>3. QED
    BY <1>1, <1>3, <1>5, <2>2 DEF Reflected
<1>6. CASE e.payload # "Deleted"
  <2>1. CASE Deleted(DOMAIN entries, x)
    BY <1>1, <1>4, <1>6, <2>1 DEF Reflected
  <2>2. CASE ~Deleted(DOMAIN entries, x)
    <3>1. e \in Projection(DOMAIN entries, x) /\ e \in srv_items[x]
      BY <1>1, <1>6, <2>2, ProjectionOfEvents DEF Reflected, EventsOfEntity
    <3>2. QED
      BY <1>1, <1>3, <1>6, <3>1 DEF Reflected
  <2>3. QED
    BY <2>1, <2>2
<1>7. QED
  BY <1>5, <1>6

\* A rebuild makes its row show every stored event of the item.
LEMMA RebuildReflects ==
  ASSUME TypeOK, NEW x \in Items, srv_items' = [srv_items EXCEPT ![x] = Projection(DOMAIN entries, x)],
         UNCHANGED entries, NEW e \in DOMAIN entries, e.entity_id = x
  PROVE  Reflected(e)'
<1>1. srv_items'[x] = Projection(DOMAIN entries, x)
  BY DEF TypeOK, ServerTypeOK
<1>2. e.payload = "Deleted" => Deleted(DOMAIN entries, x)
  BY DEF Deleted, EventsOfEntity
<1>3. Deleted(DOMAIN entries, x) => srv_items'[x] = {}
  BY <1>1, DeletedProjection
<1>4. ~Deleted(DOMAIN entries, x) => e \in srv_items'[x]
  BY <1>1, ProjectionOfEvents DEF EventsOfEntity
<1>5. QED
  BY <1>2, <1>3, <1>4 DEF Reflected

\* h is what g becomes by its own step.
Advanced(g, h) ==
  /\ h.events = g.events
  /\ \/ AppendEvents(g) /\ h.todo = RowsDue(g)
     \/ LockServerStorage(g) /\ h.todo = g.todo
     \/ \E x \in Items : BuildServerRow(g, x) /\ h.todo = g.todo \ {x}

\* A handler after a step is one from before, or one that has just received its batch,
\* or the one that has taken the step.
LEMMA HandlerOrigin ==
  ASSUME TypeOK, [Next]_vars, NEW h \in handlers', h.st # "received"
  PROVE  \/ \E g \in handlers : g.st = h.st /\ g.todo = h.todo /\ g.events = h.events
         \/ \E g \in handlers : Advanced(g, h)
<1>1. \A g \in handlers : g = [from |-> g.from, st |-> g.st, todo |-> g.todo, events |-> g.events]
  BY DEF TypeOK, ServerTypeOK, IsHandler
<1>2. CASE h \in handlers
  BY <1>2
<1>3. ASSUME NEW d \in Devices, LoseConnection(d)
      PROVE  \E g \in handlers : g.st = h.st /\ g.todo = h.todo /\ g.events = h.events
  <2>1. PICK g \in handlers : h = [g EXCEPT !.from = IF @ = d THEN Gone ELSE @]
    BY <1>3 DEF LoseConnection
  <2>2. h = [from |-> (IF g.from = d THEN Gone ELSE g.from), st |-> g.st, todo |-> g.todo, events |-> g.events]
    BY <1>1, <2>1
  <2>3. QED
    BY <2>2
<1>4. ASSUME NEW d \in Devices, NEW t \in Tasks, SendPush(d, t), h \notin handlers PROVE FALSE
  BY <1>4 DEF SendPush, PostEvents
<1>5. ASSUME Serve, h \notin handlers
      PROVE  \E g \in handlers : Advanced(g, h)
  <2>1. ASSUME NEW g \in handlers, NEW st \in {"received", "stored", "building"}, NEW todo \in SUBSET Items,
               Advance(g, st, todo)
        PROVE  h.todo = todo /\ h.events = g.events
    <3> DEFINE a == [g EXCEPT !.st = st, !.todo = todo]
    <3>1. h = a
      BY <1>5, <2>1 DEF Advance
    <3>2. a = [from |-> g.from, st |-> st, todo |-> todo, events |-> g.events]
      BY AdvanceShape DEF TypeOK, ServerTypeOK
    <3> HIDE DEF a
    <3>3. QED
      BY <3>1, <3>2
  <2>2. PICK g \in handlers : \/ AppendEvents(g) \/ LockServerStorage(g)
                              \/ \E x \in Items : BuildServerRow(g, x)
    BY <1>5 DEF Serve, HandlerStep, AnswerPost, Answer
  <2>3. IsHandler(g) /\ g.todo \in SUBSET Items /\ g.st \in {"received", "stored", "building"}
    BY DEF TypeOK, ServerTypeOK, IsHandler
  <2>4. CASE AppendEvents(g)
    <3>1. RowsDue(g) \in SUBSET Items
      BY <2>3 DEF RowsDue, IsHandler, IsLog, Event
    <3>2. QED
      BY <2>1, <2>4, <3>1 DEF AppendEvents, Advanced
  <2>5. CASE LockServerStorage(g)
    BY <2>1, <2>3, <2>5 DEF LockServerStorage, Advanced
  <2>6. ASSUME NEW x \in Items, BuildServerRow(g, x) PROVE Advanced(g, h)
    <3>1. g.todo \ {x} \in SUBSET Items /\ Advance(g, g.st, g.todo \ {x})
      BY <2>3, <2>6 DEF BuildServerRow
    <3>2. h.todo = g.todo \ {x} /\ h.events = g.events
      BY <2>1, <2>3, <3>1
    <3>3. QED
      BY <2>6, <3>2 DEF Advanced
  <2>7. QED
    BY <2>2, <2>4, <2>5, <2>6
<1>6. CASE Cancel
  BY <1>2, <1>6 DEF Cancel, DropHandler
<1>7. CASE UNCHANGED vars
  BY <1>2, <1>7 DEF vars
<1>8. ASSUME NEW d \in Devices, ServiceCall(d) \/ StoreCall(d) \/ FinishCall(d)
      PROVE  UNCHANGED handlers
  BY <1>8 DEF ServiceCall, StoreCall, FinishCall, serverVars
<1>9. ASSUME NEW d \in Devices, NEW t \in Tasks,
             \/ BeginRound(d, t) \/ ReceiveAck(d, t) \/ FinishPush(d, t) \/ ReceivePage(d, t) \/ ReceiveLastPage(d, t)
             \/ AnswerPull(d, t) \/ LockStorage(d, t) \/ \E x \in Items : RebuildRow(d, t, x)
      PROVE  UNCHANGED handlers
  BY <1>9 DEF BeginRound, ReceiveAck, ConsumeReply, FinishPush, ReceivePage, ReceiveLastPage, AnswerPull, GetEvents,
              LockStorage, RebuildRow, serverVars
<1>10. QED
  BY <1>2, <1>3, <1>4, <1>5, <1>6, <1>7, <1>8, <1>9 DEF Next, RoundStep, Restart, RoundFails, LeaveRound

\* A handler is done with a row only once the row shows its batch.
LEMMA HandlersServeStep ==
  ASSUME IInv, HandlersServe, [Next]_vars
  PROVE  HandlersServe'
<1> SUFFICES ASSUME NEW h \in handlers', h.st # "received", NEW e \in DOMAIN h.events
             PROVE  e.entity_id \in h.todo \/ Reflected(e)'
  BY DEF HandlersServe
<1>1. TypeOK
  BY DEF IInv
<1>2. ASSUME NEW g \in handlers, g.st # "received", g.events = h.events
      PROVE  e.entity_id \in g.todo \/ Reflected(e)'
  BY <1>1, <1>2, ReflectedStays DEF HandlersServe
<1>3. CASE \E g \in handlers : g.st = h.st /\ g.todo = h.todo /\ g.events = h.events
  BY <1>2, <1>3
<1>4. ASSUME NEW g \in handlers, Advanced(g, h) PROVE e.entity_id \in h.todo \/ Reflected(e)'
  <2>1. h.events = g.events
    BY <1>4 DEF Advanced
  <2>2. CASE h.todo = RowsDue(g)
    BY <2>1, <2>2 DEF RowsDue
  <2>3. CASE LockServerStorage(g) /\ h.todo = g.todo
    BY <1>2, <2>1, <2>3 DEF LockServerStorage
  <2>4. ASSUME NEW x \in Items, BuildServerRow(g, x), h.todo = g.todo \ {x}
        PROVE  e.entity_id \in h.todo \/ Reflected(e)'
    <3>1. g.st # "received" /\ UNCHANGED entries
          /\ srv_items' = [srv_items EXCEPT ![x] = Projection(DOMAIN entries, x)]
      BY <2>4 DEF BuildServerRow
    <3>2. CASE e.entity_id = x
      <4>1. e \in DOMAIN entries
        BY <2>1, <3>1 DEF IInv, InFlightSound, BatchesSound
      <4>2. QED
        BY <1>1, <3>1, <3>2, <4>1, RebuildReflects
    <3>3. CASE e.entity_id # x
      BY <1>2, <2>1, <2>4, <3>1, <3>3
    <3>4. QED
      BY <3>2, <3>3
  <2>5. QED
    BY <1>4, <2>2, <2>3, <2>4 DEF Advanced
<1>5. QED
  BY <1>1, <1>3, <1>4, HandlerOrigin

\* A response after a step is one from before, none, a page, or the acknowledgement of
\* a handler that has just ended.
LEMMA ReplyOrigin ==
  ASSUME TypeOK, [Next]_vars, NEW d \in Devices
  PROVE  \/ reply'[d] = reply[d]
         \/ reply'[d].kind # "ack"
         \/ \E h \in handlers : AnswerPost(h) /\ DOMAIN reply'[d].events = DOMAIN h.events
<1>1. DOMAIN reply = Devices
  BY DEF TypeOK, ServerTypeOK
<1>2. ASSUME UNCHANGED reply PROVE reply'[d] = reply[d]
  BY <1>2
<1>3. ASSUME NEW c \in Devices, reply' = [reply EXCEPT ![c] = NoReply]
      PROVE  reply'[d] = reply[d] \/ reply'[d].kind # "ack"
  BY <1>1, <1>3 DEF NoReply
<1>4. ASSUME NEW c \in Devices, NEW t \in Tasks, AnswerPull(c, t)
      PROVE  reply'[d] = reply[d] \/ reply'[d].kind # "ack"
  <2>1. PICK n : reply' = [reply EXCEPT ![c] = [kind |-> "page", events |-> EventsAfter(pulled[c]), next_offset |-> n]]
    BY <1>4 DEF AnswerPull, GetEvents
  <2>2. QED
    BY <1>1, <2>1
<1>5. ASSUME NEW h \in handlers, AnswerPost(h)
      PROVE  reply'[d] = reply[d] \/ DOMAIN reply'[d].events = DOMAIN h.events
  <2> DEFINE acked == Restrict(entries, DOMAIN h.events)
  <2>1. reply' = IF h.from = Gone THEN reply
                 ELSE [reply EXCEPT ![h.from] = [kind |-> "ack", events |-> acked, next_offset |-> 0]]
    BY <1>5 DEF AnswerPost, Answer
  <2>2. DOMAIN acked = DOMAIN h.events
    BY DEF Restrict
  <2> HIDE DEF acked
  <2>3. QED
    BY <1>1, <2>1, <2>2
<1>6. CASE Serve
  BY <1>5, <1>6 DEF Serve, HandlerStep, AppendEvents, LockServerStorage, BuildServerRow, Advance
<1>7. CASE Cancel \/ UNCHANGED vars
  BY <1>7 DEF Cancel, DropHandler, vars
<1>8. ASSUME NEW c \in Devices, ServiceCall(c) \/ StoreCall(c) \/ FinishCall(c)
      PROVE  UNCHANGED reply
  BY <1>8 DEF ServiceCall, StoreCall, FinishCall, serverVars
<1>9. ASSUME NEW c \in Devices, NEW t \in Tasks,
             \/ BeginRound(c, t) \/ SendPush(c, t) \/ FinishPush(c, t) \/ LockStorage(c, t)
             \/ \E x \in Items : RebuildRow(c, t, x)
      PROVE  UNCHANGED reply
  BY <1>9 DEF BeginRound, SendPush, PostEvents, FinishPush, LockStorage, RebuildRow, serverVars
<1>10. ASSUME NEW c \in Devices, NEW t \in Tasks,
              ReceiveAck(c, t) \/ ReceivePage(c, t) \/ ReceiveLastPage(c, t) \/ RoundFails(c, t)
       PROVE  reply' = [reply EXCEPT ![c] = NoReply]
  BY <1>10 DEF ReceiveAck, ReceivePage, ReceiveLastPage, ConsumeReply, RoundFails, LeaveRound, LoseConnection
<1>11. ASSUME NEW c \in Devices, Restart(c)
       PROVE  reply' = [reply EXCEPT ![c] = NoReply]
  BY <1>11 DEF Restart, LoseConnection
<1>12. QED
  BY <1>2, <1>3, <1>4, <1>5, <1>6, <1>7, <1>8, <1>9, <1>10, <1>11 DEF Next, RoundStep

\* An acknowledgement leaves the server with all its rows rebuilt, and stays true.
LEMMA AcksServedStep ==
  ASSUME IInv, HandlersServe, AcksServed, [Next]_vars
  PROVE  AcksServed'
<1> SUFFICES ASSUME NEW d \in Devices, reply'[d].kind = "ack", NEW e \in DOMAIN reply'[d].events
             PROVE  Reflected(e)'
  BY DEF AcksServed
<1>1. TypeOK
  BY DEF IInv
<1>2. CASE reply'[d] = reply[d]
  BY <1>1, <1>2, ReflectedStays DEF AcksServed
<1>3. ASSUME NEW h \in handlers, AnswerPost(h), DOMAIN reply'[d].events = DOMAIN h.events
      PROVE  Reflected(e)'
  <2>1. Reflected(e)
    BY <1>3 DEF AnswerPost, HandlersServe
  <2>2. QED
    BY <1>1, <2>1, ReflectedStays
<1>4. QED
  BY <1>1, <1>2, <1>3, ReplyOrigin

\* Only append puts an event on the stream, and it leaves the devices alone.
LEMMA StreamOrigin ==
  ASSUME [Next]_vars, NEW e \in DOMAIN entries' \ DOMAIN entries
  PROVE  /\ \E h \in handlers : AppendEvents(h) /\ e \in DOMAIN h.events
         /\ UNCHANGED <<deviceVars, syncVars>>
<1>1. ~UNCHANGED entries
  OBVIOUS
<1>2. Serve
  BY <1>1, StreamWrites DEF Serve
<1>3. PICK h \in handlers : AppendEvents(h)
  BY <1>1, StreamWrites
<1>4. e \in DOMAIN h.events
  BY <1>3 DEF AppendEvents, PushAll, NewEvents
<1>5. QED
  BY <1>2, <1>3, <1>4 DEF Serve

\* A device event is written by its call, by an answer or page, or lost in a restart.
LEMMA StampOrigin ==
  ASSUME TypeOK, [Next]_vars, NEW d \in Devices, NEW e \in Contents(d), stamp'[d][e] # stamp[d][e]
  PROVE  Restart(d) \/ \E t \in Tasks : ReceiveAck(d, t) /\ e \in DOMAIN reply[d].events
<1>1. DOMAIN stamp = Devices
  BY DEF TypeOK, DeviceTypeOK
<1>2. ~UNCHANGED stamp
  OBVIOUS
<1>3. ASSUME NEW c \in Devices, NEW batch, PushEntries(c, batch) PROVE FALSE
  <2>1. stamp' = [stamp EXCEPT ![c] = [f \in Contents(c) \cup (DOMAIN batch \ Contents(c)) |->
                     IF f \in DOMAIN batch \ Contents(c) THEN batch[f] ELSE stamp[c][f]]]
    BY <1>3 DEF PushEntries
  <2>2. QED
    BY <1>1, <2>1
<1>4. ASSUME NEW c \in Devices, StoreCall(c) PROVE FALSE
  BY <1>3, <1>4 DEF StoreCall, AppendLocal
<1>5. ASSUME NEW c \in Devices, NEW t \in Tasks, ReceivePage(c, t) PROVE FALSE
  BY <1>3, <1>5 DEF ReceivePage, AppendReplicated
<1>6. ASSUME NEW c \in Devices, NEW t \in Tasks, ReceiveAck(c, t)
      PROVE  ReceiveAck(d, t) /\ e \in DOMAIN reply[d].events
  <2>1. stamp' = [stamp EXCEPT ![c] = [f \in Contents(c) |->
                     IF f \in DOMAIN reply[c].events THEN reply[c].events[f] ELSE stamp[c][f]]]
    BY <1>6 DEF ReceiveAck, MarkSynced
  <2>2. c = d /\ e \in DOMAIN reply[d].events
    BY <1>1, <2>1
  <2>3. QED
    BY <1>6, <2>2
<1>7. ASSUME NEW c \in Devices, Restart(c) PROVE Restart(d)
  <2>1. stamp' = [stamp EXCEPT ![c] = EmptyLog]
    BY <1>7 DEF Restart, LoseMemory
  <2>2. c = d
    BY <1>1, <2>1
  <2>3. QED
    BY <1>7, <2>2
<1>8. ASSUME NEW c \in Devices, ServiceCall(c) \/ FinishCall(c)
      PROVE  FALSE
  BY <1>2, <1>8 DEF ServiceCall, CreateItem, ChangeItem, BeginCall, FinishCall, BuildCallRow
<1>9. ASSUME NEW c \in Devices, NEW t \in Tasks,
             \/ BeginRound(c, t) \/ SendPush(c, t) \/ FinishPush(c, t) \/ ReceiveLastPage(c, t)
             \/ AnswerPull(c, t) \/ RoundFails(c, t) \/ LockStorage(c, t)
             \/ \E y \in Items : RebuildRow(c, t, y)
      PROVE  FALSE
  BY <1>2, <1>9 DEF BeginRound, LockLog, SendPush, FinishPush, ReceiveLastPage, UnlockLog, AnswerPull,
                    RoundFails, LockStorage, RebuildRow, BuildRow, deviceVars
<1>10. CASE Serve \/ Cancel \/ UNCHANGED vars
  BY <1>2, <1>10 DEF Serve, Cancel, deviceVars, vars
<1>11. QED
  BY <1>4, <1>5, <1>6, <1>7, <1>8, <1>9, <1>10 DEF Next, RoundStep

\* What is written for the first time is written by a call, into its device's log.
LEMMA IssuedOrigin ==
  ASSUME IInv, [Next]_vars, NEW e \in issued' \ issued
  PROVE  e.replica_id \in Devices /\ e \in Contents(e.replica_id)'
<1>1. ~UNCHANGED issued
  OBVIOUS
<1>2. PICK d \in Devices : StoreCall(d)
  <2>1. ASSUME NEW c \in Devices, ServiceCall(c) \/ FinishCall(c) \/ Restart(c)
        PROVE  FALSE
    BY <1>1, <2>1 DEF ServiceCall, CreateItem, ChangeItem, BeginCall, FinishCall, BuildCallRow, Restart, LoseMemory
  <2>2. ASSUME NEW c \in Devices, NEW t \in Tasks,
               \/ BeginRound(c, t) \/ RoundStep(c, t) \/ AnswerPull(c, t) \/ RoundFails(c, t) \/ LockStorage(c, t)
               \/ \E y \in Items : RebuildRow(c, t, y)
        PROVE  FALSE
    BY <1>1, <2>2 DEF BeginRound, LockLog, RoundStep, SendPush, ReceiveAck, MarkSynced, FinishPush, ReceivePage,
                      AppendReplicated, ReceiveLastPage, UnlockLog, AnswerPull, RoundFails, LockStorage,
                      RebuildRow, BuildRow, deviceVars
  <2>3. ~(Serve \/ Cancel \/ UNCHANGED vars)
    BY <1>1 DEF Serve, Cancel, deviceVars, vars
  <2>4. QED
    BY <2>1, <2>2, <2>3 DEF Next
<1>3. QED
  BY <1>2, StoreCallEffect

\* A restart makes a device forget its own events; nothing else, and nothing is
\* remembered again.
LEMMA ForgottenStep ==
  ASSUME [Next]_vars
  PROVE  /\ forgotten \subseteq forgotten'
         /\ \A d \in Devices : Restart(d) => \A e \in Contents(d) : e.replica_id = d => e \in forgotten'
<1>1. ASSUME NEW d \in Devices, Restart(d)
      PROVE  forgotten' = forgotten \cup {e \in Contents(d) : e.replica_id = d}
  BY <1>1 DEF Restart, LoseMemory
<1>2. ASSUME NEW d \in Devices, ServiceCall(d) \/ StoreCall(d) \/ FinishCall(d)
      PROVE  UNCHANGED forgotten
  BY <1>2 DEF ServiceCall, CreateItem, ChangeItem, BeginCall, StoreCall, AppendLocal, FinishCall, BuildCallRow
<1>3. ASSUME NEW d \in Devices, NEW t \in Tasks,
             \/ BeginRound(d, t) \/ RoundStep(d, t) \/ AnswerPull(d, t) \/ RoundFails(d, t) \/ LockStorage(d, t)
             \/ \E y \in Items : RebuildRow(d, t, y)
      PROVE  UNCHANGED forgotten
  BY <1>3 DEF BeginRound, LockLog, RoundStep, SendPush, ReceiveAck, MarkSynced, FinishPush, ReceivePage,
              AppendReplicated, ReceiveLastPage, UnlockLog, AnswerPull, RoundFails, LockStorage,
              RebuildRow, BuildRow, deviceVars
<1>4. Serve \/ Cancel \/ UNCHANGED vars => UNCHANGED forgotten
  BY DEF Serve, Cancel, deviceVars, vars
<1>5. QED
  BY <1>1, <1>2, <1>3, <1>4 DEF Next

\* An author keeps an event until it forgets it, and keeps it as unsynced until the
\* acknowledgement arrives, which comes after the rebuild.
LEMMA AuthorsRetryStep ==
  ASSUME IInv, RInv, AcksServed, AuthorsRetry, [Next]_vars
  PROVE  AuthorsRetry'
<1>1. TypeOK
  BY DEF IInv
<1>2. forgotten \subseteq forgotten'
  BY ForgottenStep
<1>3. ASSUME NEW e \in issued'
      PROVE  e.replica_id \in Devices /\ (e \in Contents(e.replica_id)' \/ e \in forgotten')
  <2>1. CASE e \in issued /\ e \in forgotten
    BY <1>2, <2>1 DEF AuthorsRetry
  <2>2. CASE e \in issued /\ e \notin forgotten
    <3>1. e.replica_id \in Devices /\ e \in Contents(e.replica_id)
      BY <2>2 DEF AuthorsRetry
    <3>2. Keeps(e.replica_id) \/ Restart(e.replica_id)
      BY <3>1, LogsGrow
    <3>3. QED
      BY <3>1, <3>2, ForgottenStep DEF Keeps, Contents
  <2>3. CASE e \notin issued
    BY <2>3, IssuedOrigin
  <2>4. QED
    BY <2>1, <2>2, <2>3
<1>4. ASSUME NEW e \in DOMAIN entries', e \notin forgotten'
      PROVE  Reflected(e)' \/ e \in Unsynced(e.replica_id)'
  <2> DEFINE a == e.replica_id
  <2>1. e \notin forgotten
    BY <1>2, <1>4
  <2>2. CASE e \in DOMAIN entries
    <3>1. CASE Reflected(e)
      BY <1>1, <3>1, ReflectedStays
    <3>2. CASE e \in Unsynced(a)
      <4>1. a \in Devices /\ e \in Contents(a) /\ stamp[a][e] = 0
        BY <2>2, <3>2 DEF AuthorsRetry, RInv, Written, Unsynced
      <4>2. ~Restart(a)
        BY <1>4, <4>1, ForgottenStep
      <4>3. e \in Contents(a)'
        BY <4>1, <4>2, LogsGrow DEF Keeps, Contents
      <4>4. CASE stamp'[a][e] = stamp[a][e]
        BY <4>1, <4>3, <4>4 DEF Unsynced
      <4>5. CASE stamp'[a][e] # stamp[a][e]
        <5>1. PICK t \in Tasks : ReceiveAck(a, t) /\ e \in DOMAIN reply[a].events
          BY <1>1, <4>1, <4>2, <4>5, StampOrigin
        <5>2. Reflected(e)
          BY <4>1, <5>1 DEF ReceiveAck, AcksServed
        <5>3. QED
          BY <1>1, <5>2, ReflectedStays
      <4>6. QED
        BY <4>4, <4>5
    <3>3. QED
      BY <2>1, <2>2, <3>1, <3>2 DEF AuthorsRetry
  <2>3. CASE e \notin DOMAIN entries
    <3>1. UNCHANGED <<log, stamp>> /\ \E h \in handlers : e \in DOMAIN h.events
      BY <2>3, StreamOrigin DEF deviceVars
    <3>2. e \in issued
      BY <3>1 DEF RInv, Written, OwnBatch
    <3>3. a \in Devices /\ e \in Contents(a)
      BY <2>1, <3>2 DEF AuthorsRetry
    <3>4. stamp[a][e] = 0
      BY <2>3, <3>3 DEF IInv, StampAgrees
    <3>5. QED
      BY <3>1, <3>3, <3>4 DEF Unsynced, Contents
  <2>4. QED
    BY <2>2, <2>3
<1>5. QED
  BY <1>3, <1>4 DEF AuthorsRetry

\* What the server has stored and not yet shown is on its way to be shown.
THEOREM ServerRowsInvariance == Spec => []SInv
<1>1. IInv /\ RInv /\ SInv /\ [Next]_vars => SInv'
  BY HandlersServeStep, AcksServedStep, AuthorsRetryStep DEF SInv
<1>2. QED
  BY RefinementInvariance, InitSInv, <1>1, PTL DEF Spec

\* An acknowledgement promises that the server already serves the event: append_events
\* rebuilds the rows of its batch before it answers, and no later rebuild, from whatever
\* state of the log, takes the event back out.
THEOREM AcknowledgedIsServed == Spec => []AckedIsServed
<1>1. SInv => AckedIsServed
  BY DEF SInv, AcksServed, Reflected, AckedIsServed, Deleted, EventsOfEntity
<1>2. QED
  BY ServerRowsInvariance, <1>1, PTL

\* Every event that a server row lacks its author has as unsynced, and so will push
\* again, unless it has forgotten that very event in a restart (append_events, push).
THEOREM ServerRowsRepairable == Spec => []ServerRowRepairable
<1>1. IInv /\ RInv /\ RowsSound /\ SInv => ServerRowRepairable
  <2> DEFINE due == {e \in issued : e \in Unsynced(e.replica_id)}
  <2> SUFFICES ASSUME IInv, RInv, RowsSound, SInv, NEW x \in Items
               PROVE  srv_items[x] = Projection(DOMAIN entries, x) \/ LagsBy(x, due \cup forgotten)
    BY DEF ServerRowRepairable
  <2> DEFINE lacking == {e \in EventsOfEntity(DOMAIN entries, x) : ~Reflected(e)}
  <2>1. lacking \subseteq due \cup forgotten
    BY DEF SInv, AuthorsRetry, EventsOfEntity, RInv, Written
  <2>2. CASE lacking # {}
    BY <2>1, <2>2 DEF LagsBy
  <2>3. CASE lacking = {}
    <3>1. \A e \in EventsOfEntity(DOMAIN entries, x) : Reflected(e)
      BY <2>3
    <3>2. CASE Deleted(DOMAIN entries, x)
      <4>1. PICK e \in EventsOfEntity(DOMAIN entries, x) : e.payload = "Deleted"
        BY <3>2 DEF Deleted
      <4>2. srv_items[x] = {}
        BY <3>1, <4>1 DEF Reflected, EventsOfEntity
      <4>3. QED
        BY <3>2, <4>2, DeletedProjection
    <3>3. CASE ~Deleted(DOMAIN entries, x)
      <4>1. \A e \in EventsOfEntity(DOMAIN entries, x) : e \in srv_items[x]
        BY <3>1, <3>3 DEF Reflected, EventsOfEntity, Deleted
      <4>2. QED
        BY <3>3, <4>1, ProjectionOfEvents DEF RowsSound
    <3>4. QED
      BY <3>2, <3>3
  <2>4. QED
    BY <2>2, <2>3
<1>2. QED
  BY RefinementInvariance, RowsAreSound, ServerRowsInvariance, <1>1, PTL
=============================================================================
