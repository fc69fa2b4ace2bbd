# TLA+ specifications of the offline-sync SDK

The repository is a small event-sourced system: devices keep an append-only
event log and a table of rows folded from it, work offline, and synchronise
their logs with a backend over HTTP. These modules model its logs, its sync
rounds, the backend's handlers, the background runner and the fold of an item's
history, and what all of it together implements. TLC checks them on small
instances, and TLAPS proves every safety property that TLC checks to hold, and
the refinement, for every number of devices, items, tasks, events and faults.

Paths below are relative to `src/`.

## 1. The system

| Component | State | Operations | Talks to |
|---|---|---|---|
| Event vocabulary (`shared/src/event_log.rs`, `core.rs`, `replica.rs`) | none | `order_key`, `sort_events` | used by all |
| Item domain (`shared/src/item.rs`) | an `Item` | `create`, four edits, `apply_event`, `build_from_history` | used by `ItemStorage` |
| `ItemStorage` (`shared/src/item_storage.rs`) | the projection table | `store`, `build_projection`, `find*` | its event log, behind a mutex |
| Device log (`client-sdk/src/event_log.rs`) | `entries` in insertion order, each with an optional `server_offset` | `append_local`, `append`, `get_unsynced`, `mark_synced`, `events_of_entity` | service, sync engine, storage |
| Item service (`client-sdk/src/item_service.rs`) | none | `create_item`, `set_quantity`, `rename`, `set_note`, `delete`, `items` | takes the storage mutex, and inside it the log mutex |
| Sync engine (`client-sdk/src/sync.rs`) | the cursor `pulled` | `push`, `pull` | device log, HTTP client |
| Runner (`client-sdk/src/sync_runner.rs`) | `running`, `online`, the listener | `start`, `stop`, `set_online`, `sync_now`, `sync_once` | holds the log and state mutexes over a whole round, then takes the storage mutex |
| HTTP client (`client-sdk/src/http.rs`) | none | `push`, `pull` | backend |
| Server log (`backend/src/event_log.rs`) | `entries` by offset, `next_server_offset` | `append`, `events_after` | handlers |
| Handlers (`backend/src/server.rs`) | one future per request | POST `append_events`, GET `get_events`, reads | log lock, then storage lock |
| Server process (`backend/src/bin/server.rs`, `lib.rs`) | every store, in memory | starts with empty stores, dies | the devices, as failed exchanges |
| iOS app (`mobile/ios/.../OfflineSyncDemoApp.swift`) | toggles, the list on the screen | toggles, sync button, edits, `refresh` | service and runner, through the FFI |
| FFI (`client-sdk/src/ffi.rs`) | one log and one storage per device, shared by service and runner | construction, one method per service call | app on one side, service and runner on the other |
| Builds, docs | | | |

What is hard here, and so what the properties are about:

* two mutexes per device, taken in opposite orders by a service call (storage,
  then log twice) and by a round (log, released, then storage);
* the log mutex is held across HTTP exchanges, so liveness of the calls depends
  on the network;
* lost acknowledgements: the server may have stored a batch whose sender was told
  nothing, the handler of the lost request may still be running, and hyper may
  drop it at an await;
* paged pulls with a cursor that moves page by page, while other devices store;
* a round that fails half way, and an app that restarts with an empty log;
* a server that restarts with an empty stream while devices keep cursors and
  markers of the old one, or that takes a request and never answers;
* the order of events when clocks disagree, and an order every replica must agree
  on although provenance travels with the events;
* atomic flags that a user's toggles, the background job and the calls in Swift
  tasks read and write without a lock.

`PROJECT.json` lists these hazards one by one, each at its line.

## 2. Modules

| Module | Models | Its state and the code's |
|---|---|---|
| `EventLog` | Events and logs as mathematics | A log is a function from events to positions (`IsLog`); `PushAll` is the append loop of both logs, `FirstOf` sort-and-truncate, `Projection` what `build_projection` puts in a row |
| `DeviceStore` | Device log, `ItemStorage` and the service of every device | `log[d]` and `stamp[d]` are the entries and their `server_offset` (0 for `None`), `rows[d]` the table, `call[d]` the service call that holds the storage mutex, `log_lock[d]` the holder of the log mutex; `forgotten` is a history variable, the events that a restart took from their author's log |
| `ServerLog` | Server log, its projections, POST and GET handlers, the connection | `entries` with their offsets, `srv_items` the rows, `handlers` the POSTs under way (`received`, `stored`, `building`), `reply[d]` the response on its way to `d` |
| `OfflineSync` | The composition: rounds, calls, server, faults | `pc[d][t]`, `touched[d][t]` the locals of `sync_once` in task `t`, `pulled[d]` the cursor, `orphaned` a history variable |
| `Replication` | What the system promises, without mutexes, batches, pages, messages or failures | `written`, `stream`, `view[d]`, `seen[d]`: what has been written, the server's numbering, what a device has and how far in the stream it is |
| `ServerRestart` | `OfflineSync` with a server process that dies | `crashes`, and the history variable `passed[d]`: the offset up to which `d` is past the old stream |
| `SyncRunner` | The runner of one device and what the app does to it | the two atomics, the app's toggles, one `pc` per Swift or tokio task; a round is reduced to whether there is something to push or pull, whether the log is ahead of the rows and whether what was read of the rows is current; `call` is the service call that holds the storage mutex |
| `AppScreen` | The list on the screen beside the runner | what refreshes have read and not assigned yet, and whether the list is current |
| `ItemHistory` | Fold order, fold, and the append loops of both logs as far as provenance goes | one item, every replica's log in arrival order, wall clocks that are not synchronised; the server authors too, with `append_local` |
| `MCOfflineSync`, `MCItemHistory`, `MCServerRestart` | TLC instances | the symmetry sets, the action constraint |
| `EventLog_proofs`, `OfflineSync_proofs`, `Refinement_proofs`, `Rows_proofs`, `Ordering_proofs` | Theorems about `OfflineSync` and below, each module on top of the one before | |
| `ServerRestart_proofs`, `SyncRunner_proofs`, `ItemHistory_proofs` | Theorems about these modules | |

`OfflineSync` extends `DeviceStore` and `ServerLog`, which extend `EventLog`;
`ServerRestart` extends `OfflineSync`, `AppScreen` extends `SyncRunner`; `R == INSTANCE Replication WITH ...` in
`OfflineSync` is the refinement mapping.
Each action of `OfflineSync` is the code between two awaits at which another
actor can get in: a round's steps are its HTTP exchanges and its lock
acquisitions, a call's are its two log accesses, a POST handler's are append,
storage lock, each row and the answer.

Each operator called "faulty variant" in a comment is what the next definition
would be with a plausible bug in the code; no specification uses them. They are
there to see that each property fails when the code is wrong (`mutants` in
`PROJECT.json`).

Abstractions that a reader should know:

* A row is the set of events it was folded from, and no row the empty set: a
  deleted item has no row. The contents of the row are a function of that set,
  which is what `ItemHistory` is about.
* `ItemHistory` folds the log directly, as `build_projection` does; how far the
  table may lag behind the log is `OfflineSync`'s matter.
* `touched[d][t]` is a set. The code's list may name an item twice and has an
  order; rebuilding twice in a row changes nothing, and TLC picks every order.
* The offsets in an acknowledgement are read when the answer is made, not when
  the batch is appended. The stream is append-only (`StreamIsAppendOnly`,
  proved), so they are the same numbers.
* `handlers` is a set: two abandoned handlers of one device with the same batch
  in the same state count as one. Their steps on the same batch are idempotent, so
  the second can do nothing that the first, slower, could not.
* `RoundFails` covers a refused connection, an error status, a broken response
  and a lost one: the server may have acted or not, and the handler may run on.
* `reqwest::Client::new()` has no timeout, so a backend that accepts and stays
  silent holds the log mutex for ever. That is a behaviour of `SilentSpec`, which
  has no fairness for the server's answers.
* `issued` has every event that was ever written to a device's log, so that ids are
  never drawn twice, as UUIDs are not. An event that a restart lost stays in it.
* A GET is answered in one step: the handler locks the log once and only reads.
* `ItemHistory` says what a stable sort and a filter do by the place of each entry
  (`UpTo`, `SortEvents`, `Filtered`) and folds with a recursive function (`Folded`):
  the library's operators for these are beyond the prover's reach.
* In `ItemHistory` a push ships everything of its author again and a pull takes the
  whole stream after the cursor; which events a batch or page really carries is
  `OfflineSync`'s matter, and events that are there already change nothing.
* In `SyncRunner` an edit holds the storage mutex over its two log accesses, as a
  round holds the log mutex over its exchanges, and a refresh waits for the storage
  mutex: all that can make a call, a refresh or another round wait is there. What is
  in the log and the rows is two booleans, `unsynced` and `stale`. A rebuild changes
  rows only if they lack remote events. It need not even then, and it may leave other
  rows behind, since `stale` does not say which items they are.
* A failed pull in `SyncRunner` may have taken, left or taken in part the remote
  events, and the own echoes likewise: both depend on the pages it got to.

## 3. What TLC checks

| Run | Instance | Shows |
|---|---|---|
| `SyncFaults` | 2 devices, 2 items, 2 events, pages of 1, one failed exchange, one restart | The safety properties with restarts, that a server row lacks only events with a push to come or forgotten by their author (`ServerRowRepairable`), that no row goes back (`RowsGrow`), and that the system implements `Replication` |
| `SyncEdits` | 2 devices, 1 item, 3 events, pages of 2, one failed exchange | Cursor, creation order and messages with batches that a page splits and acknowledgements of part of a log; `DevicesSeePrefix`; `DeletionFinal` |
| `SyncLiveFaults` | 2 devices, 1 event, one failure and one restart | Logs, rows and server rows converge once faults are over, but for orphaned rows and forgotten events |
| `SyncLiveTasks` | 1 device, 2 tasks, 2 events, one failure, a server that may fall silent | Every call returns and every round ends, unless one exchange is never answered: no deadlock on the two mutexes, no starvation |
| `ServerRestart` | 2 devices, 2 events, pages of 1, one death of the server | What a device skips of the new stream lies below the cursor it brought along; everything else gets through, and rows follow the logs. In the behaviours without a death nothing is skipped: this is also the run of convergence with two events, deletions and pages |
| `SyncLostRebuild` | 2 devices, 1 event, one failure | **Violated**: `RowsCatchUp` |
| `SyncServerRows` | 1 device, 1 event, one restart | **Violated**: `ServerRowsCatchUp` |
| `ItemHistory` | 2 phones and the server, all three authoring, 3 events, 2 clock readings | Convergence, closed form of the fold, an edit shows what it promised |
| `ItemTieBreak` | the same | **Violated**: `TiesKeepAuthoringOrder` |
| `RunnerLive` | 2 tasks, 3 taps, an edit, a batch of remote events, a failed round, a server that may fall silent | The flag and the job agree, no change of the rows goes unannounced, a reconnect starts a round; and, unless one exchange is never answered, edits are delivered, stopped jobs exit, rounds run out once the device stays offline, every version of the rows is read |
| `RunnerTwoJobs` | 2 tasks, 2 taps | **Violated**: `OneBackgroundJob` |
| `RunnerScreen` | 2 tasks, a batch of remote events | **Violated**: `ScreenCatchesUp` |

The properties, by what they protect:

* *The stream*: `OffsetsDense`, `StreamIsAppendOnly`, `CreatedFirst`.
* *Device logs against the stream*: `StampAgrees` (what a device calls synced is on
  the server), `CursorComplete` (the cursor skips nothing), `InFlightSound` (messages
  are still true when they arrive), `SyncKeepsLog`, `LogsConverge`, and in one
  statement `DevicesSeePrefix` and `ImplementsReplication`.
* *Rows against logs*: `StaleRowsExplained`, `ServerRowRepairable`, `AckedIsServed`,
  `DeletionFinal`, `RowsGrow`, `RowsConverge`, `ServerRowsConverge`.
* *A server that lost its memory*: `OnlyPassedSkipped`, `StreamResumes`, `RowsFollowLogs`.
* *The locks*: `CallsReturn`, `RoundsEnd`, and deadlock freedom in every
  `Sync...` run.
* *The fold*: `Convergence`, `LastWriterWins`, `EditShows`.
* *The runner*: `RunningHasJob`, `StoppedJobsExit`, `BackgroundDelivers`,
  `ReconnectStarts` and `ReconnectDelivers`, `OfflineQuiesces`, `ChangeIsNotified` and
  `EveryChangeIsRead`. Of the two pairs the first is the safety part: the round or the
  refresh is on its way; the second says that it gets there.

Two words recur. An *own echo* is an event of the device that a pull returns: it
is in the log already, so folding it in changes nothing, but `touched` names its
item. An *orphaned* row is one whose rebuild a failed round dropped. A *forgotten*
event is one that a restart took from its author's log: its author pulls it back with a
stamp, if the server has it, and never pushes it again. Both excuse a row event by event
and item by item: a restart of one device excuses nothing that another wrote.

### What the system implements

`Replication` has four actions: a device writes an event of its own; the server puts
written events of one device into the stream, for good; a device takes the next
section of the stream, all of it; a device forgets everything. The mapping takes
`written` from `issued`, `stream` from `entries`, `seen` from the cursors and `view`
from the contents of the device logs. `AppendLocal` implements `Write`,
`AppendEvents` implements `Publish` (or nothing, for a batch that is a retry),
`ReceivePage` implements `Take`, `Restart` implements `Forget`, and all the rest is
invisible: locks, requests, acknowledgements, lost answers, rebuilds. That
`ReceivePage` takes a whole section although the page was made earlier, and that a
device's own echoes in it change nothing, is what the refinement rests on.
`DevicesSeePrefix` is its consequence for a reader: of the other devices' events a
device has exactly the stream up to its cursor.

### A restart of the server

Every store is in memory, and the README asks for the backend to be kept running, so
a restart loses data by design and no finding is drawn from it. The run shows what
the loss is. A device keeps its cursor: events of the new stream below it are not
pulled. It keeps its markers: what it had synced is not pushed again. Everything else
goes on by itself (`StreamResumes`): what is unsynced is pushed, and what is stored
above the old cursor is pulled, and rows follow the logs. An event
that the old server acknowledged counts as synced and may be in no stream; the run says
that devices come to rest, not that every event survives. `CursorComplete`, `StampAgrees` and `CreatedFirst` do
not hold there, since an item's creation may be gone with the old stream while its edits
are pushed to the new one; they are properties of `Spec`, whose server lives on. A
device that restarts drops its own cursor with its log, which heals its side.

### Bounds

* `EventIds` bounds the events of a behaviour, `MaxFailures` the failed exchanges,
  `MaxRestarts` the restarts of the app, `MaxCrashes` those of the server, and in `SyncRunner` `MaxTaps`, `MaxEdits`, `MaxNews` and
  `MaxFailures` bound the user, the other devices and the network. Rounds are not
  bounded. `Batch` is 500 in the code; 1 and 2 are taken so that a log needs
  several batches and pages, which is when cursors and partial acknowledgements
  matter.
* Two devices are enough for every interaction in the code: a device meets the
  others only as the contents of the stream. One failure is enough to lose an
  acknowledgement whose handler runs on beside the retry; one restart is enough
  for a device to pull back its own events under new stamps.
* `SyncServerRows` needs one device, one event and one restart, and no failed exchange:
  the restart itself closes the connection. `RunnerScreen` needs one change of the rows.
* Three events of one item are a creation and two edits, on two devices: enough
  for ties, for an edit that crosses a deletion and for a clock that runs back.
* In `SyncRunner` two tasks suffice for an old and a new job, or a job and a
  reconnect round. Three taps are off, on and one more call.
* `ServerRestart` takes two events and pages of one: one event is enough for a
  stale cursor, the second is stored below or above it. The death may come at any
  step of two devices' rounds. A failed exchange or an app restart beside it would
  only add what `SyncFaults` has: the death itself fails rounds, and a restarted
  app has no cursor to be stale.
* `SyncLiveTasks` has two sync tasks, since it is about the mutexes they share. The
  safety runs have one task per device; what several do to rows and logs is covered
  by the theorems, which hold for every set of tasks.
* The safety properties that are proved do not depend on bounds.

Symmetry is used only in safety runs, over sets whose members the modules only
compare for equality. (`Convergence` and the rest of `ItemHistory` order ids and
times, so these are numbers and not symmetric.) `ServerRestart` checks liveness,
where TLC's symmetry reduction is not sound. Its action constraint `Canonical`
keeps, of all behaviours that differ in the names of ids and devices only, the one
that uses ids in ascending order and lets a fixed device write first. It merges no
states, and the properties do not tell such behaviours apart.

Deadlock is checked in all `Sync...` runs: a background job always has a next
tick, so a state without a successor would be a deadlock of the mutexes.
`ItemHistory` and `ItemTieBreak` turn the check off because ids run out, the
`Runner...` runs because a user who stops the job and does nothing more leaves
nothing to happen.

### Fairness

`DeviceFairness`: a round that has what it waits for goes on (weak fairness: a
future that tokio polls when it is ready). Taking a mutex is strongly fair, because
`tokio::sync::Mutex` queues its waiters first in, first out. `BeginRound` is the
next tick of the background job (or any other way a round starts); tokio's timer
wakes it. The user's calls, failures, restarts and dropped handlers have no fairness.

`ServerFairness`: handlers and GETs are served. `FairSpec` has both. `SilentSpec` has
only the device's: no client has a timeout, so nothing in the code makes an
exchange end that the server leaves open, and `CallsReturn` and `RoundsEnd` are
checked without that assumption. Each says that the call or round ends or that,
from some moment on, one exchange of the device stays unanswered. `CrashSpec` is
`FairSpec` with a server that may die.

`SyncRunner` divides it likewise. `Fairness` is weak for what a task does by itself
and strong for its steps at a mutex, for a service call and for a refresh that has begun;
`ServerFairness` is weak for `Exchange`, the two HTTP exchanges of a round. `RunnerLive`
checks `SilentSpec`, which has only the first: every liveness property there holds or, from
some moment on, one exchange of the device stays unanswered (`<>[]Unanswered`). For
`EveryChangeIsRead` that alone is no excuse, because a refresh needs only the storage
mutex: it must also be held for ever, by a call or a rebuild that waits for the log.
Taps, edits, remote events and failures have no fairness; the properties are conditional
on what the user does in the end (`<>[]online`, `<>[](running /\ online)`, `<>[]~running`).
`ScreenSpec` is `FairSpec` with refreshes that assign what they read.
`BackgroundDelivers` is about delivery; `ReconnectDelivers` only about an attempt, since
with the background job off nothing repeats a reconnect round that failed.

### Findings

* `SyncLostRebuild`: `pull` advances the cursor page by page, but returns the
  touched items only at the end. If a later page fails, the rows of earlier pages
  are never rebuilt (`client-sdk/src/sync.rs:126`). `RowsConverge` and
  `StaleRowsExplained` name those rows with the history variable `orphaned` and
  show that nothing else leaves a row stale.
* `SyncServerRows`: a handler whose connection closes while it waits for the storage
  mutex (`backend/src/server.rs:66`) leaves an event in the server's log that its rows
  do not show. A retried push would heal that. An author that has restarted pulls the
  event back already stamped and never pushes it again, so the server's row is stale for
  ever, although the restart is said to be harmless (`client-sdk/src/sync.rs:59-60`).
  `ServerRowRepairable` and `ServerRowsConverge` name those events with the history
  variable `forgotten` and show that no other event is missing from a row for good.
* `ItemTieBreak`: the write offset restarts with each batch
  (`client-sdk/src/event_log.rs:93`) and each service call is a batch, so it never
  breaks a tie between two events of one device: a creation and an edit in the run.
* `RunnerTwoJobs`: `stop` followed by `start` before the job reads the flag again
  leaves two jobs (`client-sdk/src/sync_runner.rs:107`). `RunningHasJob` and `StoppedJobsExit` show
  what remains true: there is never no job, and a lasting stop ends them all.
* `RunnerScreen`: overlapping refreshes of the app may assign out of order
  (`mobile/ios/OfflineSyncDemo/OfflineSyncDemoApp.swift:98`): in the run the refresh of
  the launch ends after the one that the listener started for pulled changes. `EveryChangeIsRead`
  shows that the SDK's side is right: a refresh does read the last version.

## 4. What TLAPS proves

For every choice of the constants that satisfies the assumptions of the modules
(finitely many events; a batch of at least one; `Free` is no task, `NoCall` no call and
`Gone` no device; in `ItemHistory` ids and times are numbers, no id is 0 and the server
is no phone; the bounds are natural numbers):

| Theorem | Statement |
|---|---|
| *Logs and messages (`OfflineSync_proofs`)* | |
| `Invariance` | `Spec => []IInv` |
| `TypeCorrect` | `Spec => []TypeOK` |
| `StreamDense` | `Spec => []OffsetsDense` |
| `StampsTrue` | `Spec => []StampAgrees` |
| `NothingSkipped` | `Spec => []CursorComplete` |
| `InFlightTrue` | `Spec => []InFlightSound` |
| `StreamGrows` | `Spec => StreamIsAppendOnly` |
| *The refinement (`Refinement_proofs`)* | |
| `RefinementInvariance` | `Spec => [](IInv /\ RInv)` |
| `SeesPrefixOnly` | `Spec => []DevicesSeePrefix` |
| `Refinement` | `Spec => ImplementsReplication` |
| *Rows (`Rows_proofs`)* | |
| `DeletionWins` | `Spec => DeletionFinal` |
| `LogsKept` | `Spec => SyncKeepsLog` |
| `RowsOnlyGrow` | `Spec => RowsGrow` |
| `RowsExplained` | `Spec => []StaleRowsExplained` |
| `RowsAreSound` | `Spec => []RowsSound` |
| `ServerRowsInvariance` | `Spec => []SInv` |
| `AcknowledgedIsServed` | `Spec => []AckedIsServed` |
| `ServerRowsRepairable` | `Spec => []ServerRowRepairable` |
| *Order of creation (`Ordering_proofs`)* | |
| `CreationsFirst` | `Spec => []CreatedFirst` |
| *A server that dies (`ServerRestart_proofs`)* | |
| `RestartInvariance` | `CrashSpec => []CInv` |
| `SkippedWasPassed` | `CrashSpec => []OnlyPassedSkipped` |
| *The runner (`SyncRunner_proofs`)* | |
| `RunnerTypeCorrect` | `Spec => []TypeOK` |
| `RunningIsServed` | `Spec => []RunningHasJob` |
| `ChangesAreNotified` | `Spec => []ChangeIsNotified` |
| `ReconnectsStart` | `Spec => []ReconnectStarts` |
| *An item's history (`ItemHistory_proofs`)* | |
| `LogsAgree` | `Spec => []HInv` |
| `Converges` | `Spec => []Convergence` |
| `LastWritersWin` | `Spec => []LastWriterWins` |
| `EditsShow` | `Spec => EditShows` |

None of `OffsetsDense`, `StampAgrees` and `CursorComplete` is inductive alone. A
device learns offsets and pages from messages, so what it records is true only if
messages are; `InFlightSound` says so, and it is true because the stream is dense,
append-only and never renumbered. A page must also leave no hole between the
cursor it was asked for and the offset it carries: that is the middle conjunct of
`ReplySound`, and it survives other devices' appends because new offsets lie above
every old one. `IInv` is the conjunction of these with `TypeOK`.

The refinement needs more than `IInv`. `RInv` adds where events come from and when
they arrive: what is stored anywhere has been written, and a batch is of one device
(`Written`, `OwnBatch`); a call about to write has an id nobody else has
(`FreshCalls`); a page has nothing at or before the cursor nor past its end
(`PageExact`); and no device has another's event before its cursor says so
(`NothingEarly`). With it every action maps to one of `Replication` or to a stutter.
`Replication` instantiated is a module of its own to the prover, with operators
of its own; lemma `SameCardinality` relates its `Cardinality` to ours.

The proofs about `OfflineSync` go in layers. `EventLog_proofs` has the facts about
logs: a rank is at most the number of elements, ranks respect the order, `PushAll` keeps
a log dense and leaves old positions alone, `FirstOf` takes a prefix.
`OfflineSync_proofs` shows with one lemma per sub-action that types are kept, then with
one lemma per action that `IInv` is. Steps that touch neither the logs nor the messages
share the lemma `QuietStep`; `StreamStep` says which steps write to the stream.
`Refinement_proofs` builds on it, `Rows_proofs` on both, and `Ordering_proofs` on all.

*Rows.* A row changes only to the projection of the log at that moment
(`RowsWritten`), a log only grows while the device runs (`LogsGrow`, which needs `IInv`:
an acknowledgement tells an event that is marked already the offset it is marked with),
and deletion is monotone in the log. For `RowsGrow` the strengthening is `RowsSound`: a
row shows only events its replica holds, so a rebuild finds them all again.

`AckedIsServed` and `ServerRowRepairable` follow from `SInv`, the life of a stored event
until the server shows it. A handler past its append has the items of its batch either
rebuilt or still on its list (`HandlersServe`), so an answer promises only what is shown
(`AcksServed`), so an author marks as synced only what is shown; what is not shown it
still holds as unsynced (`AuthorsRetry`), unless a restart took the event from its log.
This is said event by event: an author holds everything it wrote that is not in
`forgotten`, whatever other devices or other events have been through. It rests on
`RInv`, by which whatever is stored or on its way has been written: a page brings an
author no event of its own that it lacks but a forgotten one, and of the others it
learns an offset only from an acknowledgement.

*Order of creation.* `CreatedFirst` is not inductive: a batch leaves out what is synced,
and a page what lies before the cursor, so neither has the creation of all its items.
`OInv` says of each message in flight, and of a call about to write, where the creation
is instead: on the server, earlier in the batch, or in the device's log (a call changes
an item that has a row, and by `RowsSound` a row is made of events of the log). Pages need
no clause of their own: by `ReplySound`, `CursorComplete` and `PageExact` what they leave
out is in the log already.

*A server that dies.* Beside a new stream the old cursors, markers and pages are wrong
and `IInv` does not hold. `CInv` keeps types, batches and offsets below
`next_server_offset`, and says of each device that there is a bound, `passed`, beyond
which neither its cursor nor a page on its way skips anything, and that a cursor beyond
the end of the stream is within that bound. The last is what covers events that are
stored below the stale cursor later.

*The runner.* `TypeOK` ties the place of each task to its kind (`ControlOK`), and so only
a job is ever in the loop. The other three invariants are inductive beside it. The flag
turns true only in a `start` that goes on to spawn, and a job leaves the loop only on
reading it false, so the task that serves the flag serves it until it is cleared
(`ServesOn`), whatever other jobs do. Rows that changed are announced because a round that
rebuilds goes to the listener with nothing in between that can fail. A reconnect starts in
time because an edit counts as made offline until a round has pushed it or failed to, and
`set_online` goes for the log mutex in the step that turns the flag.

*An item's history.* `HInv` says that a log holds an event once, that an id names the same
event in every log, with its time and write offset, and that a replica holds what it
wrote. It is what `append_local` provides by filling in the offset before anything
is sent. `BeforeIsOrder` shows that the sort key is a strict total order on events of
different ids, `SortedHistory` that sorting lists the log by it, and `SameHistory` that the
result does not depend on the arrival order: that is `Convergence`. The fold goes from
event to event (`FoldSteps`), and `ClosedForm` holds after each number of events; for
`EditShows`, a new event with the highest key leaves the rest of the sorted history
where it was (`SortLast`) and is folded last (`FoldLonger`). The induction theorems of
the library take an operator as a parameter and cannot be used with the provers at hand.
`SetInduction` is induction over a set of numbers instead, from the fact that `<` is
well-founded on `Nat`; `BoundedInduction` is the form that the two folds need.

Every inductive invariant was also checked by TLC on the instance of its run.

Only model-checked: the liveness properties, since TLAPS 1.4.5 does not reason about
fairness or `ENABLED`. These are `LogsConverge`, `RowsConverge`, `ServerRowsConverge`,
`CallsReturn`, `RoundsEnd`, `StreamResumes`, `RowsFollowLogs`, `BackgroundDelivers`, `ReconnectDelivers`,
`StoppedJobsExit`, `OfflineQuiesces` and `EveryChangeIsRead`.

## 5. Not modelled

* Reads (`find`, `find_all`, `get_items`, `all_events`, `/health`): they change no
  state. What they could show is what the properties of rows are about.
* URLs, JSON, FFI type mapping, SwiftUI layout: no property is about them. A
  malformed id makes no call at all.
* A batch that the server refuses for its content: the code sends it again for ever.
  Whether a batch is refused (size limit, format) is decided in axum and serde.
* The order in which Swift runs the tasks of two flips of a toggle: `SyncRunner` lets
  them run in any order, and the source does not say which orders the runtime
  produces.
* The arithmetic of quantities in the app: an event carries some value. Two quick taps
  on a stale row send the same quantity twice; nothing promises that they add up.

## 6. Plan

1. *(done)* `EventLog`, `DeviceStore`, `ServerLog`, `OfflineSync` with its safety and
   liveness runs; `IInv` and its theorems; `ItemHistory`; `SyncRunner`.
2. *(done)* `Replication`, and `OfflineSync` shown to implement it, as a property of
   `SyncFaults` and as a theorem; `ServerRestart`; the silent server; the server as an
   author in `ItemHistory`; `OfflineQuiesces`; theorems for `SyncKeepsLog` and
   `RowsGrow`.
3. *(done)* Theorems for all remaining safety properties: `CreatedFirst`, `AckedIsServed`,
   `ServerRowRepairable`, `OnlyPassedSkipped`, the runner's invariants with
   `ChangeIsNotified` and `ReconnectStarts`, and the three properties of `ItemHistory`.
4. The safety parts that liveness arguments rest on: the order in which a device takes its
   two mutexes as an invariant, and what bounds a round's pages; the refinement of a
   restarting server by a `Replication` whose stream may be lost.
