----------------------------- MODULE SyncRunner -----------------------------
(***************************************************************************)
(* The sync runner of one device (client-sdk/src/sync_runner.rs) and the   *)
(* calls the iOS app makes on it: the background job, the simulated        *)
(* network status, sync-on-reconnect, manual rounds, and the notification  *)
(* that makes the app read the rows again.                                 *)
(*                                                                         *)
(* The flags are atomics that tasks on several threads read and write, so  *)
(* every access is a step.  A round is sync_once: it holds the log mutex   *)
(* from "push" to the end of "pull", then the storage mutex in "building". *)
(* A service call holds the storage mutex while it waits for the log, and  *)
(* a refresh reads the rows under it.  What a round moves is reduced to    *)
(* whether there is something to push or to pull; OfflineSync has the      *)
(* rest.  Of the app's refreshes only the reading is here; AppScreen has   *)
(* what they show.                                                         *)
(***************************************************************************)
EXTENDS Naturals

CONSTANTS
  Tasks,         \* the Swift and tokio tasks that can be alive at one time
  Launch,        \* the one in which the app starts the background job
  MaxTaps,       \* bound on what the user does to the toggles and the sync button
  MaxEdits,      \* bound on local edits
  MaxNews,       \* bound on batches of remote events
  MaxFailures    \* bound on failed rounds

ASSUME LaunchAssumption == Launch \in Tasks

ASSUME RunnerBounds == {MaxTaps, MaxEdits, MaxNews, MaxFailures} \subseteq Nat

VARIABLES
  running, online,     \* the AtomicBools
  backgroundSync,      \* the app's toggles
  onlineToggle,
  kind, pc,            \* what each task is, and where
  unsynced,            \* there are events to push
  ahead,               \* the stream holds own events past the cursor: echoes
  news,                \* ... and remote ones
  stale,               \* the log holds events that the rows do not show yet
  call,                \* the service call that holds the storage mutex: what it does next
  asked,               \* a refresh has begun and has not read the rows yet
  seen,                \* history: a refresh has read the current rows
  offlineEdit,         \* history: an edit made offline that no round has tried to push
  taps, edits, remote, failures

flags == <<running, online>>
toggles == <<backgroundSync, onlineToggle>>
data == <<unsynced, ahead, news, stale, call, offlineEdit>>
refresh == <<asked, seen>>
counts == <<taps, edits, remote, failures>>
vars == <<running, online, backgroundSync, onlineToggle, kind, pc, unsynced, ahead, news,
          stale, call, offlineEdit, asked, seen, taps, edits, remote, failures>>

\* Where a task of each kind can be.
Round == {"lock", "push", "pull", "rebuild", "building", "notify"}
Control ==
  [none |-> {"idle"},
   start |-> {"call", "spawn"},
   job |-> {"while", "tick", "sleep"} \cup Round,
   setOnline |-> {"call"} \cup Round,
   setOffline |-> {"call"},
   syncNow |-> {"call"} \cup Round]

\* The type of every variable: only the background job is ever in the loop of
\* `start`, only the calls that sync are ever in sync_once.
TypeOK ==
  /\ {running, online, backgroundSync, onlineToggle, unsynced, ahead, news, stale,
      offlineEdit, asked, seen} \subseteq BOOLEAN
  /\ call \in {"none", "append", "build"}
  /\ kind \in [Tasks -> DOMAIN Control]
  /\ DOMAIN pc = Tasks /\ \A t \in Tasks : pc[t] \in Control[kind[t]]
  /\ {taps, edits, remote, failures} \subseteq Nat

\* The app has launched: DeviceVM.init starts the background job and a refresh.
Init ==
  /\ running = FALSE /\ online = TRUE
  /\ backgroundSync = TRUE /\ onlineToggle = TRUE
  /\ kind = [t \in Tasks |-> IF t = Launch THEN "start" ELSE "none"]
  /\ pc = [t \in Tasks |-> IF t = Launch THEN "call" ELSE "idle"]
  /\ unsynced = FALSE /\ ahead = FALSE /\ news = FALSE /\ stale = FALSE
  /\ call = "none" /\ offlineEdit = FALSE
  /\ asked = TRUE /\ seen = FALSE
  /\ taps = 0 /\ edits = 0 /\ remote = 0 /\ failures = 0

-----------------------------------------------------------------------------
(* The app *)

\* Task { await ... }: another task makes the call when it gets to run.
Call(t, k) ==
  /\ pc[t] = "idle"
  /\ kind' = [kind EXCEPT ![t] = k]
  /\ pc' = [pc EXCEPT ![t] = "call"]

Tap ==
  /\ taps < MaxTaps
  /\ taps' = taps + 1
  /\ UNCHANGED <<edits, remote, failures, data, refresh>>

\* backgroundSync.didSet: start in a task of its own, stop at once.
BackgroundOn(t) ==
  /\ ~backgroundSync
  /\ backgroundSync' = TRUE
  /\ Call(t, "start")
  /\ Tap
  /\ UNCHANGED <<onlineToggle, flags>>

BackgroundOff ==
  /\ backgroundSync
  /\ backgroundSync' = FALSE
  /\ running' = FALSE
  /\ Tap
  /\ UNCHANGED <<onlineToggle, online, kind, pc>>

\* online.didSet.
FlipOnline(t) ==
  /\ onlineToggle' = ~onlineToggle
  /\ Call(t, IF onlineToggle THEN "setOffline" ELSE "setOnline")
  /\ Tap
  /\ UNCHANGED <<backgroundSync, flags>>

PressSync(t) ==
  /\ Call(t, "syncNow")
  /\ Tap
  /\ UNCHANGED <<toggles, flags>>

\* The mutexes of the device.
LogFree == \A t \in Tasks : pc[t] \notin {"push", "pull"}

StorageFree == call = "none" /\ \A t \in Tasks : pc[t] # "building"

\* The rows change: nothing read so far is current any more.
RowsChange == seen' = FALSE

\* A service call locks the storage.
EditItem ==
  /\ edits < MaxEdits
  /\ edits' = edits + 1
  /\ StorageFree
  /\ call' = "append"
  /\ UNCHANGED <<flags, toggles, kind, pc, unsynced, ahead, news, stale, offlineEdit,
                 refresh, taps, remote, failures>>

\* store, first half: append_local.
AppendEdit ==
  /\ call = "append"
  /\ LogFree
  /\ unsynced' = TRUE
  /\ offlineEdit' = (offlineEdit \/ ~online)
  /\ call' = "build"
  /\ UNCHANGED <<flags, toggles, kind, pc, ahead, news, stale, refresh, counts>>

\* store, second half: the row is rebuilt, remote events of its item included.  The
\* call returns and the app refreshes.
BuildEdit ==
  /\ call = "build"
  /\ LogFree
  /\ RowsChange
  /\ stale' \in {stale, FALSE}
  /\ call' = "none"
  /\ asked' = TRUE
  /\ UNCHANGED <<flags, toggles, kind, pc, unsynced, ahead, news, offlineEdit, counts>>

\* refresh: await service.items() reads the rows under the storage mutex.  Refreshes that
\* have begun and not read yet read the same rows.
ReadItems ==
  /\ asked
  /\ StorageFree
  /\ asked' = FALSE
  /\ seen' = TRUE
  /\ UNCHANGED <<flags, toggles, kind, pc, data, counts>>

RemoteEvents ==
  /\ remote < MaxNews
  /\ remote' = remote + 1
  /\ news' = TRUE
  /\ UNCHANGED <<flags, toggles, kind, pc, unsynced, ahead, stale, call, offlineEdit, refresh,
                 taps, edits, failures>>

-----------------------------------------------------------------------------
(* The runner *)

\* A task goes to `label`; "idle" ends it.
GoTo(t, label) ==
  /\ pc' = [pc EXCEPT ![t] = label]
  /\ kind' = IF label = "idle" THEN [kind EXCEPT ![t] = "none"] ELSE kind

\* ... which is all that happens.
Move(t, from, to) ==
  /\ pc[t] = from
  /\ GoTo(t, to)
  /\ UNCHANGED <<flags, toggles, data, refresh, counts>>

\* start: running.swap(true).
Start(t) ==
  /\ kind[t] = "start" /\ pc[t] = "call"
  /\ running' = TRUE
  /\ GoTo(t, IF running THEN "idle" ELSE "spawn")
  /\ UNCHANGED <<online, toggles, data, refresh, counts>>

\* start: the job is spawned.
SpawnJob(t) ==
  /\ pc[t] = "spawn"
  /\ kind' = [kind EXCEPT ![t] = "job"]
  /\ pc' = [pc EXCEPT ![t] = "while"]
  /\ UNCHANGED <<flags, toggles, data, refresh, counts>>

\* The job tests `running`, then `online`.
TestRunning(t) == Move(t, "while", IF running THEN "tick" ELSE "idle")

\* Faulty variants: the loop ends when it finds the device offline; it does not look.
TestOnlineExits(t) == Move(t, "tick", IF online THEN "lock" ELSE "idle")

TestOnlineNot(t) == Move(t, "tick", "lock")

TestOnline(t) == Move(t, "tick", IF online THEN "lock" ELSE "sleep")

\* Faulty variant: the loop goes on without testing `running` again.
WakeIntoTick(t) == Move(t, "sleep", "tick")

\* The interval is over.
Wake(t) == Move(t, "sleep", "while")

\* Faulty variant: coming online is left to the background job.
SetOnlineQuietly(t) ==
  /\ kind[t] = "setOnline" /\ pc[t] = "call"
  /\ online' = TRUE
  /\ GoTo(t, "idle")
  /\ UNCHANGED <<running, toggles, data, refresh, counts>>

\* set_online: online.swap; a round of its own on the change to online.
SetOnline(t) ==
  /\ kind[t] = "setOnline" /\ pc[t] = "call"
  /\ online' = TRUE
  /\ GoTo(t, IF online THEN "idle" ELSE "lock")
  /\ UNCHANGED <<running, toggles, data, refresh, counts>>

SetOffline(t) ==
  /\ kind[t] = "setOffline" /\ pc[t] = "call"
  /\ online' = FALSE
  /\ GoTo(t, "idle")
  /\ UNCHANGED <<running, toggles, data, refresh, counts>>

\* sync_now fails fast while offline.
SyncNow(t) == kind[t] = "syncNow" /\ Move(t, "call", IF online THEN "lock" ELSE "idle")

-----------------------------------------------------------------------------
(* A round *)

\* Faulty variant: every round goes on into the loop.
AfterRoundSleeps(t) == "sleep"

AfterRound(t) == IF kind[t] = "job" THEN "sleep" ELSE "idle"

\* The log and state mutexes are taken together.
LockLog(t) == LogFree /\ Move(t, "lock", "push")

\* push: everything unsynced reaches the server, and will come back as an echo.
Push(t) ==
  /\ pc[t] = "push"
  /\ ahead' = (ahead \/ unsynced)
  /\ unsynced' = FALSE
  /\ offlineEdit' = FALSE
  /\ GoTo(t, "pull")
  /\ UNCHANGED <<flags, toggles, news, stale, call, refresh, counts>>

\* pull: everything past the cursor is taken; an empty pull ends the round with
\* `changed` false.  The sync button refreshes the list after any round.
Pull(t) ==
  /\ pc[t] = "pull"
  /\ ahead' = FALSE
  /\ news' = FALSE
  /\ stale' = (stale \/ news)
  /\ GoTo(t, IF ahead \/ news THEN "rebuild" ELSE AfterRound(t))
  /\ asked' = (asked \/ (kind[t] = "syncNow" /\ ~ahead /\ ~news))
  /\ UNCHANGED <<flags, toggles, unsynced, call, offlineEdit, seen, counts>>

LockStorage(t) == StorageFree /\ Move(t, "rebuild", "building")

\* The rows of all touched items are rebuilt, of own echoes too.  They change if they
\* lack remote events, the round's own or some whose rebuild a failed round dropped;
\* they do not if a call or another round has rebuilt them in between.
Rebuild(t) ==
  /\ pc[t] = "building"
  /\ LogFree
  /\ \/ stale /\ RowsChange /\ stale' \in BOOLEAN
     \/ UNCHANGED <<stale, seen>>
  /\ GoTo(t, "notify")
  /\ UNCHANGED <<flags, toggles, unsynced, ahead, news, call, offlineEdit, asked, counts>>

\* Faulty variant: only the background job calls the listener.
NotifyFromJob(t) ==
  /\ pc[t] = "notify"
  /\ asked' = (asked \/ kind[t] = "job")
  /\ GoTo(t, AfterRound(t))
  /\ UNCHANGED <<flags, toggles, data, seen, counts>>

\* on_items_changed: the listener starts a refresh (and so does the sync button).
Notify(t) ==
  /\ pc[t] = "notify"
  /\ asked' = TRUE
  /\ GoTo(t, AfterRound(t))
  /\ UNCHANGED <<flags, toggles, data, seen, counts>>

\* The exchange fails, in push before or after the server stored the batch, in pull
\* after any of the pages: remote events and own echoes may each be taken, left or taken
\* in part, and the rows of what was taken are not rebuilt.
LeaveRound(t) ==
  /\ pc[t] \in {"push", "pull"}
  /\ failures < MaxFailures
  /\ failures' = failures + 1
  /\ offlineEdit' = FALSE
  /\ \/ pc[t] = "push" /\ ahead' \in {ahead, ahead \/ unsynced} /\ UNCHANGED <<news, stale>>
     \/ /\ pc[t] = "pull" /\ ahead' \in {ahead, FALSE} /\ news' \in {news, FALSE}
        /\ stale' \in {stale \/ (news /\ ~news'), stale \/ news}
  /\ UNCHANGED <<flags, toggles, unsynced, call, refresh, taps, edits, remote>>

\* Faulty variant: an error ends the background job.
RoundFailsExits(t) == LeaveRound(t) /\ GoTo(t, "idle")

\* The job ignores it, nobody is told.
RoundFails(t) == LeaveRound(t) /\ GoTo(t, AfterRound(t))

-----------------------------------------------------------------------------
\* What a task does by itself, between its calls on a mutex or the server.
TaskStep(t) ==
  \/ Start(t)
  \/ SpawnJob(t)
  \/ TestRunning(t)
  \/ TestOnline(t)
  \/ Wake(t)
  \/ SetOnline(t)
  \/ SetOffline(t)
  \/ SyncNow(t)
  \/ Notify(t)

\* The steps at which a task waits for a mutex.
Granted(t) == LockLog(t) \/ LockStorage(t) \/ Rebuild(t)

\* The exchanges of a round.
Exchange(t) == Push(t) \/ Pull(t)

\* What a service call does under the storage mutex, with the log mutex taken twice.
CallStep == AppendEdit \/ BuildEdit

Next ==
  \/ BackgroundOff
  \/ EditItem
  \/ CallStep
  \/ ReadItems
  \/ RemoteEvents
  \/ \E t \in Tasks :
       \/ BackgroundOn(t)
       \/ FlipOnline(t)
       \/ PressSync(t)
       \/ TaskStep(t)
       \/ Granted(t)
       \/ Exchange(t)
       \/ RoundFails(t)

Spec == Init /\ [][Next]_vars

\* Every task that can run does (tokio, the Swift executors), sleeps end, and the
\* mutexes are granted first in first out.  Nothing makes the user act.
Fairness ==
  /\ \A t \in Tasks : WF_vars(TaskStep(t)) /\ SF_vars(Granted(t))
  /\ SF_vars(CallStep)
  /\ SF_vars(ReadItems)

\* The server answers.
ServerFairness == \A t \in Tasks : WF_vars(Exchange(t))

\* The HTTP client has no timeout: the device alone ends no exchange.
SilentSpec == Spec /\ Fairness

FairSpec == SilentSpec /\ ServerFairness

-----------------------------------------------------------------------------
(* Properties *)

Job(t) == kind[t] = "job"

\* `running` is never left true with no job to serve it, whatever start and stop
\* calls race with a job that is about to exit: every start that finds the flag
\* false spawns a job, and a job exits only on reading it false (start, stop).
RunningHasJob == running => \E t \in Tasks : Job(t) \/ pc[t] = "spawn"

\* No change of the rows goes unannounced: until a refresh has read the rows as they
\* are now, one is on its way to read them or a round is about to call the listener,
\* whichever task's round changed them and whatever other rounds fail (sync_once).
ChangeIsNotified == ~seen => asked \/ \E t \in Tasks : pc[t] = "notify"

\* set_online starts its round in time: a device that is online never sits on an edit
\* made offline without a round that has yet to push, in whatever order the two
\* flips of the toggle, the edit and the rounds of other tasks come (set_online).
ReconnectStarts == online /\ offlineEdit => \E t \in Tasks : pc[t] \in {"lock", "push"}

\* A round waits for the server.  Always so means that one exchange stays open for
\* ever: between two rounds the log mutex is free.
Unanswered == ~LogFree

\* "Failures are ignored, the next tick simply retries": while the job runs and the
\* device stays online, every local edit reaches the server (start).  Here and below the
\* only thing that may come in between is a server that never answers an exchange.
BackgroundDelivers == <>[](running /\ online) => <>[]~unsynced \/ <>[]Unanswered

\* "Coming back online fires a sync round immediately": an edit made offline is
\* pushed, or the push has failed, once the device stays online, even with the
\* background job off, and whatever order the calls of set_online arrive in.
ReconnectDelivers == <>[]online => <>[]~offlineEdit \/ <>[]Unanswered

\* "Stop the background job (the current tick finishes, then the task exits)":
\* once the flag stays false every job exits, however many there are.
StoppedJobsExit == <>[]~running => <>[](\A t \in Tasks : ~Job(t)) \/ <>[]Unanswered

\* "While offline, background ticks skip and sync_now fails fast": a round that read
\* the flag before may still exchange with the server, but once the device stays
\* offline every round runs out and no task begins another.
OfflineQuiesces ==
  <>[]~online => <>[](\A t \in Tasks : pc[t] \notin Round) \/ <>[]Unanswered

\* "When a sync pulls changes, the app is notified": the last refresh reads the
\* last version of the rows, whichever task's round changed them.  An exchange that is
\* never answered keeps it from them only through the storage mutex, held by a call or
\* a rebuild that waits for the log.
EveryChangeIsRead == <>[]seen \/ <>[](Unanswered /\ ~StorageFree)

\* "One sync round every interval_ms", and `start` returns when already running:
\* there is one background job.
OneBackgroundJob == \A s, t \in Tasks : Job(s) /\ Job(t) => s = t
=============================================================================
