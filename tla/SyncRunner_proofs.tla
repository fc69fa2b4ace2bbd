--------------------------- MODULE SyncRunner_proofs ---------------------------
(* The sync runner's safety, for any number of tasks and without any bound on *)
(* what the user, the network and the failures do.                            *)
EXTENDS SyncRunner, TLAPS

-----------------------------------------------------------------------------
(* Control *)

\* Where a task of each kind can be.
LEMMA ControlPlaces ==
  /\ DOMAIN Control = {"none", "start", "job", "setOnline", "setOffline", "syncNow"}
  /\ Control["none"] = {"idle"}
  /\ Control["start"] = {"call", "spawn"}
  /\ Control["job"] = {"while", "tick", "sleep"} \cup Round
  /\ Control["setOnline"] = {"call"} \cup Round
  /\ Control["setOffline"] = {"call"}
  /\ Control["syncNow"] = {"call"} \cup Round
BY DEF Control

\* Kinds and places fit together.
ControlOK ==
  /\ kind \in [Tasks -> DOMAIN Control]
  /\ DOMAIN pc = Tasks /\ \A t \in Tasks : pc[t] \in Control[kind[t]]

\* What the place of a task says about its kind.
LEMMA PlaceKind ==
  ASSUME ControlOK, NEW t \in Tasks
  PROVE  /\ pc[t] = "idle" <=> kind[t] = "none"
         /\ pc[t] = "spawn" => kind[t] = "start"
         /\ pc[t] \in {"while", "tick", "sleep"} => kind[t] = "job"
         /\ pc[t] \in Round => kind[t] \in {"job", "setOnline", "syncNow"}
<1>1. kind[t] \in DOMAIN Control /\ pc[t] \in Control[kind[t]]
  BY DEF ControlOK
<1>2. QED
  BY <1>1, ControlPlaces DEF Round

\* Moving a task to a place of its kind, or ending it.
LEMMA GoToControl ==
  ASSUME ControlOK, NEW t \in Tasks, NEW label, label \in Control[kind[t]] \cup {"idle"}, GoTo(t, label)
  PROVE  ControlOK'
<1>1. CASE label = "idle"
  <2>1. kind' = [kind EXCEPT ![t] = "none"] /\ pc' = [pc EXCEPT ![t] = "idle"]
    BY <1>1 DEF GoTo
  <2>2. QED
    BY <2>1, ControlPlaces DEF ControlOK
<1>2. CASE label # "idle"
  <2>1. kind' = kind /\ pc' = [pc EXCEPT ![t] = label]
    BY <1>2 DEF GoTo
  <2>2. QED
    BY <1>2, <2>1 DEF ControlOK
<1>3. QED
  BY <1>1, <1>2

\* A new task makes its call.
LEMMA CallControl ==
  ASSUME ControlOK, NEW t \in Tasks, NEW k \in {"start", "setOnline", "setOffline", "syncNow"}, Call(t, k)
  PROVE  ControlOK'
BY ControlPlaces DEF Call, ControlOK

\* After a round a task is at a place of its kind.
LEMMA AfterRoundControl ==
  ASSUME ControlOK, NEW t \in Tasks
  PROVE  AfterRound(t) \in Control[kind[t]] \cup {"idle"}
BY ControlPlaces DEF AfterRound

\* A step of a round leads to another of its places, or out of it.
LEMMA RoundMoves ==
  ASSUME NEW t \in Tasks, Granted(t) \/ Exchange(t) \/ Notify(t) \/ RoundFails(t)
  PROVE  \E label \in Round \cup {AfterRound(t)} : pc[t] \in Round /\ GoTo(t, label)
<1>1. CASE Granted(t)
  BY <1>1 DEF Granted, LockLog, LockStorage, Rebuild, Move, Round
<1>2. CASE Exchange(t)
  BY <1>2 DEF Exchange, Push, Pull, Round
<1>3. CASE Notify(t) \/ RoundFails(t)
  BY <1>3 DEF Notify, RoundFails, LeaveRound, Round
<1>4. QED
  BY <1>1, <1>2, <1>3

\* Every step keeps kinds and places fitting.
LEMMA NextControl ==
  ASSUME ControlOK, [Next]_vars
  PROVE  ControlOK'
<1>1. ASSUME UNCHANGED <<kind, pc>> PROVE ControlOK'
  BY <1>1 DEF ControlOK
<1>2. CASE BackgroundOff \/ EditItem \/ CallStep \/ ReadItems \/ RemoteEvents \/ UNCHANGED vars
  BY <1>1, <1>2 DEF BackgroundOff, EditItem, CallStep, AppendEdit, BuildEdit, ReadItems, RemoteEvents, vars
<1>3. ASSUME NEW t \in Tasks, BackgroundOn(t) \/ FlipOnline(t) \/ PressSync(t) PROVE ControlOK'
  <2>1. PICK k \in {"start", "setOnline", "setOffline", "syncNow"} : Call(t, k)
    BY <1>3 DEF BackgroundOn, FlipOnline, PressSync
  <2>2. QED
    BY <2>1, CallControl
<1>4. ASSUME NEW t \in Tasks, SpawnJob(t) PROVE ControlOK'
  BY <1>4, ControlPlaces DEF SpawnJob, ControlOK
<1>5. ASSUME NEW t \in Tasks,
             \/ Start(t) \/ TestRunning(t) \/ TestOnline(t) \/ Wake(t)
             \/ SetOnline(t) \/ SetOffline(t) \/ SyncNow(t)
             \/ Granted(t) \/ Exchange(t) \/ Notify(t) \/ RoundFails(t)
      PROVE  ControlOK'
  <2>1. kind[t] \in DOMAIN Control /\ pc[t] \in Control[kind[t]]
    BY DEF ControlOK
  <2>2. pc[t] \in {"while", "tick", "sleep"} => kind[t] = "job"
    BY PlaceKind
  <2>3. pc[t] \in Round => Round \subseteq Control[kind[t]]
    BY PlaceKind, ControlPlaces
  <2>4. AfterRound(t) \in Control[kind[t]] \cup {"idle"}
    BY AfterRoundControl
  <2>5. CASE Start(t)
    <3>1. PICK label \in {"idle", "spawn"} : GoTo(t, label)
      BY <2>5 DEF Start
    <3>2. label \in Control[kind[t]] \cup {"idle"}
      BY <2>5, ControlPlaces DEF Start
    <3>3. QED
      BY <3>1, <3>2, GoToControl
  <2>6. CASE TestRunning(t) \/ TestOnline(t) \/ Wake(t)
    <3>1. PICK label \in {"idle", "tick", "lock", "sleep", "while"} : GoTo(t, label)
      BY <2>6 DEF TestRunning, TestOnline, Wake, Move
    <3>2. kind[t] = "job"
      BY <2>2, <2>6 DEF TestRunning, TestOnline, Wake, Move
    <3>3. label \in Control[kind[t]] \cup {"idle"}
      BY <3>2, ControlPlaces DEF Round
    <3>4. QED
      BY <3>1, <3>3, GoToControl
  <2>7. CASE SetOnline(t) \/ SetOffline(t) \/ SyncNow(t)
    <3>1. PICK label \in {"idle", "lock"} :
            GoTo(t, label) /\ (label = "lock" => kind[t] \in {"setOnline", "syncNow"})
      BY <2>7 DEF SetOnline, SetOffline, SyncNow, Move
    <3>2. label \in Control[kind[t]] \cup {"idle"}
      BY <3>1, ControlPlaces DEF Round
    <3>3. QED
      BY <3>1, <3>2, GoToControl
  <2>8. CASE Granted(t) \/ Exchange(t) \/ Notify(t) \/ RoundFails(t)
    <3>1. PICK label \in Round \cup {AfterRound(t)} : pc[t] \in Round /\ GoTo(t, label)
      BY <2>8, RoundMoves
    <3>2. label \in Round \cup {AfterRound(t)} /\ GoTo(t, label)
      BY <3>1
    <3>3. label \in Control[kind[t]] \cup {"idle"}
      BY <2>3, <2>4, <3>1, <3>2
    <3>4. QED
      BY <3>2, <3>3, GoToControl
  <2>9. QED
    BY <1>5, <2>5, <2>6, <2>7, <2>8
<1>6. QED
  BY <1>2, <1>3, <1>4, <1>5 DEF Next, TaskStep

-----------------------------------------------------------------------------
(* Types *)

\* The flags, the toggles, the data and the refresh.
FlagsOK ==
  /\ running \in BOOLEAN /\ online \in BOOLEAN
  /\ backgroundSync \in BOOLEAN /\ onlineToggle \in BOOLEAN
  /\ unsynced \in BOOLEAN /\ ahead \in BOOLEAN /\ news \in BOOLEAN /\ stale \in BOOLEAN
  /\ offlineEdit \in BOOLEAN /\ asked \in BOOLEAN /\ seen \in BOOLEAN
  /\ call \in {"none", "append", "build"}

\* The counters.
CountsOK == taps \in Nat /\ edits \in Nat /\ remote \in Nat /\ failures \in Nat

\* TypeOK says these things.
LEMMA TypeParts == TypeOK <=> FlagsOK /\ CountsOK /\ ControlOK
<1>1. (/\ {running, online, backgroundSync, onlineToggle, unsynced, ahead, news, stale,
           offlineEdit, asked, seen} \subseteq BOOLEAN
       /\ call \in {"none", "append", "build"}) <=> FlagsOK
  <2> DEFINE S == {running, online, backgroundSync, onlineToggle, unsynced, ahead, news, stale,
                   offlineEdit, asked, seen}
  <2>1. ASSUME FlagsOK, NEW v \in S PROVE v \in BOOLEAN
    BY <2>1, ZenonT(40) DEF FlagsOK
  <2>2. ASSUME S \subseteq BOOLEAN, call \in {"none", "append", "build"} PROVE FlagsOK
    <3>1. running \in S /\ online \in S /\ backgroundSync \in S /\ onlineToggle \in S
      BY Zenon
    <3>2. unsynced \in S /\ ahead \in S /\ news \in S /\ stale \in S
      BY Zenon
    <3>3. offlineEdit \in S /\ asked \in S /\ seen \in S
      BY Zenon
    <3> HIDE DEF S
    <3>4. QED
      BY <2>2, <3>1, <3>2, <3>3, Zenon DEF FlagsOK
  <2>3. FlagsOK => call \in {"none", "append", "build"}
    BY Zenon DEF FlagsOK
  <2> HIDE DEF S
  <2>4. (S \subseteq BOOLEAN /\ call \in {"none", "append", "build"}) <=> FlagsOK
    BY <2>1, <2>2, <2>3, Zenon
  <2>5. QED
    BY <2>4 DEF S
<1>2. ({taps, edits, remote, failures} \subseteq Nat) <=> CountsOK
  BY DEF CountsOK
<1>3. QED
  BY <1>1, <1>2 DEF TypeOK, ControlOK

\* Flags keep their type in what the app does.
LEMMA AppFlags ==
  ASSUME FlagsOK,
         \/ BackgroundOff \/ EditItem \/ CallStep \/ ReadItems \/ RemoteEvents \/ UNCHANGED vars
         \/ \E t \in Tasks : BackgroundOn(t) \/ FlipOnline(t) \/ PressSync(t)
  PROVE  FlagsOK'
<1>1. CASE BackgroundOff
  BY <1>1, Zenon DEF BackgroundOff, Tap, data, refresh, FlagsOK
<1>2. CASE \E t \in Tasks : BackgroundOn(t) \/ FlipOnline(t) \/ PressSync(t)
  <2>1. PICK t \in Tasks : BackgroundOn(t) \/ FlipOnline(t) \/ PressSync(t)
    BY <1>2
  <2>2. UNCHANGED <<flags, data, refresh>>
    BY <2>1, ZenonT(40) DEF BackgroundOn, FlipOnline, PressSync, Tap
  <2>3. backgroundSync' \in {backgroundSync, TRUE} /\ onlineToggle' \in {onlineToggle, ~onlineToggle}
    BY <2>1, ZenonT(40) DEF BackgroundOn, FlipOnline, PressSync, toggles
  <2>4. backgroundSync' \in BOOLEAN /\ onlineToggle' \in BOOLEAN
    BY <2>3, Zenon DEF FlagsOK
  <2>5. QED
    BY <2>2, <2>4, ZenonT(40) DEF flags, data, refresh, FlagsOK
<1>3. CASE EditItem
  BY <1>3, ZenonT(40) DEF EditItem, flags, toggles, refresh, FlagsOK
<1>4. CASE AppendEdit
  BY <1>4, ZenonT(40) DEF AppendEdit, flags, toggles, refresh, FlagsOK
<1>5. CASE BuildEdit
  BY <1>5, ZenonT(40) DEF BuildEdit, RowsChange, flags, toggles, FlagsOK
<1>6. CASE ReadItems
  BY <1>6, Zenon DEF ReadItems, flags, toggles, data, FlagsOK
<1>7. CASE RemoteEvents
  BY <1>7, ZenonT(40) DEF RemoteEvents, flags, toggles, refresh, FlagsOK
<1>8. CASE UNCHANGED vars
  BY <1>8, ZenonT(40) DEF vars, FlagsOK
<1>9. QED
  BY <1>1, <1>2, <1>3, <1>4, <1>5, <1>6, <1>7, <1>8 DEF CallStep

\* ... and in what the tasks do.
LEMMA TaskFlags ==
  ASSUME FlagsOK, NEW t \in Tasks, TaskStep(t) \/ Granted(t) \/ Exchange(t) \/ RoundFails(t)
  PROVE  FlagsOK'
<1>1. UNCHANGED <<backgroundSync, onlineToggle>>
  BY DEF TaskStep, Start, SpawnJob, TestRunning, TestOnline, Wake, SetOnline, SetOffline, SyncNow, Notify,
         Granted, LockLog, LockStorage, Rebuild, Exchange, Push, Pull, RoundFails, LeaveRound, Move, toggles
<1>2. CASE UNCHANGED <<data, refresh>>
  <2>1. CASE Start(t)
    BY <1>1, <1>2, <2>1, ZenonT(40) DEF Start, data, refresh, FlagsOK
  <2>2. CASE SetOnline(t) \/ SetOffline(t)
    BY <1>1, <1>2, <2>2, ZenonT(40) DEF SetOnline, SetOffline, data, refresh, FlagsOK
  <2>3. CASE UNCHANGED flags
    BY <1>1, <1>2, <2>3, ZenonT(40) DEF flags, data, refresh, FlagsOK
  <2>4. Start(t) \/ SetOnline(t) \/ SetOffline(t) \/ UNCHANGED flags
    BY DEF TaskStep, SpawnJob, TestRunning, TestOnline, Wake, SyncNow, Notify, Granted, LockLog, LockStorage,
           Rebuild, Exchange, Push, Pull, RoundFails, LeaveRound, Move
  <2>5. QED
    BY <2>1, <2>2, <2>3, <2>4
<1>3. CASE Push(t)
  BY <1>3, Zenon DEF Push, flags, toggles, refresh, FlagsOK
<1>4. CASE Pull(t)
  BY <1>4, ZenonT(40) DEF Pull, flags, toggles, FlagsOK
<1>5. CASE Notify(t)
  BY <1>5, ZenonT(40) DEF Notify, flags, toggles, data, FlagsOK
<1>6. CASE Rebuild(t)
  BY <1>6, ZenonT(40) DEF Rebuild, RowsChange, flags, toggles, FlagsOK
<1>7. CASE RoundFails(t)
  <2>1. UNCHANGED <<running, online, unsynced, call, asked, seen>> /\ offlineEdit' = FALSE
    BY <1>7, Zenon DEF RoundFails, LeaveRound, flags, refresh
  <2>2. ahead' \in {ahead, ahead \/ unsynced, FALSE} /\ news' \in {news, FALSE}
    BY <1>7, ZenonT(40) DEF RoundFails, LeaveRound
  <2>3. stale' = stale \/ stale' = (stale \/ (news /\ ~news')) \/ stale' = (stale \/ news)
    BY <1>7, ZenonT(40) DEF RoundFails, LeaveRound
  <2>4. running' \in BOOLEAN /\ online' \in BOOLEAN /\ unsynced' \in BOOLEAN /\ offlineEdit' \in BOOLEAN
    BY <2>1, Zenon DEF FlagsOK
  <2>5. backgroundSync' \in BOOLEAN /\ onlineToggle' \in BOOLEAN /\ asked' \in BOOLEAN /\ seen' \in BOOLEAN
    BY <1>1, <2>1, Zenon DEF FlagsOK
  <2>6. ahead' \in BOOLEAN /\ news' \in BOOLEAN
    BY <2>2, ZenonT(40) DEF FlagsOK
  <2>7. stale' \in BOOLEAN /\ call' \in {"none", "append", "build"}
    BY <2>1, <2>3, ZenonT(40) DEF FlagsOK
  <2>8. QED
    BY <2>4, <2>5, <2>6, <2>7, Zenon DEF FlagsOK
<1>8. QED
  BY <1>2, <1>3, <1>4, <1>5, <1>6, <1>7 DEF TaskStep, Start, SpawnJob, TestRunning, TestOnline, Wake, SetOnline,
                                      SetOffline, SyncNow, Granted, LockLog, LockStorage, Exchange, Move

\* A step counts one event at most.
LEMMA NextCounts ==
  ASSUME CountsOK, [Next]_vars
  PROVE  CountsOK'
<1>1. CASE UNCHANGED counts
  BY <1>1 DEF counts, CountsOK
<1>2. CASE Tap \/ EditItem \/ RemoteEvents \/ (\E t \in Tasks : RoundFails(t))
  <2>1. /\ taps' \in {taps, taps + 1} /\ edits' \in {edits, edits + 1}
        /\ remote' \in {remote, remote + 1} /\ failures' \in {failures, failures + 1}
    BY <1>2 DEF Tap, EditItem, RemoteEvents, RoundFails, LeaveRound
  <2>2. QED
    BY <2>1 DEF CountsOK
<1>3. ASSUME NEW t \in Tasks, TaskStep(t) \/ Granted(t) \/ Exchange(t) PROVE UNCHANGED counts
  BY <1>3 DEF TaskStep, Start, SpawnJob, TestRunning, TestOnline, Wake, SetOnline, SetOffline, SyncNow,
              Notify, Granted, LockLog, LockStorage, Rebuild, Exchange, Push, Pull, Move
<1>4. QED
  BY <1>1, <1>2, <1>3 DEF Next, BackgroundOff, BackgroundOn, FlipOnline, PressSync, CallStep, AppendEdit, BuildEdit,
                          ReadItems, counts, vars

\* Every state of the runner is well formed: only the job is ever in the loop of
\* `start`, only the calls that sync are ever in sync_once.
THEOREM RunnerTypeCorrect == Spec => []TypeOK
<1>1. Init => TypeOK
  <2> SUFFICES ASSUME Init PROVE TypeOK
    OBVIOUS
  <2>1. ControlOK
    BY ControlPlaces DEF Init, ControlOK
  <2>2. FlagsOK
    BY Zenon DEF Init, FlagsOK
  <2>3. CountsOK
    BY DEF Init, CountsOK
  <2>4. QED
    BY <2>1, <2>2, <2>3, TypeParts
<1>2. (FlagsOK /\ CountsOK /\ ControlOK) /\ [Next]_vars => (FlagsOK /\ CountsOK /\ ControlOK)'
  <2> SUFFICES ASSUME FlagsOK, CountsOK, ControlOK, [Next]_vars PROVE (FlagsOK /\ CountsOK /\ ControlOK)'
    OBVIOUS
  <2>1. FlagsOK'
    BY AppFlags, TaskFlags DEF Next
  <2>2. QED
    BY <2>1, NextCounts, NextControl
<1>3. QED
  BY TypeParts, <1>1, <1>2, PTL DEF Spec

-----------------------------------------------------------------------------
(***************************************************************************)
(* RunningHasJob: the flag is raised by a `start` that goes on to spawn,   *)
(* and a job leaves its loop only on reading the flag lowered.  A round    *)
(* never ends the job, and ends a task of another kind.                    *)
(***************************************************************************)

\* t serves the flag, or is about to.
Serves(t) == Job(t) \/ pc[t] = "spawn"

\* A task that serves the flag goes on doing so, unless it reads the flag lowered.
LEMMA ServesOn ==
  ASSUME TypeOK, NEW s \in Tasks, Serves(s), running, [Next]_vars
  PROVE  Serves(s)' \/ ~running'
<1>1. ControlOK
  BY DEF TypeOK, ControlOK
<1>2. kind \in [Tasks -> DOMAIN Control] /\ DOMAIN pc = Tasks
  BY <1>1 DEF ControlOK
<1>3. pc[s] # "idle" /\ pc[s] # "call" /\ kind[s] \in {"job", "start"}
  BY <1>1, PlaceKind, ControlPlaces DEF Serves, Job, ControlOK, Round
<1>4. ASSUME UNCHANGED <<kind, pc>> PROVE Serves(s)'
  BY <1>4 DEF Serves, Job
<1>5. ASSUME NEW t \in Tasks, NEW label, GoTo(t, label), label # "idle", pc[t] # "spawn" PROVE Serves(s)'
  BY <1>2, <1>5 DEF GoTo, Serves, Job
<1>6. ASSUME NEW t \in Tasks, NEW label, GoTo(t, label), t # s PROVE Serves(s)'
  BY <1>2, <1>6 DEF GoTo, Serves, Job
<1>7. CASE BackgroundOff \/ EditItem \/ CallStep \/ ReadItems \/ RemoteEvents \/ UNCHANGED vars
  BY <1>4, <1>7 DEF BackgroundOff, EditItem, CallStep, AppendEdit, BuildEdit, ReadItems, RemoteEvents, vars
<1>8. ASSUME NEW t \in Tasks, BackgroundOn(t) \/ FlipOnline(t) \/ PressSync(t) PROVE Serves(s)'
  <2>1. PICK k : Call(t, k)
    BY <1>8 DEF BackgroundOn, FlipOnline, PressSync
  <2>2. QED
    BY <1>2, <1>3, <2>1 DEF Call, Serves, Job
<1>9. ASSUME NEW t \in Tasks, Start(t) \/ SetOnline(t) \/ SetOffline(t) \/ SyncNow(t) PROVE Serves(s)'
  <2>1. pc[t] = "call"
    BY <1>9 DEF Start, SetOnline, SetOffline, SyncNow, Move
  <2>2. \E label : GoTo(t, label)
    BY <1>9 DEF Start, SetOnline, SetOffline, SyncNow, Move
  <2>3. QED
    BY <1>3, <1>6, <2>1, <2>2
<1>10. ASSUME NEW t \in Tasks, SpawnJob(t) PROVE Serves(s)'
  BY <1>2, <1>10 DEF SpawnJob, Serves, Job
<1>11. ASSUME NEW t \in Tasks, TestRunning(t) \/ TestOnline(t) \/ Wake(t) PROVE Serves(s)'
  <2>1. \E label : GoTo(t, label) /\ label # "idle" /\ pc[t] # "spawn"
    BY <1>11 DEF TestRunning, TestOnline, Wake, Move
  <2>2. QED
    BY <1>5, <2>1
<1>12. ASSUME NEW t \in Tasks, Granted(t) \/ Exchange(t) \/ Notify(t) \/ RoundFails(t) PROVE Serves(s)'
  <2>1. PICK label \in Round \cup {AfterRound(t)} : pc[t] \in Round /\ GoTo(t, label)
    BY <1>12, RoundMoves
  <2>2. pc[t] # "spawn" /\ GoTo(t, label)
    BY <2>1 DEF Round
  <2>3. CASE kind[t] = "job"
    <3>1. label # "idle"
      BY <2>1, <2>3 DEF AfterRound, Round
    <3>2. QED
      BY <1>5, <2>1, <2>2, <3>1
  <2>4. CASE kind[t] # "job"
    <3>1. t # s
      BY <1>1, <2>1, <2>4, PlaceKind DEF Serves, Job
    <3>2. QED
      BY <1>6, <2>2, <3>1
  <2>5. QED
    BY <2>3, <2>4
<1>13. QED
  BY <1>7, <1>8, <1>9, <1>10, <1>11, <1>12 DEF Next, TaskStep

\* `running` is never left true with no job to serve it, in whatever order starts,
\* stops and the exit of earlier jobs come (SyncRunner::start, stop).
THEOREM RunningIsServed == Spec => []RunningHasJob
<1>1. Init => RunningHasJob
  BY DEF Init, RunningHasJob
<1>2. TypeOK /\ RunningHasJob /\ [Next]_vars => RunningHasJob'
  <2> SUFFICES ASSUME TypeOK, RunningHasJob, [Next]_vars, running' PROVE \E t \in Tasks : Serves(t)'
    BY DEF RunningHasJob, Serves
  <2>1. CASE running
    <3>1. PICK s \in Tasks : Serves(s)
      BY <2>1 DEF RunningHasJob, Serves
    <3>2. QED
      BY <2>1, <3>1, ServesOn
  <2>2. CASE ~running
    <3>1. PICK t \in Tasks : Start(t)
      BY <2>2 DEF Next, TaskStep, BackgroundOff, EditItem, CallStep, AppendEdit, BuildEdit, ReadItems, RemoteEvents,
                  BackgroundOn, FlipOnline, PressSync, SpawnJob, TestRunning, TestOnline, Wake, SetOnline, SetOffline,
                  SyncNow, Granted, LockLog, LockStorage, Rebuild, Exchange, Push, Pull, Notify, RoundFails, LeaveRound,
                  Move, flags, vars
    <3>2. GoTo(t, "spawn")
      BY <2>2, <3>1 DEF Start
    <3>3. pc'[t] = "spawn"
      BY <3>2 DEF GoTo, TypeOK
    <3>4. QED
      BY <3>3 DEF Serves
  <2>3. QED
    BY <2>1, <2>2
<1>3. QED
  BY RunnerTypeCorrect, <1>1, <1>2, PTL DEF Spec

-----------------------------------------------------------------------------
(***************************************************************************)
(* ChangeIsNotified and ReconnectStarts: each is inductive beside TypeOK,  *)
(* because a failed round has not reached the rebuild, and a round has     *)
(* pushed, or tried to, before it leaves "push".                           *)
(***************************************************************************)

\* No change of the rows goes unannounced (sync_once, on_items_changed).
THEOREM ChangesAreNotified == Spec => []ChangeIsNotified
<1>1. Init => ChangeIsNotified
  BY DEF Init, ChangeIsNotified
<1>2. TypeOK /\ ChangeIsNotified /\ [Next]_vars => ChangeIsNotified'
  <2> SUFFICES ASSUME TypeOK, ChangeIsNotified, [Next]_vars PROVE ChangeIsNotified'
    OBVIOUS
  <2>1. DOMAIN pc = Tasks
    BY DEF TypeOK
  <2>2. ASSUME asked' \/ seen' PROVE ChangeIsNotified'
    BY <2>2 DEF ChangeIsNotified
  <2>3. CASE BuildEdit \/ ReadItems \/ (\E t \in Tasks : Notify(t))
    BY <2>2, <2>3 DEF BuildEdit, ReadItems, Notify
  <2>4. ASSUME NEW t \in Tasks, Rebuild(t) PROVE ChangeIsNotified'
    <3>1. pc'[t] = "notify"
      BY <2>1, <2>4 DEF Rebuild, GoTo
    <3>2. QED
      BY <3>1 DEF ChangeIsNotified
  <2>5. ASSUME asked => asked', seen' = seen, NEW t \in Tasks, NEW label,
               pc[t] # "notify", pc' = [pc EXCEPT ![t] = label]
        PROVE  ChangeIsNotified'
    BY <2>1, <2>5 DEF ChangeIsNotified
  <2>6. ASSUME asked' = asked, seen' = seen, pc' = pc
        PROVE  ChangeIsNotified'
    BY <2>6 DEF ChangeIsNotified
  <2>7. CASE BackgroundOff \/ EditItem \/ AppendEdit \/ RemoteEvents \/ UNCHANGED vars
    BY <2>6, <2>7 DEF BackgroundOff, EditItem, AppendEdit, RemoteEvents, Tap, refresh, vars
  <2>8. ASSUME NEW t \in Tasks, BackgroundOn(t) \/ FlipOnline(t) \/ PressSync(t) \/ SpawnJob(t)
        PROVE  ChangeIsNotified'
    BY <2>5, <2>8 DEF BackgroundOn, FlipOnline, PressSync, Call, Tap, SpawnJob, refresh
  <2>9. ASSUME NEW t \in Tasks,
               \/ Start(t) \/ TestRunning(t) \/ TestOnline(t) \/ Wake(t) \/ SetOnline(t) \/ SetOffline(t)
               \/ SyncNow(t) \/ LockLog(t) \/ LockStorage(t) \/ Push(t) \/ Pull(t) \/ RoundFails(t)
        PROVE  ChangeIsNotified'
    <3>1. pc[t] \in {"call", "while", "tick", "sleep", "lock", "push", "pull", "rebuild"}
      <4>1. CASE LockLog(t) \/ LockStorage(t)
        BY <4>1 DEF LockLog, LockStorage, Move
      <4>2. CASE ~(LockLog(t) \/ LockStorage(t))
        BY <2>9, <4>2 DEF Start, TestRunning, TestOnline, Wake, SetOnline, SetOffline, SyncNow, Push, Pull,
                          RoundFails, LeaveRound, Move
      <4>3. QED
        BY <4>1, <4>2
    <3>2. seen' = seen /\ (asked => asked')
      <4>1. CASE Pull(t)
        BY <4>1, Zenon DEF Pull
      <4>2. CASE ~Pull(t)
        <5>1. UNCHANGED refresh
          BY <2>9, <4>2 DEF Start, TestRunning, TestOnline, Wake, SetOnline, SetOffline, SyncNow, LockLog, LockStorage,
                            Push, RoundFails, LeaveRound, Move
        <5>2. QED
          BY <5>1 DEF refresh
      <4>3. QED
        BY <4>1, <4>2
    <3>3. \E label : pc' = [pc EXCEPT ![t] = label]
      BY <2>9 DEF Start, TestRunning, TestOnline, Wake, SetOnline, SetOffline, SyncNow, LockLog, LockStorage, Push,
                  Pull, RoundFails, Move, GoTo
    <3>4. QED
      BY <2>5, <3>1, <3>2, <3>3
  <2>10. QED
    BY <2>3, <2>4, <2>7, <2>8, <2>9 DEF Next, CallStep, TaskStep, Granted, Exchange
<1>3. QED
  BY RunnerTypeCorrect, <1>1, <1>2, PTL DEF Spec

\* An edit made offline is on its way to the server as soon as the device is online
\* again (SyncRunner::set_online).
THEOREM ReconnectsStart == Spec => []ReconnectStarts
<1>1. Init => ReconnectStarts
  BY DEF Init, ReconnectStarts
<1>2. TypeOK /\ ReconnectStarts /\ [Next]_vars => ReconnectStarts'
  <2> SUFFICES ASSUME TypeOK, ReconnectStarts, [Next]_vars PROVE ReconnectStarts'
    OBVIOUS
  <2>1. DOMAIN pc = Tasks
    BY DEF TypeOK
  <2>2. ASSUME ~online' \/ ~offlineEdit' PROVE ReconnectStarts'
    BY <2>2 DEF ReconnectStarts
  <2>3. CASE \E t \in Tasks : SetOffline(t) \/ Push(t) \/ RoundFails(t)
    BY <2>2, <2>3 DEF SetOffline, Push, RoundFails, LeaveRound
  <2>4. ASSUME online' = online, offlineEdit' = offlineEdit, NEW t \in Tasks, NEW label,
               pc[t] \notin {"lock", "push"} \/ label = "push", pc' = [pc EXCEPT ![t] = label]
        PROVE  ReconnectStarts'
    BY <2>1, <2>4 DEF ReconnectStarts
  <2>5. ASSUME online' = online, offlineEdit' => offlineEdit \/ ~online, pc' = pc
        PROVE  ReconnectStarts'
    BY <2>5 DEF ReconnectStarts
  <2>6. CASE BackgroundOff \/ EditItem \/ CallStep \/ ReadItems \/ RemoteEvents \/ UNCHANGED vars
    <3>1. pc' = pc /\ online' = online
      BY <2>6 DEF BackgroundOff, EditItem, CallStep, AppendEdit, BuildEdit, ReadItems, RemoteEvents, flags, vars
    <3>2. offlineEdit' => offlineEdit \/ ~online
      BY <2>6, ZenonT(40) DEF BackgroundOff, EditItem, CallStep, AppendEdit, BuildEdit, ReadItems, RemoteEvents, Tap,
                              data, vars
    <3>3. QED
      BY <2>5, <3>1, <3>2
  <2>7. ASSUME NEW t \in Tasks, BackgroundOn(t) \/ FlipOnline(t) \/ PressSync(t) \/ SpawnJob(t)
        PROVE  ReconnectStarts'
    BY <2>4, <2>7 DEF BackgroundOn, FlipOnline, PressSync, Call, Tap, SpawnJob, flags, data
  <2>8. ASSUME NEW t \in Tasks, SetOnline(t) PROVE ReconnectStarts'
    <3>1. pc[t] = "call" /\ offlineEdit' = offlineEdit
      BY <2>8 DEF SetOnline, data
    <3>2. CASE online
      <4>1. online' = online /\ pc' = [pc EXCEPT ![t] = "idle"]
        BY <2>8, <3>2 DEF SetOnline, GoTo, TypeOK
      <4>2. QED
        BY <2>4, <3>1, <4>1
    <3>3. CASE ~online
      <4>1. pc'[t] = "lock"
        BY <2>1, <2>8, <3>3 DEF SetOnline, GoTo
      <4>2. QED
        BY <4>1 DEF ReconnectStarts
    <3>4. QED
      BY <3>2, <3>3
  <2>9. ASSUME NEW t \in Tasks,
               \/ Start(t) \/ TestRunning(t) \/ TestOnline(t) \/ Wake(t) \/ SyncNow(t) \/ LockLog(t)
               \/ LockStorage(t) \/ Pull(t) \/ Rebuild(t) \/ Notify(t)
        PROVE  ReconnectStarts'
    <3>1. online' = online /\ offlineEdit' = offlineEdit
      BY <2>9 DEF Start, TestRunning, TestOnline, Wake, SyncNow, LockLog, LockStorage, Pull, Rebuild, Notify, Move,
                  flags, data
    <3>2. PICK label : /\ pc[t] \notin {"lock", "push"} \/ label = "push"
                       /\ pc' = [pc EXCEPT ![t] = label]
      BY <2>9 DEF Start, TestRunning, TestOnline, Wake, SyncNow, LockLog, LockStorage, Pull, Rebuild, Notify, Move,
                  GoTo
    <3>3. QED
      BY <2>4, <3>1, <3>2
  <2>10. QED
    BY <2>3, <2>6, <2>7, <2>8, <2>9 DEF Next, TaskStep, Granted, Exchange
<1>3. QED
  BY RunnerTypeCorrect, <1>1, <1>2, PTL DEF Spec
=============================================================================
