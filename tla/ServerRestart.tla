--------------------------- MODULE ServerRestart ---------------------------
(***************************************************************************)
(* The server process dies and is started again while the devices live on. *)
(* backend/src/bin/server.rs serves a router over empty in-memory stores,   *)
(* so the new process knows no event and counts offsets from 1 again; the   *)
(* devices keep the cursors and the synced markers of the old stream.       *)
(***************************************************************************)
EXTENDS OfflineSync, FiniteSetsExt

CONSTANT MaxCrashes   \* bound on the deaths of the server

VARIABLES
  crashes,
  passed     \* history: the offset up to which each device is past the old stream

restartVars == <<vars, crashes, passed>>

CrashInit ==
  /\ Init
  /\ crashes = 0
  /\ passed = [d \in Devices |-> 0]

\* The round of d waits for a response.
Waiting(d) == \E t \in Tasks : pc[d][t] \in {"pushing", "pull"}

\* A batch of d is with the server, or its answer not sent yet.
InHandler(d) == reply[d].kind = "none" /\ \E t \in Tasks : pc[d][t] = "pushing"

\* Faulty variant: the error of a reset connection is not an error of the round.
FailRoundsIgnores(lost) == UNCHANGED <<pc, touched, orphaned, log_lock>>

\* The rounds of the devices `lost` end with an error.
FailRounds(lost) ==
  LET kept(d, t) == d \notin lost \/ pc[d][t] \notin {"pushing", "pull"} IN
  /\ pc' = [d \in Devices |-> [t \in Tasks |-> IF kept(d, t) THEN pc[d][t] ELSE "idle"]]
  /\ touched' = [d \in Devices |-> [t \in Tasks |-> IF kept(d, t) THEN touched[d][t] ELSE {}]]
  /\ orphaned' = [d \in Devices |->
       orphaned[d] \cup UNION {touched[d][t] : t \in {t \in Tasks : ~kept(d, t)}}]
  /\ log_lock' = [d \in Devices |-> IF d \in lost THEN Free ELSE log_lock[d]]

\* The server dies and a new one serves build_router().  The rounds whose batch it
\* held fail; a response that was sent already may still arrive; a GET may be lost,
\* or reach the new server.
CrashServer ==
  /\ crashes < MaxCrashes
  /\ crashes' = crashes + 1
  /\ \E lost \in SUBSET {d \in Devices : Waiting(d)} :
       /\ {d \in Devices : InHandler(d)} \subseteq lost
       /\ FailRounds(lost)
       /\ reply' = [d \in Devices |-> IF d \in lost THEN NoReply ELSE reply[d]]
  /\ entries' = EmptyLog
  /\ next_server_offset' = 1
  /\ srv_items' = [x \in Items |-> {}]
  /\ handlers' = {}
  /\ passed' = [d \in Devices |-> Max({pulled[d], passed[d], reply'[d].next_offset})]
  /\ UNCHANGED <<issued, forgotten, log, stamp, rows, call, pulled, failures, restarts>>

\* A device that starts over reads the new stream from its beginning.
CrashNext ==
  \/ CrashServer
  \/ /\ Next
     /\ passed' = [d \in Devices |-> IF Restart(d) THEN 0 ELSE passed[d]]
     /\ UNCHANGED crashes

CrashSpec ==
  CrashInit /\ [][CrashNext]_restartVars /\ DeviceFairness /\ ServerFairness

-----------------------------------------------------------------------------
\* What the cursor of a device skips of the new stream lies below the cursor it brought
\* along: events() after the stale cursor are complete, although pages and
\* acknowledgements of both streams arrive (events_after, pull).
OnlyPassedSkipped ==
  \A d \in Devices : \A e \in DOMAIN entries :
    entries[e] <= pulled[d] => e \in Contents(d) \/ entries[e] <= passed[d]

\* Once the server stays up the devices need no help to go on: each pushes until it
\* holds nothing as unsynced, and takes all of the new stream but the offsets below the
\* cursor it brought along.  An event acknowledged by the old server counts as synced.
\* While the server lives passed is 0 and nothing is skipped (push, pull).
StreamResumes ==
  <>[](/\ \A d \in Devices : Unsynced(d) = {}
       /\ \A d \in Devices : \A e \in DOMAIN entries :
            e \in Contents(d) \/ entries[e] <= passed[d])

\* ... and every device shows what its log holds, edits, deletions and events of either
\* stream alike, save rows that a failed round orphaned.
RowsFollowLogs ==
  <>[](\A d \in Devices, x \in Items :
         rows[d][x] = Projection(Contents(d), x) \/ x \in orphaned[d])
=============================================================================
