----------------------------- MODULE AppScreen -----------------------------
(***************************************************************************)
(* The list on the app's screen beside the sync runner.  A refresh of      *)
(* OfflineSyncDemoApp.swift awaits the rows, which are read on the Rust    *)
(* runtime's threads, and assigns them when it is back on the main actor.  *)
(* Refreshes overlap, and nothing orders their returns.                    *)
(***************************************************************************)
EXTENDS SyncRunner

VARIABLES
  reads,    \* what refreshes have read and not shown yet: the current rows or not
  shown     \* the screen shows the current rows

screenVars == <<vars, reads, shown>>

\* The list is empty, the refresh of the launch has begun.
ScreenInit == Init /\ reads = {} /\ shown = FALSE

\* A step of the runner, its calls or a refresh that reads.  Once the rows have changed
\* (~seen) nothing read or shown before is current.
RunnerStep ==
  /\ Next
  /\ reads' = IF ReadItems THEN reads \cup {TRUE} ELSE {v /\ seen' : v \in reads}
  /\ shown' = (shown /\ seen')

\* refresh: items = what was read.
ShowItems ==
  /\ \E v \in reads : shown' = v /\ reads' = reads \ {v}
  /\ UNCHANGED vars

ScreenSpec ==
  /\ ScreenInit /\ [][RunnerStep \/ ShowItems]_screenVars
  /\ Fairness /\ ServerFairness /\ WF_screenVars(ShowItems)

\* "Refresh the list whenever a (background) sync pulled changes": in the end the
\* screen shows the rows.
ScreenCatchesUp == <>[]shown
=============================================================================
