-------------------------- MODULE MCServerRestart --------------------------
(* Finite instances of ServerRestart for TLC. *)
EXTENDS ServerRestart

\* Ids are used in ascending order and one device writes first.  Ids and devices are
\* only compared for equality, so every behaviour is one of these renamed; unlike
\* SYMMETRY this merges no states and is sound for liveness.
Canonical ==
  LET used == {e.replica_event_id : e \in Authored'} IN
  /\ \A i \in used, j \in EventIds : j < i => j \in used
  /\ Authored = {} => \A e \in Authored' : e.replica_id = CHOOSE d \in Devices : TRUE
=============================================================================
