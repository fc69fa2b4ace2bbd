--------------------------- MODULE MCOfflineSync ---------------------------
(* Finite instances of OfflineSync for TLC. *)
EXTENDS OfflineSync, TLC

\* Event ids, devices, items and tasks are only ever compared for equality.
Symmetry == Permutations(EventIds) \cup Permutations(Devices)
            \cup Permutations(Items) \cup Permutations(Tasks)
=============================================================================
