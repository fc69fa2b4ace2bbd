--------------------------- MODULE MCItemHistory ---------------------------
(* Finite instances of ItemHistory for TLC. *)
EXTENDS ItemHistory

\* Devices are only compared for equality; ids and times are ordered.
Symmetry == Permutations(Phones)
=============================================================================
