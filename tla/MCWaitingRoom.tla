--------------------------- MODULE MCWaitingRoom ---------------------------
(* Instances of WaitingRoom for TLC. *)
EXTENDS WaitingRoom, TLC

Symmetry == Permutations(Admitters)
=============================================================================
