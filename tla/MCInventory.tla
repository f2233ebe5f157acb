---------------------------- MODULE MCInventory ----------------------------
(* Instances of Inventory for TLC. *)
EXTENDS Inventory, TLC

\* A quantity the validation must refuse, one unit, and two.
MCQuantities == {-1, 1, 2}

\* Two callers both hold a connection, except in Java, where one waits for it.
MCPoolSize == [i \in Implementations |-> IF i = "java" THEN 1 ELSE 2]

Symmetry == Permutations(Clients)
=============================================================================
