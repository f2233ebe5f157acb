---------------------------- MODULE AtomicStock ----------------------------
(***************************************************************************)
(* What the durable side of the inventory service promises to whoever      *)
(* reads the two tables of seed.sql: units leave the seeded stock in       *)
(* indivisible sales, no sale takes more than is left, and every sale      *)
(* leaves exactly one journal row that states what remained after it.      *)
(* Transactions, row locks, retries and crashes are invisible here.        *)
(***************************************************************************)
EXTENDS Integers, Sequences

CONSTANT Seed           \* the stock the table is seeded with

VARIABLES available,    \* units not yet sold
          journal       \* one row per sale, oldest first

Init == available = Seed /\ journal = <<>>

Sell(quantity) ==
  /\ available' = available - quantity
  /\ journal' = Append(journal, [delta |-> -quantity, remaining |-> available'])

Next == \E quantity \in 1 .. available : Sell(quantity)

Spec == Init /\ [][Next]_<<available, journal>>
=============================================================================
