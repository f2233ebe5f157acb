-------------------------- MODULE IdempotentOrders --------------------------
(***************************************************************************)
(* What an idempotency key promises: at most one order is ever placed      *)
(* under a key, it is never replaced, and a caller is only ever told the   *)
(* order of its own key, after that order was placed.  How often a caller  *)
(* asks, how many requests race and what fails on the way is invisible.    *)
(***************************************************************************)
EXTENDS Naturals

CONSTANTS Callers, Keys

VARIABLES keyOf,    \* the key each caller's request resolves to, fixed
          last,     \* orders are numbered as they are placed; the last number
          placed,   \* the order placed under each key, NoOrder before
          told      \* the order each caller was last told of, NoOrder if none

NoOrder == 0

Init ==
  /\ keyOf \in [Callers -> Keys]
  /\ last = NoOrder
  /\ placed = [k \in Keys |-> NoOrder]
  /\ told = [c \in Callers |-> NoOrder]

Place(k) ==
  /\ placed[k] = NoOrder
  /\ last' = last + 1 /\ placed' = [placed EXCEPT ![k] = last + 1]
  /\ UNCHANGED <<keyOf, told>>

Tell(c) ==
  /\ placed[keyOf[c]] # NoOrder
  /\ told' = [told EXCEPT ![c] = placed[keyOf[c]]]
  /\ UNCHANGED <<keyOf, last, placed>>

\* The caller asks again: what it was told before no longer counts.
Ask(c) ==
  /\ told' = [told EXCEPT ![c] = NoOrder]
  /\ UNCHANGED <<keyOf, last, placed>>

Next == (\E k \in Keys : Place(k)) \/ (\E c \in Callers : Tell(c) \/ Ask(c))

Spec == Init /\ [][Next]_<<keyOf, last, placed, told>>
=============================================================================
