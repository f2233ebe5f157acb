---------------------------- MODULE WaitingLine ----------------------------
(***************************************************************************)
(* What the waiting room promises to the people standing in it: a token    *)
(* joins the line once, and it is called once, never before a token with   *)
(* an earlier arrival stamp that is standing in the line at that moment.   *)
(* How admission is split over Redis commands, who polls, and how long a   *)
(* grant lasts is invisible here.                                          *)
(***************************************************************************)
EXTENDS Naturals

CONSTANT Tokens

VARIABLES arrived,   \* arrival stamp of each token, set before it joins
          waiting,   \* tokens standing in the line
          called     \* tokens that were called out of it

Init ==
  /\ arrived \in [Tokens -> Nat]
  /\ waiting = {} /\ called = {}

\* A token takes its stamp from the clock of whoever hands it out.
Stamp(t) ==
  /\ t \notin waiting \cup called
  /\ arrived' \in [Tokens -> Nat]
  /\ \A u \in Tokens \ {t} : arrived'[u] = arrived[u]
  /\ UNCHANGED <<waiting, called>>

Join(t) ==
  /\ t \notin waiting \cup called
  /\ waiting' = waiting \cup {t}
  /\ UNCHANGED <<arrived, called>>

CallOut(group) ==
  /\ \A t \in group, u \in waiting \ group : arrived[t] <= arrived[u]
  /\ waiting' = waiting \ group
  /\ called' = called \cup group
  /\ UNCHANGED arrived

Next ==
  \/ \E t \in Tokens : Stamp(t) \/ Join(t)
  \/ \E group \in SUBSET waiting : CallOut(group)

Spec == Init /\ [][Next]_<<arrived, waiting, called>>
=============================================================================
