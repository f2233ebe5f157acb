-------------------------- MODULE WaitingRoomProofs --------------------------
(***************************************************************************)
(* Theorems about WaitingRoom, for every finite set of tokens, every number *)
(* of admits, every TTL and any bounds on the clock and on the faults.     *)
(***************************************************************************)
EXTENDS WaitingRoom, FiniteSetTheorems, TLAPS

USE WaitingRoomAssumption DEF WaitingRoomAssumption

-----------------------------------------------------------------------------
(* Types, and the order of the line.                                       *)

PCs == {"new", "add", "rank", "holding", "polling", "refused"}

LEMMA LineIsFinite ==
  ASSUME queue \subseteq Tokens
  PROVE  /\ IsFiniteSet(queue)
         /\ \A t : /\ IsFiniteSet({u \in queue : Before(u, t)})
                   /\ Rank(t) \in Nat
<1>1. IsFiniteSet(queue)
  BY FS_Subset
<1>2. ASSUME NEW t
      PROVE  IsFiniteSet({u \in queue : Before(u, t)}) /\ Rank(t) \in Nat
  <2>1. {u \in queue : Before(u, t)} \subseteq queue
    OBVIOUS
  <2>2. IsFiniteSet({u \in queue : Before(u, t)})
    BY <1>1, <2>1, FS_Subset
  <2>3. QED  BY <2>2, FS_CardinalityType DEF Rank
<1>3. QED  BY <1>1, <1>2

LEMMA AnswerType ==
  ASSUME TypeOK, NEW t \in Tokens, NEW position \in Nat,
         NEW state \in {"none", "ticket", "waiting", "admitted", "unknown"},
         Answer(t, state, position)
  PROVE  pc' \in [Tokens -> PCs] /\ seen' \in [Tokens -> AnswerSet]
<1>1. [state |-> state, position |-> position] \in AnswerSet
  BY DEF AnswerSet
<1>2. QED  BY <1>1 DEF TypeOK, Answer, Goto, PCs

LEMMA InitType == Init => TypeOK
<1>1. NoAnswer \in AnswerSet
  BY DEF NoAnswer, AnswerSet
<1>2. QED  BY <1>1 DEF Init, TypeOK, Persistent, Never

LEMMA FaultType ==
  ASSUME TypeOK, Fault
  PROVE  impl' \in Impls /\ clock' \in Nat /\ left' \subseteq Tokens /\ faults' \in 0 .. MaxFaults
  BY DEF TypeOK, Fault

LEMMA RequestType ==
  ASSUME TypeOK, NEW t \in Tokens, Request(t) \/ RequestBehind(t)
  PROVE  TypeOK'
<1> USE DEF Stamps
<1>1. CASE Request(t)
  BY <1>1 DEF TypeOK, Request, Goto, grantVars, admitVars
<1>2. CASE RequestBehind(t)
  <2>1. PICK time \in 0 .. clock - 1 : Stamps(t, time)
    BY <1>2 DEF RequestBehind
  <2>2. stamp' \in [Tokens -> Nat] /\ faults' \in 0 .. MaxFaults
    BY <1>2, <2>1 DEF RequestBehind, Fault, TypeOK
  <2>3. QED  BY <1>2, <2>1, <2>2 DEF TypeOK, RequestBehind, Fault, Goto, admitVars
<1>3. QED  BY <1>1, <1>2

LEMMA ZAddType ==
  ASSUME TypeOK, NEW t \in Tokens, ZAdd(t) \/ ZAddResent(t) \/ HolderFails(t)
  PROVE  TypeOK'
<1>1. CASE ZAdd(t)
  BY <1>1 DEF TypeOK, ZAdd, Joins, Goto, grantVars, admitVars
<1>2. CASE ZAddResent(t)
  BY <1>2 DEF TypeOK, ZAddResent, Fault, Joins, admitVars
<1>3. CASE HolderFails(t)
  <2>1. pc' \in [Tokens -> PCs]
    BY <1>3 DEF TypeOK, HolderFails, Goto, PCs
  <2>2. queue' \subseteq Tokens /\ joined' \subseteq Tokens
    BY <1>3 DEF TypeOK, HolderFails, Joins
  <2>3. Fault /\ UNCHANGED <<stamp, admitted, deadline, grantedAt, seen, ahead, late, readded, admitVars>>
    BY <1>3 DEF HolderFails
  <2>4. QED  BY <2>1, <2>2, <2>3, FaultType DEF TypeOK, PCs, admitVars
<1>4. QED  BY <1>1, <1>2, <1>3

LEMMA ReadType ==
  ASSUME TypeOK, NEW t \in Tokens, ZRank(t) \/ Poll(t) \/ PollRank(t)
  PROVE  TypeOK'
<1>1. Rank(t) + 1 \in Nat /\ 0 \in Nat /\ 1 \in Nat
  <2>1. Rank(t) \in Nat
    BY LineIsFinite DEF TypeOK
  <2>2. QED  BY <2>1
<1>2. pc' \in [Tokens -> PCs] /\ seen' \in [Tokens -> AnswerSet]
  <2>1. CASE \E state \in {"ticket", "waiting", "admitted", "unknown"}, position \in Nat :
               Answer(t, state, position)
    BY <2>1, AnswerType
  <2>2. CASE (Goto(t, "refused") \/ Goto(t, "polling")) /\ UNCHANGED seen
    BY <2>2 DEF TypeOK, Goto, PCs
  <2>3. QED
    BY <1>1, <2>1, <2>2 DEF ZRank, Poll, PollRank, RankMissing, RankMissingGo, NotInLine
<1>3. UNCHANGED <<impl, clock, lineVars, grantVars, ahead, late, readded, admitVars, faults>>
  BY DEF ZRank, Poll, PollRank
<1>4. QED  BY <1>2, <1>3 DEF TypeOK, PCs, lineVars, grantVars, admitVars

LEMMA RefreshType ==
  ASSUME TypeOK, Refresh
  PROVE  deadline' \in Nat
  BY DEF TypeOK, Refresh, DeadlineFromNow, Persistent

LEMMA AdmitType ==
  ASSUME TypeOK, NEW a \in Admitters, AdmitStep(a)
  PROVE  TypeOK'
<1>1. CASE Admit(a)
  <2>1. PICK count \in Counts :
          LET popped == Front(AdmitCount(count)) IN
          /\ queue' = queue \ popped
          /\ batch' = [batch EXCEPT ![a] = TokensOf(popped)]
          /\ apc' = [apc EXCEPT ![a] = IF popped = {} THEN "idle" ELSE "sadd"]
    BY <1>1 DEF Admit
  <2>2. Front(AdmitCount(count)) \subseteq Tokens
    BY DEF TypeOK, Front
  <2>3. QED  BY <1>1, <2>1, <2>2 DEF TypeOK, Admit, TokensOf, grantVars, holderVars
<1>2. CASE SAdd(a)
  BY <1>2 DEF TypeOK, SAdd, lineVars, holderVars
<1>3. CASE Expire(a)
  BY <1>3, RefreshType DEF TypeOK, Expire, AdmitEnds, lineVars, holderVars
<1>4. CASE AdmitFails(a)
  <2>1. admitted' \subseteq Tokens /\ deadline' \in Nat
    BY <1>4, RefreshType DEF TypeOK, AdmitFails
  <2>2. apc' \in [Admitters -> {"idle", "sadd", "expire"}] /\ batch' \in [Admitters -> SUBSET Tokens]
    BY <1>4 DEF TypeOK, AdmitFails, AdmitEnds
  <2>3. Fault /\ UNCHANGED <<lineVars, grantedAt, holderVars, readmitted>>
    BY <1>4 DEF AdmitFails
  <2>4. QED  BY <2>1, <2>2, <2>3, FaultType DEF TypeOK, lineVars, holderVars
<1>5. CASE AdmitResent(a)
  <2>1. admitted' \subseteq Tokens /\ readmitted' \subseteq Tokens /\ deadline' \in Nat
    BY <1>5, RefreshType DEF TypeOK, AdmitResent
  <2>2. Fault /\ UNCHANGED <<lineVars, grantedAt, holderVars, apc, batch>>
    BY <1>5 DEF AdmitResent
  <2>3. QED  BY <2>1, <2>2, FaultType DEF TypeOK, lineVars, holderVars
<1>6. CASE PopFails(a)
  <2>1. queue' \subseteq Tokens
    BY <1>6 DEF TypeOK, PopFails
  <2>2. Fault /\ UNCHANGED <<stamp, joined, admitted, deadline, grantedAt, holderVars, admitVars>>
    BY <1>6 DEF PopFails
  <2>3. QED  BY <2>1, <2>2, FaultType DEF TypeOK, holderVars, admitVars
<1>7. QED  BY <1>1, <1>2, <1>3, <1>4, <1>5, <1>6 DEF AdmitStep

LEMMA EnvironmentType ==
  ASSUME TypeOK, Tick \/ Crash \/ RedisLoss \/ UNCHANGED vars
  PROVE  TypeOK'
<1>1. CASE Tick
  <2>1. clock' \in Nat /\ admitted' \subseteq Tokens /\ left' \subseteq Tokens /\ deadline' \in Nat
    <3>1. clock' \in Nat
      BY <1>1 DEF TypeOK, Tick
    <3>2. CASE deadline = clock + 1
      <4>1. admitted' = {} /\ deadline' = 0 /\ left' = left \cup admitted
        BY <1>1, <3>2 DEF Tick, Persistent
      <4>2. QED  BY <3>1, <4>1 DEF TypeOK
    <3>3. CASE deadline # clock + 1
      BY <1>1, <3>1, <3>3 DEF TypeOK, Tick
    <3>4. QED  BY <3>2, <3>3
  <2>2. UNCHANGED <<impl, lineVars, grantedAt, holderVars, admitVars, faults>>
    BY <1>1 DEF Tick
  <2>3. QED  BY <2>1, <2>2 DEF TypeOK, lineVars, holderVars, admitVars
<1>2. CASE Crash
  BY <1>2 DEF TypeOK, Crash, Fault, lineVars
<1>3. CASE RedisLoss
  BY <1>3 DEF TypeOK, RedisLoss, Fault, Persistent, Never, holderVars, admitVars
<1>4. CASE UNCHANGED vars
  BY <1>4 DEF TypeOK, vars, lineVars, grantVars, holderVars, admitVars
<1>5. QED  BY <1>1, <1>2, <1>3, <1>4

LEMMA NextType == TypeOK /\ [Next]_vars => TypeOK'
<1> SUFFICES ASSUME TypeOK, [Next]_vars PROVE TypeOK'
  OBVIOUS
<1>1. ASSUME NEW t \in Tokens, HolderStep(t)
      PROVE  TypeOK'
  BY <1>1, RequestType, ZAddType, ReadType DEF HolderStep
<1>2. QED  BY <1>1, AdmitType, EnvironmentType DEF Next

\* Every variable keeps its type; in particular no position is negative.
THEOREM TypeCorrect == Spec => []TypeOK
  BY InitType, NextType, PTL DEF Spec

-----------------------------------------------------------------------------
(* Conservation of tokens.  Inductive together with: what stands anywhere  *)
(* has joined, and a holder whose ZADD is still to be sent has not.        *)

Places == queue \cup InHand \cup admitted \cup left

JoinedOnce ==
  /\ Places \subseteq joined
  /\ \A t \in Tokens : pc[t] = "new" \/ (pc[t] = "add" /\ t \notin readded) => t \notin joined

CInv == JoinedOnce /\ TokensConserved

LEMMA FaultCounts ==
  ASSUME TypeOK, Fault
  PROVE  faults' # 0 /\ UNCHANGED left
  BY DEF TypeOK, Fault

\* What the admits hold, in one piece and as seen from one of them.
LEMMA HandsStay ==
  ASSUME UNCHANGED <<apc, batch>>
  PROVE  InHand' = InHand /\ \A a \in Admitters : Pending(a)' = Pending(a)
  BY DEF InHand, Pending

Others(a) == UNION {Pending(b) : b \in Admitters \ {a}}

LEMMA OneHand ==
  ASSUME NEW a \in Admitters, TypeOK,
         \A b \in Admitters \ {a} : UNCHANGED <<apc[b], batch[b]>>
  PROVE  /\ InHand = Others(a) \cup Pending(a)
         /\ InHand' = Others(a) \cup Pending(a)'
         /\ \A b \in Admitters \ {a} : Pending(b)' = Pending(b) /\ Pending(b) \subseteq Others(a)
         /\ TokensConserved => (Others(a) \cap Pending(a)) \subseteq readded
<1>1. \A b \in Admitters \ {a} : Pending(b)' = Pending(b)
  BY DEF Pending
<1>2. InHand = Others(a) \cup Pending(a)
  BY DEF InHand, Others
<1>3. InHand' = Others(a) \cup Pending(a)'
  <2>1. \A t : t \in InHand' <=> \E b \in Admitters : t \in Pending(b)'
    BY DEF InHand
  <2>2. \A t : t \in Others(a) <=> \E b \in Admitters \ {a} : t \in Pending(b)
    BY DEF Others
  <2>3. \A t : t \in InHand' <=> t \in Others(a) \/ t \in Pending(a)'
    BY <1>1, <2>1, <2>2
  <2>4. QED  BY <2>3
<1>4. TokensConserved => (Others(a) \cap Pending(a)) \subseteq readded
  BY DEF TokensConserved, Others
<1>5. QED  BY <1>1, <1>2, <1>3, <1>4 DEF Others

\* A holder's step leaves everything in its place, or puts its own token in
\* the line.
LEMMA HolderPlaces ==
  ASSUME TypeOK, NEW t \in Tokens, HolderStep(t)
  PROVE  /\ UNCHANGED <<admitted, left, apc, batch, readmitted>>
         /\ faults' = 0 => faults = 0
         /\ \A u \in Tokens \ {t} : pc'[u] = pc[u]
         /\ \/ UNCHANGED <<queue, joined, readded>> /\ (pc[t] = "new" \/ pc'[t] \notin {"new", "add"})
            \/ /\ pc[t] = "add" /\ Joins(t)
               /\ \/ UNCHANGED readded /\ pc'[t] \notin {"new", "add"}
                  \/ readded' = readded \cup {t} /\ UNCHANGED pc
<1> USE DEF TypeOK, lineVars, grantVars, admitVars
<1>1. CASE Request(t)
  BY <1>1 DEF Request, Stamps, Goto
<1>2. CASE ZAdd(t)
  BY <1>2 DEF ZAdd, Goto
<1>3. CASE ZRank(t)
  BY <1>3 DEF ZRank, RankMissing, RankMissingGo, Answer, Goto
<1>4. CASE Poll(t) \/ PollRank(t)
  BY <1>4 DEF Poll, PollRank, NotInLine, Answer, Goto
<1>5. CASE RequestBehind(t)
  BY <1>5, FaultCounts DEF RequestBehind, Stamps, Goto
<1>6. CASE HolderFails(t)
  BY <1>6, FaultCounts DEF HolderFails, Goto
<1>7. CASE ZAddResent(t)
  BY <1>7, FaultCounts DEF ZAddResent
<1>8. QED  BY <1>1, <1>2, <1>3, <1>4, <1>5, <1>6, <1>7 DEF HolderStep

LEMMA HolderConserves ==
  ASSUME TypeOK, CInv, NEW t \in Tokens, HolderStep(t)
  PROVE  CInv'
<1>1. /\ UNCHANGED <<admitted, left, readmitted>>
      /\ faults' = 0 => faults = 0
      /\ InHand' = InHand /\ \A a \in Admitters : Pending(a)' = Pending(a)
  BY HolderPlaces, HandsStay
<1>2. CASE UNCHANGED <<queue, joined, readded>> /\ (pc[t] = "new" \/ pc'[t] \notin {"new", "add"})
  <2>1. Places' = Places
    BY <1>1, <1>2 DEF Places
  <2>2. JoinedOnce'
    BY <1>2, <2>1, HolderPlaces DEF CInv, JoinedOnce
  <2>3. TokensConserved'
    BY <1>1, <1>2 DEF CInv, TokensConserved
  <2>4. QED  BY <2>2, <2>3 DEF CInv
<1>3. CASE /\ pc[t] = "add" /\ Joins(t)
           /\ \/ UNCHANGED readded /\ pc'[t] \notin {"new", "add"}
              \/ readded' = readded \cup {t} /\ UNCHANGED pc
  <2>1. t \in readded \/ t \notin Places
    BY <1>3 DEF CInv, JoinedOnce
  <2>2. /\ queue' = queue \cup {t} /\ joined' = joined \cup {t}
        /\ readded \subseteq readded' /\ readded' \subseteq readded \cup {t}
    BY <1>3 DEF Joins
  <2>3. Places' = Places \cup {t}
    BY <1>1, <2>2 DEF Places
  <2>4. JoinedOnce'
    <3>1. pc'[t] # "new" /\ (pc'[t] = "add" => t \in readded')
      BY <1>3
    <3>2. QED  BY <2>2, <2>3, <3>1, HolderPlaces DEF CInv, JoinedOnce
  <2>5. TokensConserved'
    BY <1>1, <2>1, <2>2 DEF CInv, TokensConserved, Places
  <2>6. QED  BY <2>4, <2>5 DEF CInv
<1>4. QED  BY <1>2, <1>3, HolderPlaces

LEMMA AdmitConserves ==
  ASSUME TypeOK, CInv, NEW a \in Admitters, AdmitStep(a)
  PROVE  CInv'
<1>1. /\ UNCHANGED <<joined, left, holderVars>>
      /\ \A b \in Admitters \ {a} : UNCHANGED <<apc[b], batch[b]>>
  BY DEF AdmitStep, Admit, SAdd, Expire, AdmitFails, AdmitResent, PopFails, AdmitEnds, Fault,
     TypeOK, lineVars, grantVars, admitVars
<1>2. /\ InHand = Others(a) \cup Pending(a)
      /\ InHand' = Others(a) \cup Pending(a)'
      /\ \A b \in Admitters \ {a} : Pending(b)' = Pending(b) /\ Pending(b) \subseteq Others(a)
      /\ (Others(a) \cap Pending(a)) \subseteq readded
  BY <1>1, OneHand DEF CInv
<1>3. ASSUME Places' \subseteq Places, TokensConserved'
      PROVE  CInv'
  BY <1>1, <1>3 DEF CInv, JoinedOnce, holderVars
<1>4. CASE Admit(a)
  <2>1. PICK popped \in SUBSET queue :
          /\ queue' = queue \ popped
          /\ batch' = [batch EXCEPT ![a] = popped]
          /\ apc' = [apc EXCEPT ![a] = IF popped = {} THEN "idle" ELSE "sadd"]
    <3>1. PICK count \in Counts :
            LET popped == Front(AdmitCount(count)) IN
            /\ queue' = queue \ popped
            /\ batch' = [batch EXCEPT ![a] = TokensOf(popped)]
            /\ apc' = [apc EXCEPT ![a] = IF popped = {} THEN "idle" ELSE "sadd"]
      BY <1>4 DEF Admit
    <3>2. Front(AdmitCount(count)) \in SUBSET queue
      BY DEF Front
    <3>3. QED  BY <3>1, <3>2 DEF TokensOf
  <2>2. Pending(a) = {} /\ Pending(a)' = popped
    BY <1>4, <2>1 DEF TypeOK, Admit, Pending
  <2>3. UNCHANGED <<admitted, readded, readmitted, faults>>
    BY <1>4 DEF Admit, grantVars, holderVars
  <2>4. Places' = Places
    BY <1>1, <1>2, <2>1, <2>2, <2>3 DEF Places
  <2>5. TokensConserved'
    BY <1>1, <1>2, <2>1, <2>2, <2>3 DEF CInv, TokensConserved
  <2>6. QED  BY <1>3, <2>4, <2>5
<1>5. CASE SAdd(a)
  <2>1. Pending(a)' = {} /\ admitted' = admitted \cup Pending(a)
    BY <1>5 DEF TypeOK, SAdd, Pending
  <2>2. UNCHANGED <<queue, readded, readmitted, faults>>
    BY <1>5 DEF SAdd, lineVars, holderVars
  <2>3. Places' = Places
    BY <1>1, <1>2, <2>1, <2>2 DEF Places
  <2>4. TokensConserved'
    BY <1>1, <1>2, <2>1, <2>2 DEF CInv, TokensConserved
  <2>5. QED  BY <1>3, <2>3, <2>4
<1>6. CASE Expire(a)
  <2>1. Pending(a) = {} /\ Pending(a)' = {}
    BY <1>6 DEF TypeOK, Expire, AdmitEnds, Pending
  <2>2. UNCHANGED <<queue, admitted, readded, readmitted, faults>>
    BY <1>6 DEF Expire, lineVars, holderVars
  <2>3. Places' = Places
    BY <1>1, <1>2, <2>1, <2>2 DEF Places
  <2>4. TokensConserved'
    BY <1>1, <1>2, <2>1, <2>2 DEF CInv, TokensConserved
  <2>5. QED  BY <1>3, <2>3, <2>4
<1>7. CASE AdmitFails(a)
  <2>1. Pending(a)' = {} /\ admitted \subseteq admitted' /\ admitted' \subseteq admitted \cup Pending(a)
    BY <1>7 DEF TypeOK, AdmitFails, AdmitEnds, Pending
  <2>2. UNCHANGED <<queue, readded, readmitted>> /\ faults' # 0
    BY <1>7, FaultCounts DEF AdmitFails, lineVars, holderVars
  <2>3. Places' \subseteq Places
    BY <1>1, <1>2, <2>1, <2>2 DEF Places
  <2>4. TokensConserved'
    BY <1>1, <1>2, <2>1, <2>2 DEF CInv, TokensConserved
  <2>5. QED  BY <1>3, <2>3, <2>4
<1>8. CASE AdmitResent(a)
  <2>1. /\ Pending(a)' = Pending(a)
        /\ \/ admitted' = admitted \cup Pending(a) /\ readmitted' = readmitted \cup Pending(a)
           \/ UNCHANGED <<admitted, readmitted>>
    BY <1>8 DEF TypeOK, AdmitResent, Pending
  <2>2. UNCHANGED <<queue, readded>> /\ faults' # 0
    BY <1>8, FaultCounts DEF AdmitResent, lineVars, holderVars
  <2>3. Places' \subseteq Places
    BY <1>1, <1>2, <2>1, <2>2 DEF Places
  <2>4. TokensConserved'
    BY <1>1, <1>2, <2>1, <2>2 DEF CInv, TokensConserved
  <2>5. QED  BY <1>3, <2>3, <2>4
<1>9. CASE PopFails(a)
  <2>1. Pending(a)' = Pending(a) /\ queue' \subseteq queue
    BY <1>9 DEF PopFails, admitVars, Pending
  <2>2. UNCHANGED <<admitted, readded, readmitted>> /\ faults' # 0
    BY <1>9, FaultCounts DEF PopFails, holderVars, admitVars
  <2>3. Places' \subseteq Places
    BY <1>1, <1>2, <2>1, <2>2 DEF Places
  <2>4. TokensConserved'
    BY <1>1, <1>2, <2>1, <2>2 DEF CInv, TokensConserved
  <2>5. QED  BY <1>3, <2>3, <2>4
<1>10. QED  BY <1>4, <1>5, <1>6, <1>7, <1>8, <1>9 DEF AdmitStep

LEMMA EnvironmentConserves ==
  ASSUME TypeOK, CInv, Tick \/ Crash \/ RedisLoss \/ UNCHANGED vars
  PROVE  CInv'
<1>1. UNCHANGED <<joined, readded, readmitted>>
  BY DEF Tick, Crash, RedisLoss, vars, lineVars, holderVars, admitVars
<1>2. \A t \in Tokens : pc'[t] = pc[t] \/ pc'[t] \notin {"new", "add"}
  BY DEF TypeOK, Tick, Crash, RedisLoss, vars, holderVars
<1>3. ASSUME Places' \subseteq Places, TokensConserved'
      PROVE  CInv'
  BY <1>1, <1>2, <1>3 DEF CInv, JoinedOnce
<1>4. CASE Tick
  <2>1. InHand' = InHand /\ \A a \in Admitters : Pending(a)' = Pending(a)
    BY <1>4, HandsStay DEF Tick, admitVars
  <2>2. /\ UNCHANGED <<queue, faults>>
        /\ \/ UNCHANGED <<admitted, left>>
           \/ admitted' = {} /\ left' = left \cup admitted
    BY <1>4 DEF Tick, lineVars
  <2>3. Places' = Places
    BY <2>1, <2>2 DEF Places
  <2>4. TokensConserved'
    BY <1>1, <2>1, <2>2 DEF CInv, TokensConserved
  <2>5. QED  BY <1>3, <2>3, <2>4
<1>5. CASE Crash
  <2>1. InHand' = {} /\ \A a \in Admitters : Pending(a)' = {}
    BY <1>5 DEF Crash, InHand, Pending
  <2>2. UNCHANGED <<queue, admitted, left>> /\ faults' # 0
    BY <1>5, FaultCounts DEF Crash, lineVars
  <2>3. Places' \subseteq Places
    BY <2>1, <2>2 DEF Places
  <2>4. TokensConserved'
    BY <1>1, <2>1, <2>2 DEF CInv, TokensConserved
  <2>5. QED  BY <1>3, <2>3, <2>4
<1>6. CASE RedisLoss
  <2>1. InHand' = InHand /\ \A a \in Admitters : Pending(a)' = Pending(a)
    BY <1>6, HandsStay DEF RedisLoss, admitVars
  <2>2. queue' = {} /\ admitted' = {} /\ UNCHANGED left /\ faults' # 0
    BY <1>6, FaultCounts DEF RedisLoss
  <2>3. Places' \subseteq Places
    BY <2>1, <2>2 DEF Places
  <2>4. TokensConserved'
    BY <1>1, <2>1, <2>2 DEF CInv, TokensConserved
  <2>5. QED  BY <1>3, <2>3, <2>4
<1>7. CASE UNCHANGED vars
  <2>1. InHand' = InHand /\ \A a \in Admitters : Pending(a)' = Pending(a)
    BY <1>7, HandsStay DEF vars, admitVars
  <2>2. UNCHANGED <<queue, admitted, left, faults>>
    BY <1>7 DEF vars, lineVars, grantVars
  <2>3. QED  BY <1>1, <1>3, <2>1, <2>2 DEF CInv, TokensConserved, Places
<1>8. QED  BY <1>4, <1>5, <1>6, <1>7

LEMMA InitCInv == Init => CInv
<1> SUFFICES ASSUME Init PROVE CInv
  OBVIOUS
<1>1. InHand = {} /\ \A a \in Admitters : Pending(a) = {}
  BY DEF Init, InHand, Pending
<1>2. QED  BY <1>1 DEF Init, CInv, JoinedOnce, Places, TokensConserved

LEMMA NextCInv == TypeOK /\ CInv /\ [Next]_vars => CInv'
<1> SUFFICES ASSUME TypeOK, CInv, [Next]_vars PROVE CInv'
  OBVIOUS
<1>1. QED  BY HolderConserves, AdmitConserves, EnvironmentConserves DEF Next

LEMMA AlwaysCInv == Spec => [](TypeOK /\ CInv)
  BY InitType, NextType, InitCInv, NextCInv, PTL DEF Spec

\* Tokens are conserved, however admits race: none is lost without a fault,
\* and none is in two places unless a command was sent twice.
THEOREM Conservation == Spec => []TokensConserved
<1>1. CInv => TokensConserved  BY DEF CInv
<1>2. QED  BY <1>1, AlwaysCInv, PTL

-----------------------------------------------------------------------------
(* The TTL of the admitted set and the grants in it.                       *)

LEMMA HolderGrants ==
  ASSUME TypeOK, NEW t \in Tokens, HolderStep(t)
  PROVE  UNCHANGED <<clock, admitted, deadline, grantedAt, apc>> /\ (faults' = 0 => faults = 0)
<1>1. UNCHANGED <<clock, admitted, deadline, grantedAt, apc>>
  BY DEF HolderStep, Request, ZAdd, ZRank, Poll, PollRank, RequestBehind, HolderFails,
     ZAddResent, Fault, grantVars, admitVars
<1>2. QED  BY <1>1, HolderPlaces

\* Only an EXPIRE changes the deadline, and only Expire the grants.
AdmitRefreshes(a) ==
  /\ apc[a] = "expire" /\ UNCHANGED admitted /\ Refresh
  /\ \/ UNCHANGED grantedAt
     \/ grantedAt' = [t \in Tokens |-> IF t \in batch[a] \cap admitted THEN clock ELSE grantedAt[t]]

LEMMA AdmitGrants ==
  ASSUME TypeOK, NEW a \in Admitters, AdmitStep(a)
  PROVE  /\ UNCHANGED clock
         /\ \/ AdmitRefreshes(a)
            \/ /\ UNCHANGED <<deadline, grantedAt>> /\ admitted \subseteq admitted'
               /\ \/ faults' # 0
                  \/ /\ \A b \in Admitters : apc[b] = "expire" => apc'[b] = "expire"
                     /\ UNCHANGED <<admitted, faults>> \/ (apc'[a] = "expire" /\ UNCHANGED faults)
<1>1. CASE Admit(a) \/ SAdd(a)
  BY <1>1 DEF TypeOK, Admit, SAdd, grantVars
<1>2. CASE Expire(a)
  BY <1>2 DEF Expire, AdmitRefreshes
<1>3. CASE AdmitFails(a)
  BY <1>3, FaultCounts DEF AdmitFails, AdmitRefreshes, Fault
<1>4. CASE AdmitResent(a)
  BY <1>4, FaultCounts DEF AdmitResent, AdmitRefreshes, Fault
<1>5. CASE PopFails(a)
  BY <1>5, FaultCounts DEF PopFails, Fault
<1>6. QED  BY <1>1, <1>2, <1>3, <1>4, <1>5 DEF AdmitStep

LEMMA RefreshSets ==
  ASSUME TypeOK, Refresh
  PROVE  /\ admitted # {} => deadline' = clock + TTL /\ deadline' # Persistent
         /\ admitted = {} => deadline' = Persistent
<1>1. clock \in Nat
  BY DEF TypeOK
<1>2. clock + TTL # 0
  BY <1>1
<1>3. QED  BY <1>2 DEF Refresh, DeadlineFromNow, Persistent

\* What takes the backing away: a fault that meets an admit under way.
BackingLost == faults' > faults /\ \E a \in Admitters : apc[a] # "idle"

LEMMA BackingEnds ==
  ASSUME TypeOK, [Next]_vars, Backed, ~Backed'
  PROVE  BackingLost
<1>1. admitted' # {} /\ deadline' = Persistent /\ \A a \in Admitters : apc'[a] # "expire"
  BY DEF Backed
<1>2. ~ UNCHANGED <<admitted, deadline, apc>>
  BY DEF Backed
<1>3. ASSUME NEW t \in Tokens, HolderStep(t)
      PROVE  FALSE
  BY <1>2, <1>3, HolderGrants
<1>4. ASSUME NEW a \in Admitters, AdmitStep(a)
      PROVE  BackingLost
  <2>1. CASE AdmitRefreshes(a)
    <3>1. admitted # {}
      BY <1>1, <2>1 DEF AdmitRefreshes
    <3>2. QED  BY <1>1, <2>1, <3>1, RefreshSets DEF AdmitRefreshes
  <2>2. CASE Admit(a) \/ PopFails(a)
    <3>1. UNCHANGED <<admitted, deadline>> /\ apc[a] = "idle"
      BY <2>2 DEF Admit, PopFails, grantVars
    <3>2. \A b \in Admitters : apc[b] = "expire" => apc'[b] = "expire"
      BY <2>2, <3>1 DEF Admit, PopFails, admitVars, TypeOK
    <3>3. QED  BY <1>1, <3>1, <3>2 DEF Backed
  <2>3. CASE SAdd(a)
    BY <1>1, <2>3 DEF SAdd, TypeOK
  <2>4. CASE Fault /\ apc[a] \in {"sadd", "expire"}
    BY <2>4 DEF BackingLost, Fault, TypeOK
  <2>5. CASE Expire(a)
    BY <2>1, <2>5 DEF Expire, AdmitRefreshes
  <2>6. QED
    BY <1>4, <2>2, <2>3, <2>4, <2>5 DEF AdmitStep, AdmitFails, AdmitResent
<1>5. CASE Crash
  <2>1. UNCHANGED <<admitted, deadline>> /\ faults' > faults
    BY <1>5 DEF Crash, Fault, TypeOK
  <2>2. \E a \in Admitters : apc[a] = "expire"
    BY <1>1, <2>1 DEF Backed
  <2>3. QED  BY <2>1, <2>2 DEF BackingLost
<1>6. CASE Tick
  BY <1>1, <1>2, <1>6 DEF Tick, admitVars
<1>7. ~RedisLoss /\ ~ UNCHANGED vars
  BY <1>1, <1>2 DEF RedisLoss, vars, grantVars, admitVars
<1>8. QED  BY <1>3, <1>4, <1>5, <1>6, <1>7 DEF Next

\* The admitted set keeps its TTL, or an admit about to set it, through every
\* step but a fault that meets an admit under way.
THEOREM TtlSound == Spec => TtlBacked
<1>1. TypeOK /\ [Next]_vars => (Backed /\ ~Backed' => BackingLost)
  BY BackingEnds
<1>2. QED  BY <1>1, TypeCorrect, PTL DEF Spec, TtlBacked, BackingLost

\* A grant in its term is in a set that lives at least as long.
GInv ==
  /\ deadline = Persistent \/ deadline > clock
  /\ \A t \in Tokens : grantedAt[t] <= clock
  /\ \A t \in Tokens : InTerm(t) =>
       t \in admitted /\ deadline # Persistent /\ deadline >= grantedAt[t] + TTL

\* Time stands still and the deadline stays; grants may only be added.
LEMMA GrantsStay ==
  ASSUME TypeOK, GInv, UNCHANGED <<clock, deadline, grantedAt>>, admitted \subseteq admitted'
  PROVE  GInv'
  BY DEF GInv, InTerm

LEMMA RefreshKeeps ==
  ASSUME TypeOK, GInv, NEW a \in Admitters, AdmitRefreshes(a), UNCHANGED clock
  PROVE  GInv'
<1>1. clock \in Nat /\ TTL \in Nat /\ TTL > 0 /\ \A t \in Tokens : grantedAt[t] \in Int
  BY DEF TypeOK, Never
<1>2. UNCHANGED <<admitted, clock>>
  BY DEF AdmitRefreshes
<1>3. \A t \in Tokens : grantedAt'[t] = grantedAt[t] \/ (grantedAt'[t] = clock /\ t \in admitted)
  BY DEF AdmitRefreshes
<1>4. \A t \in Tokens : grantedAt'[t] <= clock /\ grantedAt'[t] \in Int
  BY <1>1, <1>3 DEF GInv
<1>5. CASE admitted = {}
  <2>1. deadline' = Persistent /\ \A t \in Tokens : grantedAt'[t] = grantedAt[t]
    BY <1>3, <1>5, RefreshSets DEF AdmitRefreshes
  <2>2. \A t \in Tokens : ~InTerm(t)
    BY <1>5 DEF GInv
  <2>3. \A t \in Tokens : ~InTerm(t)'
    BY <1>2, <2>1, <2>2 DEF InTerm
  <2>4. QED  BY <1>2, <1>4, <2>1, <2>3 DEF GInv
<1>6. CASE admitted # {}
  <2>1. deadline' = clock + TTL /\ deadline' # Persistent
    BY <1>6, RefreshSets DEF AdmitRefreshes
  <2>2. ASSUME NEW t \in Tokens, InTerm(t)'
        PROVE  t \in admitted' /\ deadline' # Persistent /\ deadline' >= grantedAt'[t] + TTL
    <3>1. t \in admitted
      BY <1>2, <1>3, <2>2 DEF GInv, InTerm
    <3>2. clock + TTL >= grantedAt'[t] + TTL
      BY <1>1, <1>4
    <3>3. QED  BY <1>2, <2>1, <3>1, <3>2
  <2>3. deadline' > clock'
    BY <1>1, <1>2, <2>1
  <2>4. QED  BY <1>2, <1>4, <2>2, <2>3 DEF GInv
<1>7. QED  BY <1>5, <1>6

LEMMA TickKeeps ==
  ASSUME TypeOK, GInv, Tick
  PROVE  GInv'
<1>1. /\ clock \in Nat /\ deadline \in Nat /\ TTL \in Nat
      /\ \A t \in Tokens : grantedAt[t] \in Int
  BY DEF TypeOK, Never
<1>2. clock' = clock + 1 /\ UNCHANGED grantedAt
  BY DEF Tick
<1>3. \A t \in Tokens : grantedAt'[t] <= clock'
  BY <1>1, <1>2 DEF GInv
<1>4. \A t \in Tokens : InTerm(t)' => InTerm(t) /\ clock + 1 < grantedAt[t] + TTL
  BY <1>1, <1>2 DEF InTerm
<1>5. CASE deadline = clock + 1
  <2>1. deadline' = Persistent
    BY <1>5 DEF Tick
  <2>2. \A t \in Tokens : ~InTerm(t)'
    BY <1>1, <1>4, <1>5 DEF GInv
  <2>3. QED  BY <1>3, <2>1, <2>2 DEF GInv
<1>6. CASE deadline # clock + 1
  <2>1. UNCHANGED <<admitted, deadline>>
    BY <1>6 DEF Tick
  <2>2. deadline' = Persistent \/ deadline' > clock'
    BY <1>1, <1>2, <1>6, <2>1 DEF GInv
  <2>3. QED  BY <1>2, <1>3, <1>4, <2>1, <2>2 DEF GInv
<1>7. QED  BY <1>5, <1>6

LEMMA NextGInv == TypeOK /\ GInv /\ [Next]_vars => GInv'
<1> SUFFICES ASSUME TypeOK, GInv, [Next]_vars PROVE GInv'
  OBVIOUS
<1>1. ASSUME NEW t \in Tokens, HolderStep(t)
      PROVE  GInv'
  BY <1>1, HolderGrants, GrantsStay
<1>2. ASSUME NEW a \in Admitters, AdmitStep(a)
      PROVE  GInv'
  BY <1>2, AdmitGrants, GrantsStay, RefreshKeeps
<1>3. CASE Crash \/ UNCHANGED vars
  <2>1. UNCHANGED <<clock, deadline, grantedAt, admitted>>
    BY <1>3 DEF Crash, Fault, vars, grantVars
  <2>2. QED  BY <2>1, GrantsStay
<1>4. CASE RedisLoss
  <2>1. /\ UNCHANGED clock /\ deadline' = Persistent
        /\ \A t \in Tokens : grantedAt'[t] = Never
    BY <1>4 DEF RedisLoss, Fault
  <2>2. QED  BY <2>1 DEF TypeOK, GInv, InTerm, Never
<1>5. QED  BY <1>1, <1>2, <1>3, <1>4, TickKeeps DEF Next

\* A grant lasts its full TTL, whatever other admits do.
THEOREM GrantsSound == Spec => []GrantsLast
<1>1. Init => GInv
  BY DEF Init, GInv, InTerm, Never
<1>2. GInv => GrantsLast
  BY DEF GInv, GrantsLast
<1>3. QED  BY <1>1, <1>2, InitType, NextType, NextGInv, PTL DEF Spec

-----------------------------------------------------------------------------
(* What pollers are told.                                                  *)

\* A holder told something polls, and no first ZADD of its token is to come.
\* One told "unknown" polls a token that is not in line; one told "admitted" polls
\* a token that is in line only when its ZADD was sent twice, and then it is
\* admitted too until its grant expires.
Told(t, state) == seen[t].state = state

PInv ==
  \A t \in Tokens :
    /\ Told(t, "unknown") => Holding(t) /\ t \notin queue
    /\ Told(t, "admitted") /\ t \in queue =>
         t \in readded /\ t \in admitted \cup left /\ (pc[t] = "polling" => t \in left)
    /\ Told(t, "admitted") => Holding(t)

PollEffect ==
  \A t \in Tokens : Told(t, "waiting")' =>
    /\ ~Told(t, "unknown")
    /\ Told(t, "admitted") => t \in readded \cap left

LEMMA AnswerSeen ==
  ASSUME TypeOK, NEW t \in Tokens, NEW state, NEW position, Answer(t, state, position)
  PROVE  /\ seen'[t].state = state /\ Holding(t)'
         /\ \A u \in Tokens \ {t} : UNCHANGED <<pc[u], seen[u]>>
  BY DEF TypeOK, Answer, Goto, Holding

\* A holder's step answers nothing and keeps a poller polling, or answers what
\* was read.
Finds(t, state) ==
  \/ state = "ticket" /\ pc[t] = "rank"
  \/ state = "admitted" /\ t \in admitted
  \/ state = "waiting" /\ t \in queue /\ pc[t] = "polling"
  \/ state = "unknown" /\ t \notin queue

TellsNothing(t) ==
  UNCHANGED seen /\ (Holding(t) => /\ Holding(t)' /\ UNCHANGED <<queue, readded>>
                                   /\ pc'[t] = "polling" => t \notin admitted)

LEMMA HolderTells ==
  ASSUME TypeOK, NEW t \in Tokens, HolderStep(t)
  PROVE  /\ UNCHANGED <<admitted, left>>
         /\ \/ TellsNothing(t)
            \/ /\ UNCHANGED <<queue, readded>> /\ pc'[t] = "holding"
               /\ \E state, position : Answer(t, state, position) /\ Finds(t, state)
<1> USE DEF Finds, lineVars, TellsNothing
<1>1. CASE Request(t) \/ RequestBehind(t) \/ ZAdd(t) \/ ZAddResent(t)
  BY <1>1, HolderPlaces DEF Request, RequestBehind, Stamps, ZAdd, ZAddResent, Holding
<1>2. CASE ZRank(t)
  BY <1>2, HolderPlaces DEF ZRank, RankMissing, RankMissingGo, Holding, Answer, Goto, TypeOK
<1>3. CASE Poll(t)
  <2>1. CASE t \in admitted /\ Answer(t, "admitted", 0)
    BY <1>3, <2>1, HolderPlaces DEF Poll, Answer, Goto, TypeOK
  <2>2. CASE t \notin admitted /\ Goto(t, "polling") /\ UNCHANGED seen
    BY <1>3, <2>2, HolderPlaces DEF Poll, Goto, Holding, TypeOK
  <2>3. QED  BY <1>3, <2>1, <2>2 DEF Poll
<1>4. CASE PollRank(t)
  BY <1>4, HolderPlaces DEF PollRank, NotInLine, Answer, Goto, TypeOK
<1>5. CASE HolderFails(t)
  BY <1>5, HolderPlaces DEF HolderFails, Goto, Holding, TypeOK
<1>6. QED  BY <1>1, <1>2, <1>3, <1>4, <1>5 DEF HolderStep

LEMMA HolderPolls ==
  ASSUME TypeOK, CInv, PInv, NEW t \in Tokens, HolderStep(t)
  PROVE  PInv' /\ PollEffect
<1>1. /\ UNCHANGED <<admitted, left>>
      /\ \A u \in Tokens \ {t} : (u \in queue' <=> u \in queue) /\ (u \in readded' <=> u \in readded)
  BY HolderPlaces DEF Joins
<1>2. \A u \in Tokens \ {t} : UNCHANGED <<pc[u], seen[u]>>
  <2>1. UNCHANGED seen \/ \E state, position : Answer(t, state, position)
    BY HolderTells DEF TellsNothing
  <2>2. QED  BY <2>1, AnswerSeen, HolderPlaces
<1>3. ASSUME /\ Told(t, "unknown")' => Holding(t)' /\ t \notin queue'
             /\ Told(t, "admitted")' /\ t \in queue' =>
                  t \in readded' /\ t \in admitted' \cup left' /\ (pc'[t] = "polling" => t \in left')
             /\ Told(t, "admitted")' => Holding(t)',
             Told(t, "waiting")' => ~Told(t, "unknown") /\ (Told(t, "admitted") => t \in readded \cap left)
      PROVE  PInv' /\ PollEffect
  <2>1. \A u \in Tokens \ {t} :
          /\ Told(u, "unknown")' => Holding(u)' /\ u \notin queue'
          /\ Told(u, "admitted")' /\ u \in queue' =>
               u \in readded' /\ u \in admitted' \cup left' /\ (pc'[u] = "polling" => u \in left')
          /\ Told(u, "admitted")' => Holding(u)'
    BY <1>1, <1>2 DEF PInv, Told, Holding
  <2>2. \A u \in Tokens \ {t} : Told(u, "waiting")' => Told(u, "waiting")
    BY <1>2 DEF Told
  <2>3. QED  BY <1>3, <2>1, <2>2 DEF PInv, PollEffect, Told
<1>4. CASE TellsNothing(t)
  <2>1. \A state : Told(t, state)' <=> Told(t, state)
    BY <1>4 DEF TellsNothing, Told
  <2>2. Told(t, "waiting") => ~Told(t, "unknown") /\ ~Told(t, "admitted")
    BY DEF Told
  <2>3. QED  BY <1>1, <1>3, <1>4, <2>1, <2>2 DEF PInv, TellsNothing
<1>5. ASSUME NEW state, NEW position, Answer(t, state, position), Finds(t, state),
             UNCHANGED <<queue, readded>>, pc'[t] = "holding"
      PROVE  PInv' /\ PollEffect
  <2>1. Holding(t)' /\ \A other : Told(t, other)' <=> state = other
    BY <1>5, AnswerSeen DEF Told
  <2>2. t \in admitted /\ t \in queue => t \in readded
    BY DEF CInv, TokensConserved
  <2>3. CASE state \in {"ticket", "unknown"}
    BY <1>3, <1>5, <2>1, <2>3 DEF Finds
  <2>4. CASE state = "admitted"
    BY <1>1, <1>3, <1>5, <2>1, <2>2, <2>4 DEF Finds
  <2>5. CASE state = "waiting"
    <3>1. t \in queue /\ pc[t] = "polling"
      BY <1>5, <2>5 DEF Finds
    <3>2. ~Told(t, "unknown") /\ (Told(t, "admitted") => t \in readded \cap left)
      BY <3>1 DEF PInv
    <3>3. QED  BY <1>3, <2>1, <2>5, <3>2
  <2>6. QED  BY <1>5, <2>3, <2>4, <2>5 DEF Finds
<1>6. QED  BY <1>4, <1>5, HolderTells

\* No other step tells anybody anything: tokens only leave the line, and leave
\* the admitted set for the expired ones or with the line.
LEMMA NextPolls ==
  ASSUME TypeOK, CInv, PInv, [Next]_vars
  PROVE  PInv' /\ PollEffect
<1>1. ASSUME UNCHANGED <<seen, readded>>, queue' \subseteq queue, left \subseteq left',
             queue' = {} \/ admitted \cup left \subseteq admitted' \cup left',
             \A t \in Tokens : pc'[t] = pc[t] \/ (pc'[t] # "polling" /\ (Holding(t) => Holding(t)'))
      PROVE  PInv' /\ PollEffect
  <2>1. PollEffect
    BY <1>1 DEF PollEffect, Told
  <2>2. PInv'
    BY <1>1 DEF PInv, Told, Holding
  <2>3. QED  BY <2>1, <2>2
<1>2. ASSUME NEW a \in Admitters, AdmitStep(a)
      PROVE  PInv' /\ PollEffect
  <2>1. UNCHANGED <<seen, readded, pc, left>> /\ queue' \subseteq queue /\ admitted \subseteq admitted'
    BY <1>2 DEF AdmitStep, Admit, SAdd, Expire, AdmitFails, AdmitResent, PopFails, Fault, lineVars,
       grantVars, holderVars
  <2>2. QED  BY <1>1, <2>1
<1>3. CASE Tick \/ RedisLoss \/ UNCHANGED vars
  <2>1. UNCHANGED <<seen, readded, pc>> /\ queue' \subseteq queue /\ left \subseteq left'
    BY <1>3 DEF Tick, RedisLoss, Fault, vars, lineVars, grantVars, holderVars
  <2>2. queue' = {} \/ admitted \cup left \subseteq admitted' \cup left'
    BY <1>3 DEF Tick, RedisLoss, vars, grantVars
  <2>3. QED  BY <1>1, <2>1, <2>2
<1>4. CASE Crash
  <2>1. UNCHANGED <<seen, readded, queue, admitted, left>>
    BY <1>4 DEF Crash, Fault, lineVars
  <2>2. \A t \in Tokens : pc'[t] = pc[t] \/ (pc'[t] # "polling" /\ (Holding(t) => Holding(t)'))
    BY <1>4 DEF Crash, Holding
  <2>3. QED  BY <1>1, <2>1, <2>2
<1>5. QED  BY <1>2, <1>3, <1>4, HolderPolls DEF Next

\* A holder told "unknown" is not told later that it waits, and one told
\* "admitted" only when its ZADD was sent twice and its grant has expired.
THEOREM PollsSound == Spec => PollsNeverGoBack
<1>1. Init => PInv
  BY DEF Init, PInv, Told, NoAnswer
<1>2. TypeOK /\ CInv /\ PInv /\ [Next]_vars => PInv'
  BY NextPolls
<1>3. TypeOK /\ CInv /\ PInv /\ [Next]_vars =>
        \A t \in Tokens : seen'[t].state = "waiting" =>
          /\ seen[t].state # "unknown"
          /\ seen[t].state = "admitted" => t \in readded \cap left
  BY NextPolls DEF PollEffect, Told
<1>4. QED  BY <1>1, <1>2, <1>3, AlwaysCInv, PTL DEF Spec, PollsNeverGoBack

-----------------------------------------------------------------------------
(* Who holds the tokens.                                                   *)

HolderPC(t) == pc[t] \in {"rank", "holding", "polling"}

LEMMA NextHolders == TypeOK /\ EveryTokenHasAHolder /\ [Next]_vars => EveryTokenHasAHolder'
<1> SUFFICES ASSUME TypeOK, EveryTokenHasAHolder, [Next]_vars, faults' = 0, impl' # "go",
                    NEW t \in joined'
             PROVE  HolderPC(t)'
  BY DEF EveryTokenHasAHolder, HolderPC, Holding
<1>1. ~Fault
  BY FaultCounts
<1>2. ASSUME faults = 0, impl # "go", t \in joined
      PROVE  HolderPC(t)
  BY <1>2 DEF EveryTokenHasAHolder, HolderPC, Holding
<1>3. ASSUME UNCHANGED <<impl, faults, pc, joined>>
      PROVE  HolderPC(t)'
  BY <1>2, <1>3 DEF HolderPC
<1>4. ASSUME NEW u \in Tokens, HolderStep(u)
      PROVE  HolderPC(t)'
  <2>1. UNCHANGED <<impl, faults>> /\ t \in Tokens
    BY <1>1, <1>4 DEF HolderStep, Request, ZAdd, ZRank, Poll, PollRank, RequestBehind, HolderFails,
       ZAddResent, TypeOK, Joins, lineVars
  <2>2. CASE t # u
    <3>1. pc'[t] = pc[t]
      BY <1>4, <2>1, <2>2, HolderPlaces
    <3>2. joined' \subseteq joined \cup {u}
      BY <1>4, HolderPlaces DEF Joins
    <3>3. t \in joined
      BY <2>2, <3>2
    <3>4. QED  BY <1>2, <2>1, <3>1, <3>3 DEF HolderPC
  <2>3. CASE t = u
    <3>1. CASE ZAdd(t)
      BY <2>1, <3>1 DEF ZAdd, Goto, TypeOK, HolderPC
    <3>2. CASE ZRank(t)
      BY <2>1, <3>2 DEF ZRank, RankMissing, RankMissingGo, Answer, Goto, TypeOK, HolderPC
    <3>3. CASE Poll(t) \/ PollRank(t)
      BY <2>1, <3>3 DEF Poll, PollRank, NotInLine, Answer, Goto, TypeOK, HolderPC
    <3>4. CASE Request(t)
      <4>1. t \in joined /\ pc[t] = "new"
        BY <3>4 DEF Request, Stamps
      <4>2. QED  BY <1>2, <2>1, <4>1 DEF HolderPC
    <3>5. QED
      BY <1>1, <1>4, <2>3, <3>1, <3>2, <3>3, <3>4 DEF HolderStep, RequestBehind, HolderFails, ZAddResent
  <2>4. QED  BY <2>2, <2>3
<1>5. ASSUME NEW a \in Admitters, AdmitStep(a)
      PROVE  UNCHANGED <<impl, faults, pc, joined>>
  BY <1>1, <1>5 DEF AdmitStep, Admit, SAdd, Expire, AdmitFails, AdmitResent, PopFails, lineVars,
     holderVars
<1>6. CASE Tick \/ UNCHANGED vars
  BY <1>3, <1>6 DEF Tick, vars, lineVars, holderVars
<1>7. QED  BY <1>1, <1>3, <1>4, <1>5, <1>6 DEF Next, Crash, RedisLoss

\* While nothing fails no token of the line is without a holder who was told of
\* it or is about to be, for every number of tokens and admits.
THEOREM HoldersKnown == Spec => []EveryTokenHasAHolder
<1>1. Init => EveryTokenHasAHolder
  BY DEF Init, EveryTokenHasAHolder
<1>2. QED  BY <1>1, InitType, NextType, NextHolders, PTL DEF Spec

-----------------------------------------------------------------------------
(* The order of the line.                                                  *)

LEMMA FrontFirst ==
  ASSUME TypeOK, NEW n \in Int, NEW u \in Front(n), NEW t \in queue \ Front(n)
  PROVE  stamp[u] <= stamp[t]
<1>1. /\ u \in queue /\ Rank(u) < n /\ ~(Rank(t) < n)
      /\ Rank(u) \in Nat /\ Rank(t) \in Nat
  BY LineIsFinite DEF TypeOK, Front
<1>2. \A v \in queue : stamp[v] \in Nat
  BY DEF TypeOK
<1>3. SUFFICES ASSUME stamp[t] < stamp[u] PROVE FALSE
  BY <1>1, <1>2
<1>4. {v \in queue : Before(v, t)} \subseteq {v \in queue : Before(v, u)}
  BY <1>1, <1>2, <1>3 DEF Before
<1>5. Cardinality({v \in queue : Before(v, t)}) <= Cardinality({v \in queue : Before(v, u)})
  BY <1>4, LineIsFinite, FS_Subset DEF TypeOK
<1>6. QED  BY <1>1, <1>5 DEF Rank

\* The order of the line is strict and total, so its ranks are the numbers
\* below its length, each taken once.
LEMMA BeforeOrders ==
  ASSUME TypeOK, NEW t \in queue, NEW u \in queue
  PROVE  /\ ~Before(t, t)
         /\ t # u => Before(t, u) \/ Before(u, t)
         /\ \A v \in queue : Before(v, t) /\ Before(t, u) => Before(v, u)
<1>1. \A v \in queue : v \in Nat /\ stamp[v] \in Nat
  BY DEF TypeOK
<1>2. QED  BY <1>1 DEF Before

LEMMA RankGrows ==
  ASSUME TypeOK, NEW t \in queue, NEW u \in queue, Before(t, u)
  PROVE  Rank(t) < Rank(u)
<1> DEFINE First(v) == {w \in queue : Before(w, v)}
<1>1. First(t) \subseteq First(u) \ {t} /\ t \in First(u)
  BY BeforeOrders
<1>2. IsFiniteSet(First(u)) /\ Rank(t) \in Nat /\ Rank(u) \in Nat
  BY LineIsFinite DEF TypeOK
<1>3. IsFiniteSet(First(u) \ {t}) /\ Cardinality(First(u) \ {t}) = Rank(u) - 1
  BY <1>1, <1>2, FS_RemoveElement DEF Rank
<1>4. Rank(t) <= Rank(u) - 1
  <2> HIDE DEF First
  <2>1. Cardinality(First(t)) <= Cardinality(First(u) \ {t})
    BY <1>1, <1>3, FS_Subset
  <2>2. QED  BY <1>3, <2>1 DEF Rank, First
<1>5. QED  BY <1>2, <1>4

LEMMA RankBound ==
  ASSUME TypeOK, NEW t \in queue
  PROVE  Rank(t) \in 0 .. Cardinality(queue) - 1
<1>1. IsFiniteSet(queue) /\ Rank(t) \in Nat
  BY LineIsFinite DEF TypeOK
<1>2. IsFiniteSet(queue \ {t}) /\ Cardinality(queue \ {t}) = Cardinality(queue) - 1
  BY <1>1, FS_RemoveElement
<1>3. {u \in queue : Before(u, t)} \subseteq queue \ {t}
  BY BeforeOrders
<1>4. Rank(t) <= Cardinality(queue \ {t})
  BY <1>2, <1>3, FS_Subset DEF Rank
<1>5. Cardinality(queue) \in Nat
  BY <1>1, FS_CardinalityType
<1>6. QED  BY <1>1, <1>2, <1>4, <1>5

LEMMA RankCounts ==
  ASSUME TypeOK
  PROVE  \A k \in 0 .. Cardinality(queue) - 1 : \E t \in queue : Rank(t) = k
<1> DEFINE N == Cardinality(queue)
           f == [t \in queue |-> Rank(t)]
<1>1. IsFiniteSet(queue) /\ N \in Nat
  BY LineIsFinite, FS_CardinalityType DEF TypeOK
<1>2. IsFiniteSet(0 .. N - 1) /\ Cardinality(0 .. N - 1) = N
  <2>1. 0 \in Int /\ N - 1 \in Int /\ (IF 0 > N - 1 THEN 0 ELSE N - 1 - 0 + 1) = N
    BY <1>1
  <2>2. QED  BY <2>1, FS_Interval, Zenon
<1>3. \A t \in queue : f[t] \in 0 .. N - 1
  BY RankBound
<1>4. f \in [queue -> 0 .. N - 1]
  BY <1>3
<1>5. \A t, u \in queue : f[t] = f[u] => t = u
  <2>1. SUFFICES ASSUME NEW t \in queue, NEW u \in queue, t # u
                 PROVE  Rank(t) # Rank(u)
    OBVIOUS
  <2>2. Rank(t) \in Nat /\ Rank(u) \in Nat
    BY LineIsFinite DEF TypeOK
  <2>3. QED  BY <2>1, <2>2, BeforeOrders, RankGrows
<1>6. f \in Injection(queue, 0 .. N - 1)
  BY <1>4, <1>5 DEF Injection, IsInjective
<1>7. f \in Surjection(queue, 0 .. N - 1)
  BY <1>2, <1>6, FS_Injection
<1>8. QED  BY <1>7 DEF Surjection

\* ZPOPMIN with a count pops that many members, or all there are.
LEMMA FrontSize ==
  ASSUME TypeOK, NEW n \in Nat
  PROVE  Cardinality(Front(n)) = Fill(n)
<1> DEFINE N == Cardinality(queue)
           m == Fill(n)
           f == [t \in Front(n) |-> Rank(t)]
<1>1. N \in Nat /\ m \in Nat /\ m <= n /\ m <= N
  <2>1. N \in Nat
    BY LineIsFinite, FS_CardinalityType DEF TypeOK
  <2>2. QED  BY <2>1 DEF Fill
<1>2. IsFiniteSet(0 .. m - 1) /\ Cardinality(0 .. m - 1) = m
  <2>1. \A k \in Nat : IsFiniteSet(0 .. k - 1) /\ Cardinality(0 .. k - 1) = k
    BY FS_Interval
  <2>2. QED  BY <1>1, <2>1
<1>3. \A t \in Front(n) : t \in queue /\ Rank(t) \in 0 .. m - 1
  <2>1. ASSUME NEW t \in Front(n)
        PROVE  t \in queue /\ Rank(t) \in 0 .. m - 1
    <3>1. t \in queue /\ Rank(t) < n
      BY DEF Front
    <3>2. Rank(t) \in 0 .. N - 1
      BY <3>1, RankBound
    <3>3. QED  BY <1>1, <3>1, <3>2 DEF Fill
  <2>2. QED  BY <2>1
<1>4. f \in [Front(n) -> 0 .. m - 1]
  BY <1>3
<1>5. \A t, u \in Front(n) : f[t] = f[u] => t = u
  <2>1. SUFFICES ASSUME NEW t \in Front(n), NEW u \in Front(n), t # u
                 PROVE  Rank(t) # Rank(u)
    OBVIOUS
  <2>2. t \in queue /\ u \in queue /\ Rank(t) \in Nat /\ Rank(u) \in Nat
    BY <1>3, LineIsFinite DEF TypeOK
  <2>3. QED  BY <2>1, <2>2, BeforeOrders, RankGrows
<1>6. f \in Injection(Front(n), 0 .. m - 1)
  BY <1>4, <1>5 DEF Injection, IsInjective
<1>7. \A k \in 0 .. m - 1 : \E t \in Front(n) : f[t] = k
  <2>1. SUFFICES ASSUME NEW k \in 0 .. m - 1
                 PROVE  \E t \in Front(n) : Rank(t) = k
    OBVIOUS
  <2>2. k \in 0 .. N - 1 /\ k < n
    BY <1>1
  <2>3. QED  BY <2>2, RankCounts DEF Front
<1>8. f \in Surjection(Front(n), 0 .. m - 1)
  BY <1>4, <1>7 DEF Surjection
<1>9. QED  BY <1>2, <1>6, <1>8, FS_Injection

LEMMA AdmitTakes ==
  ASSUME TypeOK, NEW a \in Admitters, Admit(a)
  PROVE  /\ batch'[a] = Taken /\ queue' = queue \ Taken
         /\ \E count \in Counts : /\ AdmitCount(count) \in Nat \ {0}
                                 /\ Cardinality(Taken) = Fill(AdmitCount(count))
<1>1. PICK count \in Counts :
        /\ queue' = queue \ Front(AdmitCount(count))
        /\ batch' = [batch EXCEPT ![a] = Front(AdmitCount(count))]
  BY DEF Admit, TokensOf
<1>2. AdmitCount(count) \in Nat \ {0}
  BY DEF AdmitCount
<1>3. Taken = Front(AdmitCount(count)) /\ batch'[a] = Taken
  BY <1>1 DEF Taken, Front, TypeOK
<1>4. Cardinality(Taken) = Fill(AdmitCount(count))
  BY <1>2, <1>3, FrontSize
<1>5. QED  BY <1>1, <1>2, <1>3, <1>4

\* An admit takes what it was asked for, or all there are, and drops nothing.
THEOREM AdmitsSound == Spec => AdmitsTakeTheirFill
<1>1. TypeOK /\ [Next]_vars =>
        \A a \in Admitters : Admit(a) =>
          /\ batch'[a] = Taken
          /\ \E count \in Counts : Cardinality(Taken) = Fill(AdmitCount(count))
  BY AdmitTakes
<1>2. QED  BY <1>1, TypeCorrect, PTL DEF Spec, AdmitsTakeTheirFill

\* Whatever count the body carries, an admit that finds a line shortens it: the
\* part of EveryTokenAdmitted that needs no fairness.
THEOREM AdmitsMoveTheLine ==
  ASSUME TypeOK, NEW a \in Admitters, Admit(a), queue # {}
  PROVE  Cardinality(queue') < Cardinality(queue)
<1>1. /\ IsFiniteSet(queue) /\ Cardinality(queue) \in Nat
      /\ (Cardinality(queue) = 0 <=> queue = {})
  BY LineIsFinite, FS_CardinalityType, FS_EmptySet DEF TypeOK
<1>2. queue' = queue \ Taken /\ Taken \subseteq queue
  BY AdmitTakes DEF Taken
<1>3. Cardinality(Taken) # 0
  BY <1>1, AdmitTakes DEF Fill
<1>4. queue' # queue
  BY <1>2, <1>3, FS_EmptySet
<1>5. Cardinality(queue') <= Cardinality(queue) /\ Cardinality(queue') # Cardinality(queue)
  BY <1>1, <1>2, <1>4, FS_Subset
<1>6. Cardinality(queue') \in Nat
  BY <1>1, <1>2, FS_Subset, FS_CardinalityType
<1>7. QED  BY <1>1, <1>5, <1>6

\* What a step does to the line: a token joins that was not in it, or tokens
\* leave from the front, or Redis loses it.
Pops(n) == queue' = queue \ Front(n) /\ UNCHANGED <<stamp, joined, readded>>

LineEffect ==
  \/ UNCHANGED <<queue, joined, readded, stamp>>
  \/ /\ UNCHANGED <<queue, joined, readded>>
     /\ \E t \in Tokens : pc[t] = "new" /\ \A u \in Tokens \ {t} : stamp'[u] = stamp[u]
  \/ /\ \E t \in Tokens : pc[t] = "add" /\ Joins(t) /\ readded' \in {readded, readded \cup {t}}
     /\ UNCHANGED stamp
  \/ \E n \in Int : Pops(n)
  \/ queue' = {} /\ UNCHANGED <<stamp, joined, readded>>

LEMMA StepLine ==
  ASSUME TypeOK, [Next]_vars
  PROVE  LineEffect
<1>1. ASSUME NEW t \in Tokens, HolderStep(t)
      PROVE  LineEffect
  <2>1. CASE Request(t) \/ RequestBehind(t)
    <3>1. /\ UNCHANGED <<queue, joined, readded>> /\ pc[t] = "new"
          /\ \A u \in Tokens \ {t} : stamp'[u] = stamp[u]
      BY <2>1 DEF Request, RequestBehind, Stamps, TypeOK
    <3>2. QED  BY <3>1 DEF LineEffect
  <2>2. CASE UNCHANGED stamp
    BY <1>1, <2>2, HolderPlaces DEF LineEffect
  <2>3. QED
    BY <1>1, <2>1, <2>2 DEF HolderStep, ZAdd, ZRank, Poll, PollRank, HolderFails, ZAddResent,
       lineVars
<1>2. ASSUME NEW a \in Admitters, AdmitStep(a)
      PROVE  LineEffect
  <2>1. \A count \in Counts : AdmitCount(count) \in Int
    BY DEF AdmitCount
  <2>2. CASE Admit(a) \/ PopFails(a)
    <3>1. \E count \in Counts : Pops(AdmitCount(count))
      BY <2>2 DEF Admit, PopFails, Pops, holderVars
    <3>2. QED  BY <2>1, <3>1 DEF LineEffect
  <2>3. CASE UNCHANGED <<lineVars, holderVars>>
    BY <2>3 DEF LineEffect, lineVars, holderVars
  <2>4. QED  BY <1>2, <2>2, <2>3 DEF AdmitStep, SAdd, Expire, AdmitFails, AdmitResent
<1>3. CASE Tick \/ Crash \/ UNCHANGED vars
  <2>1. UNCHANGED <<queue, joined, readded, stamp>>
    BY <1>3 DEF Tick, Crash, vars, lineVars, holderVars
  <2>2. QED  BY <2>1 DEF LineEffect
<1>4. CASE RedisLoss
  BY <1>4 DEF RedisLoss, LineEffect, holderVars
<1>5. QED  BY <1>1, <1>2, <1>3, <1>4 DEF Next

\* What a step takes away of the tokens: nothing, unless it is a fault.
LEMMA StepKeeps ==
  ASSUME TypeOK, CInv, [Next]_vars, ~RedisLoss, NEW t \in Kept \ Kept'
  PROVE  faults' > faults /\ (t \in InHand \/ (t \in queue /\ \A u \in queue' : stamp[t] <= stamp[u]))
<1>1. ASSUME UNCHANGED <<apc, batch>>, queue \subseteq queue',
             admitted \cup left \subseteq admitted' \cup left'
      PROVE  FALSE
  BY <1>1, HandsStay DEF Kept
<1>2. ASSUME NEW u \in Tokens, HolderStep(u)
      PROVE  FALSE
  <2>1. UNCHANGED <<admitted, left, apc, batch>> /\ queue \subseteq queue'
    BY <1>2, HolderPlaces DEF Joins
  <2>2. QED  BY <1>1, <2>1
<1>3. ASSUME NEW a \in Admitters, AdmitStep(a)
      PROVE  faults' > faults /\ (t \in InHand \/ (t \in queue /\ \A u \in queue' : stamp[t] <= stamp[u]))
  <2>1. \A b \in Admitters \ {a} : UNCHANGED <<apc[b], batch[b]>>
    BY <1>3 DEF AdmitStep, Admit, SAdd, Expire, AdmitFails, AdmitResent, PopFails, AdmitEnds,
       TypeOK, admitVars
  <2>2. InHand = Others(a) \cup Pending(a) /\ InHand' = Others(a) \cup Pending(a)'
    BY <2>1, OneHand
  <2>3. CASE Admit(a)
    <3>1. Pending(a) = {} /\ Pending(a)' = queue \ queue'
      <4>1. PICK count \in Counts :
              LET popped == Front(AdmitCount(count)) IN
              /\ queue' = queue \ popped
              /\ batch' = [batch EXCEPT ![a] = popped]
              /\ apc' = [apc EXCEPT ![a] = IF popped = {} THEN "idle" ELSE "sadd"]
        BY <2>3 DEF Admit, TokensOf
      <4>2. Front(AdmitCount(count)) \subseteq queue
        BY DEF Front
      <4>3. QED  BY <2>3, <4>1, <4>2 DEF Admit, Pending, TypeOK
    <3>2. UNCHANGED <<admitted, left>>
      BY <2>3 DEF Admit, grantVars
    <3>3. QED  BY <2>2, <3>1, <3>2 DEF Kept
  <2>4. CASE SAdd(a)
    <3>1. Pending(a)' = {} /\ admitted' = admitted \cup Pending(a) /\ UNCHANGED <<queue, left>>
      BY <2>4 DEF SAdd, Pending, TypeOK, lineVars
    <3>2. QED  BY <2>2, <3>1 DEF Kept
  <2>5. CASE Expire(a)
    <3>1. Pending(a) = {} /\ UNCHANGED <<queue, admitted, left>>
      BY <2>5 DEF Expire, Pending, lineVars
    <3>2. QED  BY <2>2, <3>1 DEF Kept
  <2>6. CASE AdmitFails(a) \/ AdmitResent(a)
    <3>1. admitted \subseteq admitted' /\ UNCHANGED <<queue, left>> /\ faults' > faults
      BY <2>6 DEF AdmitFails, AdmitResent, Fault, TypeOK, lineVars
    <3>2. t \in InHand
      BY <3>1 DEF Kept
    <3>3. QED  BY <3>1, <3>2
  <2>7. CASE PopFails(a)
    <3>1. UNCHANGED <<admitted, left, apc, batch, stamp>> /\ faults' > faults
      BY <2>7 DEF PopFails, Fault, TypeOK, admitVars
    <3>2. t \in queue \ queue'
      BY <3>1, HandsStay DEF Kept
    <3>3. PICK count \in Counts : queue' = queue \ Front(AdmitCount(count))
      BY <2>7 DEF PopFails
    <3>4. AdmitCount(count) \in Int
      BY DEF AdmitCount
    <3>5. \A u \in queue' : stamp[t] <= stamp[u]
      BY <3>2, <3>3, <3>4, FrontFirst
    <3>6. QED  BY <3>1, <3>2, <3>5
  <2>8. QED  BY <1>3, <2>3, <2>4, <2>5, <2>6, <2>7 DEF AdmitStep
<1>4. CASE Tick \/ UNCHANGED vars
  <2>1. UNCHANGED <<apc, batch, queue>> /\ admitted \cup left \subseteq admitted' \cup left'
    BY <1>4 DEF Tick, vars, lineVars, grantVars, admitVars
  <2>2. QED  BY <1>1, <2>1
<1>5. CASE Crash
  <2>1. UNCHANGED <<queue, admitted, left>> /\ faults' > faults
    BY <1>5 DEF Crash, Fault, TypeOK, lineVars
  <2>2. QED  BY <2>1 DEF Kept
<1>6. QED  BY <1>2, <1>3, <1>4, <1>5 DEF Next

\* No step that is not a fault loses a token, whatever failed before it, and a
\* fault loses only tokens that were being moved.
THEOREM LossesSound == Spec => OnlyTheMovedAreLost
<1>1. TypeOK /\ CInv /\ [Next]_vars =>
        \A t \in Kept \ Kept' :
          \/ RedisLoss
          \/ /\ faults' > faults
             /\ t \in InHand \/ (t \in queue /\ \A u \in queue' : stamp[t] <= stamp[u])
  BY StepKeeps
<1>2. QED  BY <1>1, AlwaysCInv, PTL DEF Spec, OnlyTheMovedAreLost

\* A token requested after others were handed out has the latest stamp of
\* them, unless its clock was behind.
OInv ==
  /\ \A t \in Tokens : stamp[t] <= clock
  /\ \A u \in Tokens : \A t \in ahead[u] :
       pc[t] # "new" /\ (stamp[t] <= stamp[u] \/ u \in late)

LEMMA StampsStay ==
  ASSUME TypeOK, OInv, UNCHANGED <<stamp, ahead, late>>, clock' \in {clock, clock + 1},
         \A t \in Tokens : pc'[t] = "new" <=> pc[t] = "new"
  PROVE  OInv'
<1>1. clock \in Nat /\ \A t \in Tokens : stamp[t] \in Nat /\ ahead[t] \subseteq Tokens
  BY DEF TypeOK
<1>2. \A t \in Tokens : stamp'[t] <= clock'
  <2>1. \A t \in Tokens : stamp[t] <= clock
    BY DEF OInv
  <2>2. QED  BY <1>1, <2>1
<1>3. \A u \in Tokens : \A t \in ahead'[u] :
        pc'[t] # "new" /\ (stamp'[t] <= stamp'[u] \/ u \in late')
  BY <1>1 DEF OInv
<1>4. QED  BY <1>2, <1>3 DEF OInv

LEMMA NextOInv == TypeOK /\ OInv /\ [Next]_vars => OInv'
<1> SUFFICES ASSUME TypeOK, OInv, [Next]_vars PROVE OInv'
  OBVIOUS
<1>1. clock \in Nat /\ \A t \in Tokens : stamp[t] \in Nat /\ ahead[t] \subseteq Tokens
  BY DEF TypeOK
<1>2. ASSUME NEW t \in Tokens, NEW time \in 0 .. clock, Stamps(t, time), UNCHANGED clock,
             late' \in {late, late \cup {t}}, time = clock \/ t \in late'
      PROVE  OInv'
  <2>1. /\ pc[t] = "new" /\ pc'[t] = "add" /\ stamp'[t] = time
        /\ \A u \in Tokens \ {t} : UNCHANGED <<pc[u], stamp[u], ahead[u]>>
        /\ ahead'[t] = {u \in Tokens : Holding(u)}
    BY <1>2 DEF Stamps, Goto, TypeOK
  <2>2. \A u \in Tokens : stamp'[u] <= clock'
    <3>1. stamp'[t] <= clock /\ clock' = clock
      BY <1>1, <1>2, <2>1
    <3>2. \A u \in Tokens \ {t} : stamp'[u] <= clock
      BY <2>1 DEF OInv
    <3>3. QED  BY <3>1, <3>2
  <2>3. ASSUME NEW u \in Tokens, NEW v \in ahead'[u]
        PROVE  pc'[v] # "new" /\ (stamp'[v] <= stamp'[u] \/ u \in late')
    <3>1. CASE u = t
      <4>1. v \in Tokens \ {t} /\ pc[v] # "new"
        BY <2>1, <2>3, <3>1 DEF Holding
      <4>2. QED  BY <1>2, <2>1, <2>2, <3>1, <4>1
    <3>2. CASE u # t
      <4>1. v \in ahead[u] /\ v \in Tokens
        BY <1>1, <2>1, <2>3, <3>2
      <4>2. pc[v] # "new" /\ (stamp[v] <= stamp[u] \/ u \in late) /\ v # t
        BY <2>1, <4>1 DEF OInv
      <4>3. QED  BY <1>2, <2>1, <3>2, <4>1, <4>2
    <3>3. QED  BY <3>1, <3>2
  <2>4. QED  BY <2>2, <2>3 DEF OInv
<1>3. ASSUME NEW t \in Tokens, HolderStep(t)
      PROVE  OInv'
  <2>1. CASE Request(t)
    <3>1. Stamps(t, clock) /\ UNCHANGED <<clock, late>> /\ clock \in 0 .. clock
      BY <1>1, <2>1 DEF Request
    <3>2. QED  BY <1>2, <3>1
  <2>2. CASE RequestBehind(t)
    <3>1. PICK time \in 0 .. clock - 1 : Stamps(t, time)
      BY <2>2 DEF RequestBehind
    <3>2. UNCHANGED clock /\ late' = late \cup {t} /\ time \in 0 .. clock
      BY <1>1, <2>2, <3>1 DEF RequestBehind, Fault
    <3>3. QED  BY <1>2, <3>1, <3>2
  <2>3. CASE ~Request(t) /\ ~RequestBehind(t)
    <3>1. UNCHANGED <<stamp, ahead, late, clock>>
      BY <1>3, <2>3 DEF HolderStep, ZAdd, ZRank, Poll, PollRank, HolderFails, ZAddResent, Fault,
         lineVars
    <3>2. \A u \in Tokens : pc'[u] = "new" <=> pc[u] = "new"
      BY <1>3, <2>3 DEF HolderStep, ZAdd, ZRank, Poll, PollRank, HolderFails, ZAddResent,
         RankMissing, RankMissingGo, NotInLine, Answer, Goto, TypeOK
    <3>3. QED  BY <3>1, <3>2, StampsStay
  <2>4. QED  BY <2>1, <2>2, <2>3
<1>4. ASSUME NEW a \in Admitters, AdmitStep(a)
      PROVE  OInv'
  <2>1. UNCHANGED <<stamp, ahead, late, pc, clock>>
    BY <1>4 DEF AdmitStep, Admit, SAdd, Expire, AdmitFails, AdmitResent, PopFails, Fault,
       lineVars, holderVars
  <2>2. QED  BY <2>1, StampsStay
<1>5. CASE Tick \/ RedisLoss \/ UNCHANGED vars
  <2>1. UNCHANGED <<stamp, ahead, late, pc>> /\ clock' \in {clock, clock + 1}
    BY <1>5 DEF Tick, RedisLoss, Fault, vars, lineVars, holderVars
  <2>2. QED  BY <2>1, StampsStay
<1>6. CASE Crash
  <2>1. UNCHANGED <<stamp, ahead, late, clock>> /\ \A t \in Tokens : pc'[t] = "new" <=> pc[t] = "new"
    BY <1>6 DEF Crash, Fault, TypeOK, lineVars
  <2>2. QED  BY <2>1, StampsStay
<1>7. QED  BY <1>3, <1>4, <1>5, <1>6 DEF Next

\* Nobody is overtaken except by a tie or by a clock that was behind.
THEOREM OvertakingSound == Spec => OvertakenOnlyOnTies
<1> DEFINE OnlyOnTies == \A t, u \in Tokens : Overtakes(u, t) => stamp[u] = stamp[t] \/ u \in late
<1>1. Init => OInv
  BY DEF Init, OInv
<1>2. TypeOK /\ OInv /\ [Next]_vars => OnlyOnTies
  <2> SUFFICES ASSUME TypeOK, OInv, [Next]_vars, NEW t \in Tokens, NEW u \in Tokens, Overtakes(u, t)
               PROVE  stamp[u] = stamp[t] \/ u \in late
    OBVIOUS
  <2>1. /\ stamp[t] \in Nat /\ stamp[u] \in Nat /\ (stamp[t] <= stamp[u] \/ u \in late)
        /\ u \in queue /\ u \notin queue' /\ t \in queue /\ t \in queue'
    BY DEF TypeOK, OInv, Overtakes
  <2>2. PICK n \in Int : Pops(n)
    BY <2>1, StepLine DEF LineEffect, Joins
  <2>3. stamp[u] <= stamp[t]
    BY <2>1, <2>2, FrontFirst DEF Pops
  <2>4. QED  BY <2>1, <2>3
<1>3. QED  BY <1>1, <1>2, InitType, NextType, NextOInv, PTL DEF Spec, OvertakenOnlyOnTies

\* Whoever loses a place loses it to a token that joins before it in the order
\* of the line.
LEMMA PlaceLostToNewcomer ==
  ASSUME TypeOK, CInv, [Next]_vars, NEW t \in Tokens, LosesPlace(t)
  PROVE  \E u \in queue' \ queue : u \in Tokens /\ stamp[u] <= stamp[t]
<1>1. /\ t \in queue /\ t \in queue' /\ Rank(t)' > Rank(t)
      /\ queue \subseteq Tokens /\ queue' \subseteq Tokens
  BY NextType DEF LosesPlace, TypeOK
<1>2. Rank(t) \in Nat /\ Rank(t)' \in Nat
  <2>1. Rank(t) \in Nat
    BY <1>1, LineIsFinite
  <2>2. IsFiniteSet({u \in queue' : Before(u, t)'})
    BY <1>1, FS_Subset
  <2>3. QED  BY <2>1, <2>2, FS_CardinalityType DEF Rank
<1>3. ASSUME {u \in queue' : Before(u, t)'} \subseteq {u \in queue : Before(u, t)}
      PROVE  FALSE
  <2>1. IsFiniteSet({u \in queue : Before(u, t)})
    BY <1>1, LineIsFinite
  <2>2. Rank(t)' <= Rank(t)
    BY <1>3, <2>1, FS_Subset DEF Rank
  <2>3. QED  BY <1>1, <1>2, <2>2
<1>4. PICK u \in queue' : Before(u, t)' /\ ~(u \in queue /\ Before(u, t))
  BY <1>3
<1>5. UNCHANGED stamp => u \notin queue /\ stamp[u] <= stamp[t]
  <2>1. stamp \in [Tokens -> Nat]
    BY DEF TypeOK
  <2>2. QED  BY <1>1, <1>4, <2>1 DEF Before
<1>6. CASE UNCHANGED stamp
  BY <1>1, <1>4, <1>5, <1>6
<1>7. ASSUME UNCHANGED <<queue, joined, readded>>, NEW v \in Tokens, pc[v] = "new",
             \A w \in Tokens \ {v} : stamp'[w] = stamp[w]
      PROVE  FALSE
  <2>1. v \notin queue
    BY <1>7 DEF CInv, JoinedOnce, Places
  <2>2. stamp'[u] = stamp[u] /\ stamp'[t] = stamp[t]
    BY <1>1, <1>4, <1>7, <2>1
  <2>3. QED  BY <1>4, <1>7, <2>2 DEF Before
<1>8. QED  BY <1>6, <1>7, StepLine DEF LineEffect, Pops

\* The position a holder reads grows only by the tokens OvertakenOnlyOnTies
\* excuses: nobody who was handed a token later gets in before it.
THEOREM PositionsSound == Spec => PositionsOnlyImprove
<1> DEFINE OnlyImprove ==
      \A t \in Tokens : LosesPlace(t) =>
        \E u \in queue' \ queue : t \notin ahead[u] \/ stamp[u] = stamp[t] \/ u \in late
<1>1. Init => OInv
  BY DEF Init, OInv
<1>2. TypeOK /\ CInv /\ OInv /\ [Next]_vars => OnlyImprove
  <2> SUFFICES ASSUME TypeOK, CInv, OInv, [Next]_vars, NEW t \in Tokens, LosesPlace(t)
               PROVE  \E u \in queue' \ queue : t \notin ahead[u] \/ stamp[u] = stamp[t] \/ u \in late
    OBVIOUS
  <2>1. PICK u \in queue' \ queue : u \in Tokens /\ stamp[u] <= stamp[t]
    BY PlaceLostToNewcomer
  <2>2. t \in ahead[u] => stamp[t] <= stamp[u] \/ u \in late
    BY <2>1 DEF OInv
  <2>3. stamp[u] \in Nat /\ stamp[t] \in Nat
    BY <2>1 DEF TypeOK
  <2>4. QED  BY <2>1, <2>2, <2>3
<1>3. QED
  BY <1>1, <1>2, InitType, NextType, NextOInv, AlwaysCInv, PTL DEF Spec, PositionsOnlyImprove

\* Every step of the waiting room is a step of WaitingLine or invisible to it.
LEMMA LineSteps ==
  ASSUME TypeOK, CInv, LineEffect, stamp' \in [Tokens -> Nat]
  PROVE  [Line!Next]_<<stamp, queue \ readded, (joined \ queue) \ readded>>
<1> DEFINE waiting == queue \ readded
           called  == (joined \ queue) \ readded
<1>1. /\ queue \subseteq joined /\ stamp \in [Tokens -> Nat] /\ queue \subseteq Tokens
      /\ \A t \in Tokens :
           pc[t] = "new" \/ (pc[t] = "add" /\ t \notin readded) => t \notin joined
  BY DEF CInv, JoinedOnce, Places, TypeOK
<1>2. CASE UNCHANGED <<queue, joined, readded, stamp>>
  BY <1>2
<1>3. ASSUME NEW t \in Tokens, pc[t] = "new", UNCHANGED <<queue, joined, readded>>,
             \A u \in Tokens \ {t} : stamp'[u] = stamp[u]
      PROVE  Line!Next
  <2>1. t \notin waiting \cup called /\ UNCHANGED <<waiting, called>>
    BY <1>1, <1>3
  <2>2. Line!Stamp(t)
    BY <1>3, <2>1 DEF Line!Stamp
  <2>3. QED  BY <2>2 DEF Line!Next
<1>4. ASSUME NEW t \in Tokens, pc[t] = "add", Joins(t), readded' \in {readded, readded \cup {t}},
             UNCHANGED stamp
      PROVE  Line!Next \/ UNCHANGED <<stamp, waiting, called>>
  <2>1. queue' = queue \cup {t} /\ joined' = joined \cup {t}
    BY <1>4 DEF Joins
  <2>2. CASE t \in readded'
    <3>1. t \in readded \/ (t \notin joined /\ t \notin queue)
      BY <1>1, <1>4
    <3>2. UNCHANGED <<waiting, called>>
      BY <1>4, <2>1, <2>2, <3>1
    <3>3. QED  BY <1>4, <3>2
  <2>3. CASE t \notin readded'
    <3>1. UNCHANGED readded /\ t \notin joined /\ t \notin queue
      BY <1>1, <1>4, <2>3
    <3>2. waiting' = waiting \cup {t} /\ UNCHANGED called /\ t \notin waiting \cup called
      BY <2>1, <2>3, <3>1
    <3>3. Line!Join(t)
      BY <1>4, <3>2 DEF Line!Join
    <3>4. QED  BY <3>3 DEF Line!Next
  <2>4. QED  BY <2>2, <2>3
<1>5. ASSUME UNCHANGED <<stamp, joined, readded>>, queue' \subseteq queue,
             \A u \in queue \ queue', t \in queue' : stamp[u] <= stamp[t]
      PROVE  Line!Next
  <2> DEFINE group == (queue \ queue') \ readded
  <2>1. /\ group \in SUBSET waiting
        /\ waiting' = waiting \ group /\ called' = called \cup group
        /\ \A t \in group, u \in waiting \ group : stamp[t] <= stamp[u]
    BY <1>1, <1>5
  <2>2. Line!CallOut(group)
    BY <1>5, <2>1 DEF Line!CallOut
  <2>3. QED  BY <2>1, <2>2 DEF Line!Next
<1>6. ASSUME NEW n \in Int, Pops(n)
      PROVE  Line!Next
  <2>1. \A u \in queue \ queue', t \in queue' : stamp[u] <= stamp[t]
    BY <1>6, FrontFirst DEF Pops, Front
  <2>2. QED  BY <1>5, <1>6, <2>1 DEF Pops
<1>7. CASE queue' = {} /\ UNCHANGED <<stamp, joined, readded>>
  BY <1>5, <1>7
<1>8. QED  BY <1>2, <1>3, <1>4, <1>6, <1>7 DEF LineEffect

\* The line is fair: every behaviour of WaitingRoom is one of WaitingLine.
THEOREM LineFair == Spec => LineIsFair
<1>1. Init => Line!Init
  BY DEF Init, Line!Init
<1>2. (TypeOK /\ CInv) /\ (TypeOK /\ CInv)' /\ [Next]_vars
        => [Line!Next]_<<stamp, queue \ readded, (joined \ queue) \ readded>>
  <2> SUFFICES ASSUME TypeOK, CInv, TypeOK', [Next]_vars
               PROVE  [Line!Next]_<<stamp, queue \ readded, (joined \ queue) \ readded>>
    OBVIOUS
  <2>1. stamp' \in [Tokens -> Nat]
    BY DEF TypeOK
  <2>2. QED  BY <2>1, StepLine, LineSteps
<1>3. QED  BY <1>1, <1>2, AlwaysCInv, PTL DEF Spec, LineIsFair, Line!Spec
=============================================================================
