---------------------------- MODULE WaitingRoom ----------------------------
(***************************************************************************)
(* The virtual waiting room: a Redis sorted set (the line, scored by the   *)
(* millisecond of arrival) and a Redis set with one TTL (the admitted      *)
(* tokens).  Every handler is a sequence of single Redis commands with an  *)
(* await between them; handing out tokens, polling and admitting           *)
(* interleave there, the admitted set may expire there, and the process    *)
(* may die there.  The four implementations issue the same commands; Go    *)
(* alone turns a missing rank into an error.  Where no language is named,  *)
(* the mapped lines are TypeScript.                                        *)
(***************************************************************************)
EXTENDS Integers, FiniteSets

CONSTANTS Tokens,     \* UUIDs, as numbers that compare as the UUIDs do
          Pollers,    \* tokens whose holders ask for position or status
          Admitters,  \* concurrent callers of POST /admit
          Counts,     \* counts an admit body may carry
          TTL,        \* life of the admitted set, in ticks of the clock
          MaxClock,   \* bound on the clock, past which it only reaches deadlines
          Impls,      \* implementations considered
          MaxFaults   \* bound on failed or resent calls, late clocks, crashes and
                      \* losses of Redis data

Implementations == {"typescript", "java", "csharp", "go"}

ASSUME WaitingRoomAssumption ==
  /\ Tokens \subseteq Nat /\ IsFiniteSet(Tokens) /\ Pollers \subseteq Tokens
  /\ Counts \subseteq Int
  /\ TTL \in Nat \ {0}
  /\ MaxClock \in Nat
  /\ Impls \subseteq Implementations
  /\ MaxFaults \in Nat

VARIABLES
  impl,       \* the deployed implementation, fixed at the start
  clock,      \* the time the service and Redis read
  queue,      \* members of waitingroom:queue
  stamp,      \* the score each token took, Date.now() at its request
  admitted,   \* members of waitingroom:admitted
  deadline,   \* when that set expires, Persistent when it has no TTL
  pc,         \* where the request of each token's holder stands
  seen,       \* what each holder was last answered
  apc,        \* where each admit handler stands
  batch,      \* the tokens it popped
  faults,     \* faults so far, at most MaxFaults
  joined,     \* history: tokens that have entered the line
  left,       \* history: tokens whose grant expired
  grantedAt,  \* history: when a token was granted, Never if Redis lost it
  ahead,      \* history: tokens already handed out when a token was requested
  late,       \* history: tokens whose request met a clock that was behind
  readded,    \* history: tokens whose ZADD was sent twice
  readmitted  \* history: tokens whose SADD was sent twice

lineVars    == <<queue, stamp, joined>>
grantVars   == <<admitted, deadline, left, grantedAt>>
holderVars  == <<pc, seen, ahead, late, readded>>
admitVars   == <<apc, batch, readmitted>>
vars == <<impl, clock, lineVars, grantVars, holderVars, admitVars, faults>>

Persistent == 0
Never      == -1

NoAnswer  == [state |-> "none", position |-> 0]
AnswerSet == [state : {"none", "ticket", "waiting", "admitted", "unknown"}, position : Nat]

Init ==
  /\ impl \in Impls /\ clock = 0 /\ faults = 0
  /\ queue = {} /\ stamp = [t \in Tokens |-> 0] /\ joined = {}
  /\ admitted = {} /\ deadline = Persistent
  /\ left = {} /\ grantedAt = [t \in Tokens |-> Never]
  /\ pc = [t \in Tokens |-> "new"] /\ seen = [t \in Tokens |-> NoAnswer]
  /\ ahead = [t \in Tokens |-> {}] /\ late = {} /\ readded = {} /\ readmitted = {}
  /\ apc = [a \in Admitters |-> "idle"] /\ batch = [a \in Admitters |-> {}]

-----------------------------------------------------------------------------
(* The sorted set: members in the order of their scores, equal scores in   *)
(* the order of the members themselves.                                    *)

BeforeDescending(t, u) == stamp[t] > stamp[u]
Before(t, u) == stamp[t] < stamp[u] \/ (stamp[t] = stamp[u] /\ t < u)

Rank(t) == Cardinality({u \in queue : Before(u, t)})

\* ZPOPMIN's members: the n lowest scored, or all there are.
Front(n) == {t \in queue : Rank(t) < n}

Goto(t, label) == pc' = [pc EXCEPT ![t] = label]

\* A holder that was answered with its token may poll; one whose request
\* failed never learns the token.
Holding(t) == pc[t] \in {"holding", "polling"}

Answer(t, state, position) ==
  /\ Goto(t, "holding")
  /\ seen' = [seen EXCEPT ![t] = [state |-> state, position |-> position]]

-----------------------------------------------------------------------------
(* GET /token: stamp, ZADD NX, ZRANK.                                      *)

Stamps(t, time) ==
  /\ pc[t] = "new" /\ Goto(t, "add")
  /\ stamp' = [stamp EXCEPT ![t] = time]
  /\ ahead' = [ahead EXCEPT ![t] = {u \in Tokens : Holding(u)}]

Request(t) ==
  /\ Stamps(t, clock)
  /\ UNCHANGED <<impl, clock, queue, joined, grantVars, seen, late, readded, admitVars, faults>>

Joins(t) == queue' = queue \cup {t} /\ joined' = joined \cup {t}

ZAdd(t) ==
  /\ pc[t] = "add" /\ Goto(t, "rank")
  /\ Joins(t)
  /\ UNCHANGED <<impl, clock, stamp, grantVars, seen, ahead, late, readded, admitVars, faults>>

\* The token has been popped since its ZADD: rank ?? 0.
RankMissingRefused(t) == impl # "go" /\ Goto(t, "refused") /\ UNCHANGED seen
RankMissing(t) == impl # "go" /\ Answer(t, "ticket", 1)
\* go-redis reports a missing rank as the error redis.Nil: 500, and the
\* holder never hears of the token.
RankMissingGo(t) == impl = "go" /\ Goto(t, "refused") /\ UNCHANGED seen

ZRank(t) ==
  /\ pc[t] = "rank"
  /\ \/ t \in queue /\ Answer(t, "ticket", Rank(t) + 1)
     \/ t \notin queue /\ (RankMissing(t) \/ RankMissingGo(t))
  /\ UNCHANGED <<impl, clock, lineVars, grantVars, ahead, late, readded, admitVars, faults>>

-----------------------------------------------------------------------------
(* GET /position and GET /status: SISMEMBER, then ZRANK.  The two handlers *)
(* read the same and word the answer differently.                          *)

Poll(t) ==
  /\ t \in Pollers /\ pc[t] = "holding"
  /\ \/ t \in admitted /\ Answer(t, "admitted", 0)
     \/ t \notin admitted /\ Goto(t, "polling") /\ UNCHANGED seen
  /\ UNCHANGED <<impl, clock, lineVars, grantVars, ahead, late, readded, admitVars, faults>>

NotInLineRankZero(t) == Answer(t, "waiting", 1)
NotInLineSentinel(t) == Answer(t, "unknown", -1)
NotInLine(t) == Answer(t, "unknown", 0)

PollRank(t) ==
  /\ pc[t] = "polling"
  /\ \/ t \in queue /\ Answer(t, "waiting", Rank(t) + 1)
     \/ t \notin queue /\ NotInLine(t)
  /\ UNCHANGED <<impl, clock, lineVars, grantVars, ahead, late, readded, admitVars, faults>>

-----------------------------------------------------------------------------
(* POST /admit: ZPOPMIN, SADD, EXPIRE.                                     *)

CountAsGiven(count) == count
AdmitCount(count) == IF count < 1 THEN 1 ELSE count

\* The reply of ZPOPMIN is flat, member and score in turn.
EveryOtherToken(popped) == {t \in popped : \A u \in popped : t <= u}
TokensOf(popped) == popped

Admit(a) ==
  /\ apc[a] = "idle"
  /\ \E count \in Counts :
       LET popped == Front(AdmitCount(count)) IN
       /\ queue' = queue \ popped
       /\ batch' = [batch EXCEPT ![a] = TokensOf(popped)]
       /\ apc' = [apc EXCEPT ![a] = IF popped = {} THEN "idle" ELSE "sadd"]
  /\ UNCHANGED <<impl, clock, stamp, joined, grantVars, holderVars, readmitted, faults>>

SAdd(a) ==
  /\ apc[a] = "sadd" /\ apc' = [apc EXCEPT ![a] = "expire"]
  /\ admitted' = admitted \cup batch[a]
  /\ UNCHANGED <<impl, clock, lineVars, deadline, left, grantedAt, holderVars, batch, readmitted, faults>>

DeadlineNeverSet == deadline
DeadlineSetOnce == IF deadline = Persistent THEN clock + TTL ELSE deadline
DeadlineFromNow == clock + TTL

\* EXPIRE on a set that has expired in the meantime does nothing, and its
\* reply is not looked at.
Refresh == deadline' = IF admitted = {} THEN Persistent ELSE DeadlineFromNow

\* The handler returns and its locals are gone.
AdmitEnds(a) == apc' = [apc EXCEPT ![a] = "idle"] /\ batch' = [batch EXCEPT ![a] = {}]

Expire(a) ==
  /\ apc[a] = "expire" /\ AdmitEnds(a)
  /\ Refresh
  /\ grantedAt' = [t \in Tokens |-> IF t \in batch[a] \cap admitted THEN clock ELSE grantedAt[t]]
  /\ UNCHANGED <<impl, clock, lineVars, admitted, left, holderVars, readmitted, faults>>

-----------------------------------------------------------------------------
(* Time.  A key is gone for every reader at its deadline.                  *)

Tick ==
  /\ clock < MaxClock \/ clock < deadline
  /\ clock' = clock + 1
  /\ IF deadline = clock + 1
     THEN /\ admitted' = {} /\ deadline' = Persistent
          /\ left' = left \cup admitted
     ELSE UNCHANGED <<admitted, deadline, left>>
  /\ UNCHANGED <<impl, lineVars, grantedAt, holderVars, admitVars, faults>>

-----------------------------------------------------------------------------
(* Faults.  No handler retries: one whose command fails answers 500, and   *)
(* the command may have been applied all the same.  The Redis clients of   *)
(* TypeScript, Java and Go, built with their default options, send a       *)
(* command again when the connection breaks before its reply.              *)

Fault == faults < MaxFaults /\ faults' = faults + 1 /\ UNCHANGED <<impl, clock, left>>
Resends == impl # "csharp"

\* The request meets a clock that is behind: it was set back, or it is the
\* clock of another host.
RequestBehind(t) ==
  /\ Fault
  /\ \E time \in 0 .. clock - 1 : Stamps(t, time)
  /\ late' = late \cup {t}
  /\ UNCHANGED <<queue, joined, admitted, deadline, grantedAt, seen, readded, admitVars>>

\* The holder of a token it was never told cannot poll; a poll just fails.
HolderFails(t) ==
  /\ Fault /\ pc[t] \in {"add", "rank", "polling"}
  /\ (pc[t] = "add" /\ Joins(t)) \/ UNCHANGED <<queue, joined>>
  /\ Goto(t, IF pc[t] = "polling" THEN "holding" ELSE "refused")
  /\ UNCHANGED <<stamp, admitted, deadline, grantedAt, seen, ahead, late, readded, admitVars>>

\* NX keeps a member that is still in line from being added twice, not one
\* that an admit has popped before the ZADD is sent again.
ZAddResent(t) ==
  /\ Fault /\ Resends /\ pc[t] = "add"
  /\ Joins(t) /\ readded' = readded \cup {t}
  /\ UNCHANGED <<stamp, admitted, deadline, grantedAt, pc, seen, ahead, late, admitVars>>

\* What was popped is put back by nobody.
AdmitFails(a) ==
  /\ Fault /\ apc[a] \in {"sadd", "expire"}
  /\ \/ UNCHANGED <<admitted, deadline>>
     \/ apc[a] = "sadd" /\ admitted' = admitted \cup batch[a] /\ UNCHANGED deadline
     \/ apc[a] = "expire" /\ Refresh /\ UNCHANGED admitted
  /\ AdmitEnds(a)
  /\ UNCHANGED <<lineVars, grantedAt, holderVars, readmitted>>

\* The SADD or the EXPIRE is sent twice; in between the set may have expired.
AdmitResent(a) ==
  /\ Fault /\ Resends
  /\ \/ /\ apc[a] = "sadd" /\ admitted' = admitted \cup batch[a]
        /\ readmitted' = readmitted \cup batch[a] /\ UNCHANGED deadline
     \/ apc[a] = "expire" /\ Refresh /\ UNCHANGED <<admitted, readmitted>>
  /\ UNCHANGED <<lineVars, grantedAt, holderVars, apc, batch>>

\* The ZPOPMIN was applied and its reply lost.  The handler fails, or the
\* client sends the command again and pops the tokens behind the lost ones.
PopFails(a) ==
  /\ Fault /\ apc[a] = "idle"
  /\ \E count \in Counts : queue' = queue \ Front(AdmitCount(count))
  /\ UNCHANGED <<stamp, joined, admitted, deadline, grantedAt, holderVars, admitVars>>

\* The process dies; Redis and what was answered stay.
Crash ==
  /\ Fault
  /\ pc' = [t \in Tokens |->
       CASE pc[t] \in {"add", "rank"} -> "refused" [] pc[t] = "polling" -> "holding"
         [] OTHER -> pc[t]]
  /\ apc' = [a \in Admitters |-> "idle"] /\ batch' = [a \in Admitters |-> {}]
  /\ UNCHANGED <<lineVars, admitted, deadline, grantedAt, seen, ahead, late, readded, readmitted>>

\* Redis comes back without its data (no volume is mounted for it).
RedisLoss ==
  /\ Fault
  /\ queue' = {} /\ admitted' = {} /\ deadline' = Persistent
  /\ grantedAt' = [t \in Tokens |-> Never]
  /\ UNCHANGED <<stamp, joined, holderVars, admitVars>>

-----------------------------------------------------------------------------
HolderStep(t) ==
  \/ Request(t) \/ ZAdd(t) \/ ZRank(t) \/ Poll(t) \/ PollRank(t)
  \/ RequestBehind(t) \/ HolderFails(t) \/ ZAddResent(t)

AdmitStep(a) ==
  Admit(a) \/ SAdd(a) \/ Expire(a) \/ AdmitFails(a) \/ AdmitResent(a) \/ PopFails(a)

Next ==
  \/ \E t \in Tokens : HolderStep(t)
  \/ \E a \in Admitters : AdmitStep(a)
  \/ Tick \/ Crash \/ RedisLoss

Spec == Init /\ [][Next]_vars

(* An admit that has begun goes on when its awaited call returns, the clock *)
(* advances, and somebody keeps calling POST /admit, which is what lets     *)
(* people in: the service itself admits nobody.  Nobody owes a request, a   *)
(* poll or a fault.                                                         *)
Fairness ==
  /\ \A a \in Admitters : WF_vars(Admit(a)) /\ WF_vars(SAdd(a) \/ Expire(a))
  /\ WF_vars(Tick)

FairSpec == Spec /\ Fairness

-----------------------------------------------------------------------------
(* What makes the waiting room correct.                                    *)

\* Every variable has its type.
TypeOK ==
  /\ impl \in Impls /\ clock \in Nat /\ faults \in 0 .. MaxFaults
  /\ queue \subseteq Tokens /\ joined \subseteq Tokens /\ left \subseteq Tokens
  /\ stamp \in [Tokens -> Nat]
  /\ admitted \subseteq Tokens /\ deadline \in Nat
  /\ grantedAt \in [Tokens -> Nat \cup {Never}]
  /\ pc \in [Tokens -> {"new", "add", "rank", "holding", "polling", "refused"}]
  /\ seen \in [Tokens -> AnswerSet]
  /\ ahead \in [Tokens -> SUBSET Tokens]
  /\ apc \in [Admitters -> {"idle", "sadd", "expire"}]
  /\ batch \in [Admitters -> SUBSET Tokens]
  /\ late \subseteq Tokens /\ readded \subseteq Tokens /\ readmitted \subseteq Tokens

\* Tokens popped by an admit that has not added them to the admitted set yet:
\* in that window they are in neither key.
Pending(a) == IF apc[a] = "sadd" THEN batch[a] ELSE {}
InHand == UNION {Pending(a) : a \in Admitters}

\* While nothing fails, no token that joined is lost; and whatever fails, none
\* is in two places: it stands in line, is in the hands of exactly one admit,
\* is admitted, or had its grant expire, however admits race.  Only a ZADD or
\* a SADD that is sent twice can put a token where it has been before.
TokensConserved ==
  /\ faults = 0 => joined = queue \cup InHand \cup admitted \cup left
  /\ (queue \cap (InHand \cup admitted \cup left)) \subseteq readded
  /\ (InHand \cap (admitted \cup left)) \subseteq (readded \cup readmitted)
  /\ (admitted \cap left) \subseteq (readded \cup readmitted)
  /\ \A a, b \in Admitters : a # b => (Pending(a) \cap Pending(b)) \subseteq readded

Kept == queue \cup InHand \cup admitted \cup left

\* A token that joined is lost only when Redis loses its data or a call fails
\* while it is being moved: out of an admit's hands, or off the front of the
\* line.  Whatever failed before, a resent ZADD or SADD included, nobody who
\* stays in line or has a grant pays for it.
OnlyTheMovedAreLost ==
  [][\A t \in Kept \ Kept' :
       \/ RedisLoss
       \/ /\ faults' > faults
          /\ t \in InHand \/ (t \in queue /\ \A u \in queue' : stamp[t] <= stamp[u])]_vars

Backed == admitted # {} /\ deadline = Persistent => \E a \in Admitters : apc[a] = "expire"

\* The admitted set has a TTL or an admit is about to set it, and only a call
\* that fails while an admit is under way can end that.
TtlBacked ==
  [][Backed /\ ~Backed' => faults' > faults /\ \E a \in Admitters : apc[a] # "idle"]_vars

InTerm(t) == grantedAt[t] # Never /\ clock < grantedAt[t] + TTL

\* A grant whose EXPIRE found it in the set lasts its full TTL, whatever
\* other admits add, refresh or fail to do in the meantime; only Redis losing
\* its data can take it away.
GrantsLast == \A t \in Tokens : InTerm(t) => t \in admitted

\* A grant that is not used expires after its TTL.
GrantsExpire ==
  \A t \in admitted : grantedAt[t] # Never => InTerm(t)

\* While nothing fails, every token in line or past it is in somebody's hands,
\* also when an admit pops it before its holder was told: outside Go no place
\* in line and no grant is taken by a token whose request was refused.
EveryTokenHasAHolder ==
  faults = 0 /\ impl # "go" => \A t \in joined : pc[t] = "rank" \/ Holding(t)

\* A holder told that its token is not in line is never told afterwards that it
\* waits, and one told that it is admitted only after its grant has expired and
\* because its ZADD was sent twice.
PollsNeverGoBack ==
  [][\A t \in Tokens : seen'[t].state = "waiting" =>
       /\ seen[t].state # "unknown"
       /\ seen[t].state = "admitted" => t \in readded \cap left]_vars

\* A holder told "unknown" has left: its token is nowhere any more.
UnknownMeansLeft ==
  \A t \in Tokens : seen[t].state = "unknown" => t \notin queue \cup InHand \cup admitted

Overtakes(u, t) == u \in queue \ queue' /\ t \in queue \cap queue' /\ t \in ahead[u]

\* A token requested after another was handed out is popped before it only
\* when both took the same millisecond, or the clock was behind for the later.
OvertakenOnlyOnTies ==
  [][\A t, u \in Tokens : Overtakes(u, t) => stamp[u] = stamp[t] \/ u \in late]_vars

Taken == queue \ queue'
Fill(n) == IF n < Cardinality(queue) THEN n ELSE Cardinality(queue)

\* However ties and late clocks shuffled the line, an admit takes exactly as many
\* tokens as it was asked for, or all there are, and keeps every one it took.
AdmitsTakeTheirFill ==
  [][\A a \in Admitters : Admit(a) =>
       /\ batch'[a] = Taken
       /\ \E count \in Counts : Cardinality(Taken) = Fill(AdmitCount(count))]_vars

LosesPlace(t) == t \in queue \cap queue' /\ Rank(t)' > Rank(t)

\* A token falls back in line only when one joins that was requested before it
\* was handed out, took the same millisecond, or met a clock that was behind:
\* the position its holder reads never grows otherwise, however admits race.
PositionsOnlyImprove ==
  [][\A t \in Tokens : LosesPlace(t) =>
       \E u \in queue' \ queue : t \notin ahead[u] \/ stamp[u] = stamp[t] \/ u \in late]_vars

\* Seen from outside, the line is the one WaitingLine promises to every token
\* whose ZADD was sent once, also when clocks go back.
Line == INSTANCE WaitingLine WITH
  arrived <- stamp, waiting <- queue \ readded, called <- (joined \ queue) \ readded
LineIsFair == Line!Spec

\* Every token in line is admitted at last: no count in a body keeps the line
\* from moving, no admit pops a token and drops it, and after a fault a token
\* is still admitted if it is not lost at once.
EveryTokenAdmitted ==
  \A t \in Tokens :
    t \in joined ~> t \in admitted \cup left \/ (faults > 0 /\ t \notin queue \cup InHand)

\* Every grant ends at last, whatever failed: the admissions that extend it run
\* out when nobody is left in line, and a set that a crash left without a TTL
\* gets one with the next admission.  Only if there is none it stays for ever.
EveryGrantEnds ==
  \A t \in Tokens :
    []<>(t \notin admitted) \/ <>[](faults > 0 /\ deadline = Persistent /\ queue = {})
=============================================================================
