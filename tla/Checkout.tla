------------------------------ MODULE Checkout ------------------------------
(***************************************************************************)
(* The checkout service: POST /api/checkout/order made idempotent by a     *)
(* Redis key (claimed with SET NX, overwritten with the result) and, behind *)
(* it, by the UNIQUE constraint of the orders table.  Every await of the   *)
(* handler is a step boundary: requests of many callers interleave there,  *)
(* the claim may time out there, and the process may die there.            *)
(* The four implementations take the same steps and answer differently     *)
(* when a lookup finds nothing or a call fails; impl says which is         *)
(* deployed.  Where no language is named, the mapped lines are TypeScript. *)
(***************************************************************************)
EXTENDS Naturals, Sequences

CONSTANTS Clients,      \* callers; a caller re-sends the same request at will
          Headers,      \* Idempotency-Key headers the callers may carry
          Amounts,      \* amounts, as the strings the bodies carry
          Numeric,      \* what NUMERIC(12,2) makes of an amount
          Overflows,    \* amounts that are numbers, too large for the column
          Impls         \* implementations considered

NoAmount    == "none"   \* Numeric[a] when the column refuses a
NoHeader    == "no header"
EmptyHeader == "empty header"
MissingKey  == "missing-idempotency-key"
Keys        == Headers \cup {MissingKey}

Implementations == {"typescript", "java", "csharp", "go"}

ASSUME CheckoutAssumption ==
  /\ Impls \subseteq Implementations
  /\ NoAmount \notin Amounts
  /\ Numeric \in [Amounts -> Amounts \cup {NoAmount}]
  /\ \A a \in Amounts : Numeric[a] # NoAmount => Numeric[Numeric[a]] = Numeric[a]
  /\ Overflows \subseteq {a \in Amounts : Numeric[a] = NoAmount}

VARIABLES
  impl,     \* the deployed implementation, fixed at the start
  asks,     \* the request each caller sends, fixed at the start
  store,    \* the Redis value of idempotency:<key>
  orders,   \* the rows of the orders table, in the order they were inserted
  pc,       \* where each caller's handler stands
  result,   \* the order a handler holds, to be cached and answered
  lapsed,   \* history: a handler's claim expired while it was working
  vanished, \* history: keys whose marker or result has run out
  faulty,   \* faults may still happen
  reply     \* the last answer each caller got

vars == <<impl, asks, store, orders, pc, result, lapsed, vanished, faulty, reply>>

NoOrder  == 0           \* orders are named by their row number
NoResult == [order |-> NoOrder, amount |-> NoAmount]
NoReply  == [code |-> 0, order |-> NoOrder, amount |-> NoAmount]

Result == [order : Nat, amount : Amounts \cup {NoAmount}]
Row    == [key : Keys, amount : Amounts]
Value  == [state : {"absent", "pending", "result"}, order : Nat, amount : Amounts \cup {NoAmount}]

Absent  == [state |-> "absent", order |-> NoOrder, amount |-> NoAmount]
Pending == [state |-> "pending", order |-> NoOrder, amount |-> NoAmount]
Cached(r) == [state |-> "result", order |-> r.order, amount |-> r.amount]

\* A request without the header falls back to one fixed key.  TypeScript's ??
\* lets an empty header through as a key of its own; the others test for it.
HeaderIgnored(header) == MissingKey
EffectiveKey(header) ==
  IF header = NoHeader \/ (header = EmptyHeader /\ impl # "typescript")
  THEN MissingKey ELSE header

KeyOf(c) == EffectiveKey(asks[c].header)

Init ==
  /\ impl \in Impls
  /\ asks \in [Clients -> [header : Headers, amount : Amounts]]
  /\ store = [k \in Keys |-> Absent]
  /\ orders = <<>>
  /\ pc = [c \in Clients |-> "idle"]
  /\ result = [c \in Clients |-> NoResult]
  /\ lapsed = [c \in Clients |-> FALSE]
  /\ vanished = {}
  /\ faulty = TRUE
  /\ reply = [c \in Clients |-> NoReply]

-----------------------------------------------------------------------------
(* Steps every handler is made of.                                         *)

Goto(c, label) == pc' = [pc EXCEPT ![c] = label]

\* The handler returns and its locals are gone.
Answer(c, code, r) ==
  /\ Goto(c, "idle")
  /\ reply' = [reply EXCEPT ![c] = [code |-> code, order |-> r.order, amount |-> r.amount]]
  /\ result' = [result EXCEPT ![c] = NoResult]
  /\ lapsed' = [lapsed EXCEPT ![c] = FALSE]

Hold(c, r) ==
  /\ Goto(c, "store")
  /\ result' = [result EXCEPT ![c] = r]
  /\ UNCHANGED <<lapsed, reply>>

Set(k, value) == store' = [store EXCEPT ![k] = value]

-----------------------------------------------------------------------------
(* acquire: SET key PENDING EX 30 NX, and GET when the key was there.      *)

SetAlways(k) == TRUE
NxAllows(k) == store[k] = Absent

Begin(c) ==
  /\ pc[c] = "idle"
  /\ reply' = [reply EXCEPT ![c] = NoReply]
  /\ UNCHANGED <<impl, asks, vanished, orders, result, lapsed, faulty>>

Claim(c) ==
  /\ Begin(c)
  /\ \/ NxAllows(KeyOf(c)) /\ Set(KeyOf(c), Pending) /\ Goto(c, "insert")
     \/ ~NxAllows(KeyOf(c)) /\ Goto(c, "lookup") /\ UNCHANGED store

\* The key vanished between the SET and the GET.
\* TypeScript spreads JSON.parse(null): 200 with nothing but replayed.
NothingThereTypeScript(c) == impl = "typescript" /\ Answer(c, 200, NoResult)
\* Java and Go take it for a request in progress.
EmptyReplayJava(c) == impl = "java" /\ Answer(c, 200, NoResult)
NothingThereJava(c) == impl = "java" /\ Answer(c, 409, NoResult)
NothingThereGo(c) == impl = "go" /\ Answer(c, 409, NoResult)
\* C# hands null to the deserializer, which throws.
NothingThereCSharp(c) == impl = "csharp" /\ Answer(c, 500, NoResult)

\* 201 is the framework's answer to a POST unless the handler says otherwise.
ReplayAsCreated(c, value) ==
  Answer(c, 201, [order |-> value.order, amount |-> value.amount])
Replay(c, value) == Answer(c, 200, [order |-> value.order, amount |-> value.amount])

Lookup(c) ==
  /\ pc[c] = "lookup"
  /\ LET value == store[KeyOf(c)] IN
     \/ value.state = "pending" /\ Answer(c, 409, NoResult)
     \/ value.state = "result" /\ Replay(c, value)
     \/ /\ value.state = "absent"
        /\ \/ NothingThereTypeScript(c) \/ NothingThereJava(c)
           \/ NothingThereCSharp(c) \/ NothingThereGo(c)
  /\ UNCHANGED <<impl, asks, vanished, store, orders, faulty>>

-----------------------------------------------------------------------------
(* createOrder: one INSERT, and on a unique violation a SELECT.            *)

DuplicatesAllowed(k) == TRUE
UniqueAllows(k) == \A i \in 1 .. Len(orders) : orders[i].key # k

AmountUnchecked(c) == TRUE
Storable(c) == Numeric[asks[c].amount] # NoAmount

RowNotWritten(c) == UNCHANGED orders
InsertRow(c) ==
  orders' = Append(orders, [key |-> KeyOf(c), amount |-> Numeric[asks[c].amount]])

\* Every refusal of the database, in every implementation.
AnyRefusal(c) == ~Storable(c) \/ ~UniqueAllows(KeyOf(c))

\* What createOrder takes for a duplicate key.  Java's exception covers every
\* refusal of the database, also of an amount too large for the column; an
\* amount that is no number never gets that far.
LooksDuplicate(c) ==
  \/ Storable(c) /\ ~UniqueAllows(KeyOf(c))
  \/ impl = "java" /\ asks[c].amount \in Overflows

\* The first result echoes the amount of the body, not the column's.  An amount
\* the column refuses ends in 500 and leaves the marker where it is.
Insert(c) ==
  /\ pc[c] = "insert"
  /\ \/ /\ Storable(c) /\ UniqueAllows(KeyOf(c))
        /\ InsertRow(c)
        /\ Hold(c, [order |-> Len(orders) + 1, amount |-> asks[c].amount])
     \/ /\ LooksDuplicate(c)
        /\ Goto(c, "recover") /\ UNCHANGED <<orders, result, lapsed, reply>>
     \/ /\ ~Storable(c) /\ ~LooksDuplicate(c)
        /\ Answer(c, 500, NoResult) /\ UNCHANGED orders
  /\ UNCHANGED <<impl, asks, vanished, store, faulty>>

OwnAmount(c, row) == asks[c].amount
RecoveredAmount(c, row) == row.amount
\* C# selects the id alone and keeps the amount of its own request.
RecoveredAmountCSharp(c) == asks[c].amount

\* Java took an overflow for a duplicate, finds no row and throws after all.
NoRowJava(c) ==
  /\ impl = "java" /\ UniqueAllows(KeyOf(c))
  /\ Answer(c, 500, NoResult)

Recover(c) ==
  /\ pc[c] = "recover"
  /\ \/ \E i \in 1 .. Len(orders) :
          /\ orders[i].key = KeyOf(c)
          /\ Hold(c, [order |-> i,
                      amount |-> IF impl = "csharp" THEN RecoveredAmountCSharp(c)
                                 ELSE RecoveredAmount(c, orders[i])])
     \/ NoRowJava(c)
  /\ UNCHANGED <<impl, asks, vanished, store, orders, faulty>>

\* storeResult overwrites whatever the key holds by now.
Store(c) ==
  /\ pc[c] = "store"
  /\ Set(KeyOf(c), Cached(result[c]))
  /\ Answer(c, 201, result[c])
  /\ UNCHANGED <<impl, asks, vanished, orders, faulty>>

-----------------------------------------------------------------------------
(* A call to Redis or PostgreSQL fails, before it was applied or after.    *)

Fault(c) == faulty /\ UNCHANGED <<impl, asks, vanished, faulty>>

ClaimFails(c) ==
  /\ Fault(c) /\ pc[c] = "idle"
  /\ UNCHANGED store \/ (NxAllows(KeyOf(c)) /\ Set(KeyOf(c), Pending))
  /\ Answer(c, 500, NoResult)
  /\ UNCHANGED orders

LookupFails(c) ==
  /\ Fault(c) /\ pc[c] = "lookup" /\ impl # "go"
  /\ Answer(c, 500, NoResult)
  /\ UNCHANGED <<store, orders>>

\* Go does not tell a failed GET from an absent key.
LookupFailsGo(c) ==
  /\ Fault(c) /\ pc[c] = "lookup" /\ impl = "go"
  /\ Answer(c, 409, NoResult)
  /\ UNCHANGED <<store, orders>>

\* No implementation removes the marker on the way out.
InsertFails(c) ==
  /\ Fault(c) /\ pc[c] \in {"insert", "recover"}
  /\ \/ UNCHANGED orders
     \/ pc[c] = "insert" /\ Storable(c) /\ UniqueAllows(KeyOf(c)) /\ InsertRow(c)
  /\ Answer(c, 500, NoResult)
  /\ UNCHANGED store

StoreLost(c) ==
  /\ Fault(c) /\ pc[c] = "store"
  /\ UNCHANGED store \/ Set(KeyOf(c), Cached(result[c]))
  /\ UNCHANGED orders

StoreFails(c) == impl # "go" /\ StoreLost(c) /\ Answer(c, 500, NoResult)

\* Go does not look at the outcome of the SET.
StoreFailsGo(c) == impl = "go" /\ StoreLost(c) /\ Answer(c, 201, result[c])

\* The client libraries of TypeScript, Java and Go, all built with their default
\* options, send a command again when its connection breaks before the reply.
Resends == impl # "csharp"

\* The marker a resent SET NX finds in its way is the one it just left: its
\* owner goes on as if somebody else had the claim.
ClaimResent(c) ==
  /\ faulty /\ Resends /\ NxAllows(KeyOf(c))
  /\ Begin(c)
  /\ Set(KeyOf(c), Pending) /\ Goto(c, "lookup")

\* The result is written, and will be written once more.
StoreResent(c) ==
  /\ Fault(c) /\ Resends /\ pc[c] = "store"
  /\ Set(KeyOf(c), Cached(result[c]))
  /\ UNCHANGED <<orders, pc, result, lapsed, reply>>

-----------------------------------------------------------------------------
(* The environment.                                                        *)

Working(c) == pc[c] \in {"insert", "recover", "store"}

LapsesSeen(k) ==
  /\ vanished' = vanished \cup {k}
  /\ lapsed' = [c \in Clients |-> lapsed[c] \/ (Working(c) /\ KeyOf(c) = k)]

MarkerNeverExpires(k) == FALSE
\* PENDING lives 30 s, whether or not its owner still works.
ExpirePending(k) ==
  /\ store[k].state = "pending"
  /\ Set(k, Absent) /\ LapsesSeen(k)
  /\ UNCHANGED <<impl, asks, orders, pc, result, faulty, reply>>

\* A result lives 24 h; Redis may also lose it earlier (no volume is mounted).
ExpireResult(k) ==
  /\ store[k].state = "result" /\ faulty
  /\ Set(k, Absent) /\ LapsesSeen(k)
  /\ UNCHANGED <<impl, asks, orders, pc, result, faulty, reply>>

\* The process dies: no handler in flight answers.
Crash ==
  /\ faulty
  /\ pc' = [c \in Clients |-> "idle"]
  /\ result' = [c \in Clients |-> NoResult]
  /\ lapsed' = [c \in Clients |-> FALSE]
  /\ UNCHANGED <<impl, asks, vanished, store, orders, faulty, reply>>

\* From here on nothing fails and no result expires.
CalmDown ==
  /\ faulty /\ faulty' = FALSE
  /\ UNCHANGED <<impl, asks, vanished, store, orders, pc, result, lapsed, reply>>

-----------------------------------------------------------------------------
Progress(c) == Lookup(c) \/ Insert(c) \/ Recover(c) \/ Store(c)

Failure(c) ==
  \/ ClaimFails(c) \/ LookupFails(c) \/ LookupFailsGo(c) \/ InsertFails(c)
  \/ StoreFails(c) \/ StoreFailsGo(c) \/ ClaimResent(c) \/ StoreResent(c)

Next ==
  \/ \E c \in Clients : Claim(c) \/ Progress(c) \/ Failure(c)
  \/ \E k \in Keys : ExpirePending(k) \/ ExpireResult(k)
  \/ Crash \/ CalmDown

Spec == Init /\ [][Next]_vars

Told(c) == reply[c].order # NoOrder

(* A handler whose awaited call returned goes on; a TTL runs out; a caller  *)
(* that has not been told its order sends the request again, which is what  *)
(* an idempotency key is for.  Nobody owes a fault, a crash or a call more. *)
Fairness ==
  /\ \A c \in Clients : WF_vars(Progress(c)) /\ WF_vars(~Told(c) /\ Claim(c))
  /\ \A k \in Keys : WF_vars(ExpirePending(k))

FairSpec == Spec /\ Fairness

-----------------------------------------------------------------------------
(* What makes the service correct.                                         *)

\* Every variable has its type.
TypeOK ==
  /\ impl \in Impls
  /\ asks \in [Clients -> [header : Headers, amount : Amounts]]
  /\ store \in [Keys -> Value]
  /\ orders \in Seq(Row)
  /\ pc \in [Clients -> {"idle", "lookup", "insert", "recover", "store"}]
  /\ result \in [Clients -> Result]
  /\ lapsed \in [Clients -> BOOLEAN]
  /\ vanished \subseteq Keys
  /\ faulty \in BOOLEAN
  /\ reply \in [Clients -> [code : Nat, order : Nat, amount : Amounts \cup {NoAmount}]]

IsOrderOf(order, k) == order \in 1 .. Len(orders) /\ orders[order].key = k

\* One order per key, whatever expires, fails or is lost: the durable last
\* line of defence of the entity comment.
OneOrderPerKey ==
  \A i, j \in 1 .. Len(orders) : orders[i].key = orders[j].key => i = j

\* A result is cached only once its order is committed, and under the key the
\* order was placed with: no interleaving of a slow owner, a second owner and
\* a crash leaves a result that replays an order that does not exist.
CacheNamesTheOrder ==
  \A k \in Keys : store[k].state = "result" => IsOrderOf(store[k].order, k)

\* Two handlers work on one key at a time only after the claim of one of them
\* ran out: SET NX keeps everybody else out, however claims, results and
\* expiries follow one another.
OneLiveClaim ==
  \A c, d \in Clients :
    c # d /\ Working(c) /\ Working(d) /\ KeyOf(c) = KeyOf(d) => lapsed[c] \/ lapsed[d]

NamesItsOrder(c) == reply[c].code \in {200, 201} => IsOrderOf(reply[c].order, KeyOf(c))

\* A caller answered 201 or 200 is told the order committed under its key; in
\* TypeScript this leaves out the replay of a key that vanished.
SuccessNamesTheOrder ==
  \A c \in Clients : impl # "typescript" \/ reply[c].code = 201 => NamesItsOrder(c)

\* A replay returns a finished result, in every implementation.
EverySuccessNamesTheOrder == \A c \in Clients : NamesItsOrder(c)

Created(c) == reply[c].code = 201

\* Two callers are both told 201, that they created the order of their key, only
\* after the key has run out in Redis: no race, crash, failed call or command
\* that is sent twice makes a second caller the creator.
CreatedOnce ==
  \A c, d \in Clients :
    c # d /\ Created(c) /\ Created(d) /\ KeyOf(c) = KeyOf(d) => KeyOf(c) \in vanished

AmountAgrees(c) ==
  Told(c) => Numeric[reply[c].amount] = orders[reply[c].order].amount

\* The amount a caller is told, first or replayed, is worth what the order
\* was placed with, also when callers with different amounts share a key.  C#
\* keeps that as long as the key lives in Redis: only after it ran out somebody
\* collides with the row and is told his own amount (RecoveredAmountCSharp).
AmountsAgree ==
  \A c \in Clients : impl # "csharp" \/ KeyOf(c) \notin vanished => AmountAgrees(c)

Keyless(c) ==
  \/ asks[c].header \in {NoHeader, MissingKey}
  \/ asks[c].header = EmptyHeader /\ impl # "typescript"

SentSameKey(c, d) == asks[c].header = asks[d].header \/ (Keyless(c) /\ Keyless(d))

\* Two callers are told one order exactly when they sent one key.  All who sent
\* none share the fixed key, and its order, for as long as the row lives; nobody
\* who sent a key is ever told that order or an order of somebody else's key.
CallersAgree ==
  \A c, d \in Clients : Told(c) /\ Told(d) =>
    (SentSameKey(c, d) <=> reply[c].order = reply[d].order)

\* A handler that looks for the order it collided with finds one: the SELECT
\* that must not fail (findOneByOrFail) does not, however the row got there and
\* whoever died since.  Java also looks after an overflow.
RecoveryFindsTheOrder ==
  \A c \in Clients : pc[c] = "recover" =>
    \/ \E order \in 1 .. Len(orders) : IsOrderOf(order, KeyOf(c))
    \/ impl = "java" /\ asks[c].amount \in Overflows

\* Once a key has a result it is forgotten or kept, never changed into
\* another order's: a late storeResult overwrites it with the same order.
CacheKeepsItsOrder ==
  [][\A k \in Keys : store[k].state = "result" =>
       store'[k].state = "absent" \/ store'[k].order = store[k].order]_vars

\* Once faults stop, every caller that keeps asking is told its order: no
\* marker left by a crash or an error blocks its key for ever.
EveryCallerServed == \A c \in Clients : ~faulty ~> Told(c)

\* Seen from outside, the service implements IdempotentOrders.
OrderUnder(k) ==
  IF \E i \in 1 .. Len(orders) : orders[i].key = k
  THEN CHOOSE i \in 1 .. Len(orders) : orders[i].key = k
  ELSE NoOrder

Promise == INSTANCE IdempotentOrders WITH
  Callers <- Clients,
  keyOf <- [c \in Clients |-> KeyOf(c)],
  last <- Len(orders),
  placed <- [k \in Keys |-> OrderUnder(k)],
  told <- [c \in Clients |-> reply[c].order]

AnswersAreIdempotent == Promise!Spec
=============================================================================
