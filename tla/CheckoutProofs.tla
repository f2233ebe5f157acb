--------------------------- MODULE CheckoutProofs ---------------------------
(***************************************************************************)
(* Theorems about Checkout, for every set of callers, headers and amounts, *)
(* every choice of implementations and any number of faults.               *)
(***************************************************************************)
EXTENDS Checkout, TLAPS

USE CheckoutAssumption

-----------------------------------------------------------------------------
(* Types.                                                                  *)

LEMMA KeyType ==
  ASSUME TypeOK, NEW c \in Clients
  PROVE  KeyOf(c) \in Keys
  BY DEF TypeOK, KeyOf, EffectiveKey, Keys

LEMMA ValueTypes ==
  /\ Absent \in Value /\ Pending \in Value /\ NoResult \in Result
  /\ \A r \in Result : Cached(r) \in Value /\ Cached(r).state = "result" /\ Cached(r).order = r.order
  BY DEF Absent, Pending, NoResult, Cached, Value, Result, NoOrder

LEMMA AnswerType ==
  ASSUME TypeOK, NEW c \in Clients, NEW code \in Nat, NEW r \in Result, Answer(c, code, r)
  PROVE  /\ pc' \in [Clients -> {"idle", "lookup", "insert", "recover", "store"}]
         /\ result' \in [Clients -> Result]
         /\ lapsed' \in [Clients -> BOOLEAN]
         /\ reply' \in [Clients -> [code : Nat, order : Nat, amount : Amounts \cup {NoAmount}]]
  BY ValueTypes DEF TypeOK, Answer, Goto, Result

LEMMA InitType == Init => TypeOK
  BY ValueTypes DEF Init, TypeOK, NoReply, NoOrder

LEMMA ClaimType ==
  ASSUME TypeOK, NEW c \in Clients, Claim(c) \/ ClaimResent(c)
  PROVE  TypeOK'
<1>1. /\ Begin(c)
      /\ UNCHANGED store \/ Set(KeyOf(c), Pending)
      /\ Goto(c, "insert") \/ Goto(c, "lookup")
  BY DEF Claim, ClaimResent
<1>2. store' \in [Keys -> Value]
  BY <1>1, KeyType, ValueTypes DEF TypeOK, Set
<1>3. pc' \in [Clients -> {"idle", "lookup", "insert", "recover", "store"}]
  BY <1>1 DEF TypeOK, Goto
<1>4. reply' \in [Clients -> [code : Nat, order : Nat, amount : Amounts \cup {NoAmount}]]
  BY <1>1 DEF TypeOK, Begin, NoReply, NoOrder
<1>5. QED  BY <1>1, <1>2, <1>3, <1>4 DEF TypeOK, Begin

LEMMA LookupType ==
  ASSUME TypeOK, NEW c \in Clients, Lookup(c) \/ LookupFails(c) \/ LookupFailsGo(c)
  PROVE  TypeOK'
<1>1. KeyOf(c) \in Keys /\ store[KeyOf(c)] \in Value
  BY KeyType DEF TypeOK
<1>2. /\ UNCHANGED <<impl, asks, vanished, store, orders, faulty>>
      /\ \E code \in Nat, r \in Result : Answer(c, code, r)
  <2>1. [order |-> store[KeyOf(c)].order, amount |-> store[KeyOf(c)].amount] \in Result
    BY <1>1 DEF Value, Result
  <2>2. CASE Lookup(c)
    <3>1. \/ Answer(c, 409, NoResult) \/ Replay(c, store[KeyOf(c)])
          \/ Answer(c, 200, NoResult) \/ Answer(c, 500, NoResult)
      BY <2>2 DEF Lookup, NothingThereTypeScript, NothingThereJava, NothingThereCSharp,
         NothingThereGo
    <3>2. 200 \in Nat /\ 409 \in Nat /\ 500 \in Nat
      OBVIOUS
    <3>3. QED  BY <2>1, <2>2, <3>1, <3>2, ValueTypes DEF Lookup, Replay
  <2>3. CASE LookupFails(c) \/ LookupFailsGo(c)
    <3>1. Answer(c, 500, NoResult) \/ Answer(c, 409, NoResult)
      BY <2>3 DEF LookupFails, LookupFailsGo
    <3>2. 409 \in Nat /\ 500 \in Nat
      OBVIOUS
    <3>3. QED  BY <2>3, <3>1, <3>2, ValueTypes DEF LookupFails, LookupFailsGo, Fault
  <2>4. QED  BY <2>2, <2>3
<1>3. QED  BY <1>2, AnswerType DEF TypeOK

LEMMA InsertRowType ==
  ASSUME TypeOK, NEW c \in Clients, Storable(c), InsertRow(c)
  PROVE  orders' \in Seq(Row)
<1>1. Numeric[asks[c].amount] \in Amounts
  BY DEF TypeOK, Storable
<1>2. [key |-> KeyOf(c), amount |-> Numeric[asks[c].amount]] \in Row
  BY <1>1, KeyType DEF Row
<1>3. QED  BY <1>2 DEF TypeOK, InsertRow

LEMMA HoldType ==
  ASSUME TypeOK, NEW c \in Clients, NEW r \in Result, Hold(c, r)
  PROVE  /\ pc' \in [Clients -> {"idle", "lookup", "insert", "recover", "store"}]
         /\ result' \in [Clients -> Result]
         /\ UNCHANGED <<lapsed, reply>>
  BY DEF TypeOK, Hold, Goto

LEMMA InsertType ==
  ASSUME TypeOK, NEW c \in Clients, Insert(c) \/ InsertFails(c)
  PROVE  TypeOK'
<1>0. 500 \in Nat /\ NoResult \in Result
  BY ValueTypes
<1>1. CASE Insert(c)
  <2>1. CASE /\ Storable(c) /\ InsertRow(c)
             /\ Hold(c, [order |-> Len(orders) + 1, amount |-> asks[c].amount])
    <3>1. [order |-> Len(orders) + 1, amount |-> asks[c].amount] \in Result
      BY DEF TypeOK, Result
    <3>2. QED  BY <1>1, <2>1, <3>1, HoldType, InsertRowType DEF Insert, TypeOK
  <2>2. CASE Goto(c, "recover") /\ UNCHANGED <<orders, result, lapsed, reply>>
    BY <1>1, <2>2 DEF Insert, TypeOK, Goto
  <2>3. CASE Answer(c, 500, NoResult) /\ UNCHANGED orders
    <3>1. UNCHANGED <<impl, asks, vanished, store, faulty>>
      BY <1>1 DEF Insert
    <3>2. QED  BY <1>0, <2>3, <3>1, AnswerType DEF TypeOK
  <2>4. QED  BY <1>1, <2>1, <2>2, <2>3 DEF Insert
<1>2. CASE InsertFails(c)
  <2>1. orders' \in Seq(Row)
    BY <1>2, InsertRowType DEF InsertFails, TypeOK
  <2>2. Answer(c, 500, NoResult) /\ UNCHANGED <<impl, asks, vanished, store, faulty>>
    BY <1>2 DEF InsertFails, Fault
  <2>3. QED  BY <1>0, <2>1, <2>2, AnswerType DEF TypeOK
<1>3. QED  BY <1>1, <1>2

LEMMA RecoverType ==
  ASSUME TypeOK, NEW c \in Clients, Recover(c)
  PROVE  TypeOK'
<1>1. orders \in Seq(Row) /\ asks[c].amount \in Amounts /\ 500 \in Nat
  BY DEF TypeOK
<1>2. CASE NoRowJava(c)
  BY <1>1, <1>2, ValueTypes, AnswerType DEF Recover, NoRowJava, TypeOK
<1> SUFFICES ASSUME ~NoRowJava(c) PROVE TypeOK'
  BY <1>2
<1>3. PICK i \in 1 .. Len(orders) :
        Hold(c, [order |-> i, amount |-> IF impl = "csharp" THEN RecoveredAmountCSharp(c)
                                         ELSE RecoveredAmount(c, orders[i])])
  BY DEF Recover
<1>4. i \in Nat /\ orders[i].amount \in Amounts
  <2>1. i \in 1 .. Len(orders)
    OBVIOUS
  <2>2. orders[i] \in Row
    BY <1>1, <2>1
  <2>3. QED  BY <1>1, <2>1, <2>2 DEF Row
<1>5. [order |-> i, amount |-> IF impl = "csharp" THEN RecoveredAmountCSharp(c)
                               ELSE RecoveredAmount(c, orders[i])] \in Result
  BY <1>1, <1>4 DEF Result, RecoveredAmount, RecoveredAmountCSharp
<1>6. QED  BY <1>3, <1>5, HoldType DEF Recover, TypeOK

LEMMA StoreType ==
  ASSUME TypeOK, NEW c \in Clients,
         Store(c) \/ StoreFails(c) \/ StoreFailsGo(c) \/ StoreResent(c) \/ ClaimFails(c)
  PROVE  TypeOK'
<1>1. KeyOf(c) \in Keys /\ result[c] \in Result /\ Cached(result[c]) \in Value
  BY KeyType, ValueTypes DEF TypeOK
<1>2. 201 \in Nat /\ 500 \in Nat /\ NoResult \in Result
  BY ValueTypes
<1>3. /\ store' \in [Keys -> Value]
      /\ UNCHANGED <<impl, asks, vanished, orders, faulty>>
  <2>1. UNCHANGED store \/ Set(KeyOf(c), Pending) \/ Set(KeyOf(c), Cached(result[c]))
    BY DEF Store, StoreFails, StoreFailsGo, StoreLost, StoreResent, ClaimFails
  <2>2. store' \in [Keys -> Value]
    BY <1>1, <2>1, ValueTypes DEF TypeOK, Set
  <2>3. UNCHANGED <<impl, asks, vanished, orders, faulty>>
    BY DEF Store, StoreFails, StoreFailsGo, StoreLost, StoreResent, ClaimFails, Fault
  <2>4. QED  BY <2>2, <2>3
<1>4. \/ Answer(c, 201, result[c]) \/ Answer(c, 500, NoResult)
      \/ UNCHANGED <<pc, result, lapsed, reply>>
  BY DEF Store, StoreFails, StoreFailsGo, StoreResent, ClaimFails
<1>5. CASE UNCHANGED <<pc, result, lapsed, reply>>
  BY <1>3, <1>5 DEF TypeOK
<1>6. CASE Answer(c, 201, result[c]) \/ Answer(c, 500, NoResult)
  BY <1>1, <1>2, <1>3, <1>6, AnswerType DEF TypeOK
<1>7. QED  BY <1>4, <1>5, <1>6

LEMMA EnvironmentType ==
  ASSUME TypeOK,
         (\E k \in Keys : ExpirePending(k) \/ ExpireResult(k)) \/ Crash \/ CalmDown \/ UNCHANGED vars
  PROVE  TypeOK'
<1>1. ASSUME NEW k \in Keys, ExpirePending(k) \/ ExpireResult(k)
      PROVE  TypeOK'
  <2>1. Set(k, Absent) /\ LapsesSeen(k) /\ UNCHANGED <<impl, asks, orders, pc, result, faulty, reply>>
    BY <1>1 DEF ExpirePending, ExpireResult
  <2>2. store' \in [Keys -> Value] /\ lapsed' \in [Clients -> BOOLEAN]
    BY <2>1, ValueTypes DEF TypeOK, Set, LapsesSeen
  <2>3. vanished' \subseteq Keys
    BY <2>1 DEF TypeOK, LapsesSeen
  <2>4. QED  BY <2>1, <2>2, <2>3 DEF TypeOK
<1>2. CASE Crash  BY <1>2, ValueTypes DEF TypeOK, Crash
<1>3. CASE CalmDown  BY <1>3 DEF TypeOK, CalmDown
<1>4. CASE UNCHANGED vars  BY <1>4 DEF TypeOK, vars
<1>5. QED  BY <1>1, <1>2, <1>3, <1>4

LEMMA NextType == TypeOK /\ [Next]_vars => TypeOK'
<1> SUFFICES ASSUME TypeOK, [Next]_vars PROVE TypeOK'
  OBVIOUS
<1>1. ASSUME NEW c \in Clients, Claim(c) \/ Progress(c) \/ Failure(c)
      PROVE  TypeOK'
  BY <1>1, ClaimType, LookupType, InsertType, RecoverType, StoreType DEF Progress, Failure
<1>2. QED  BY <1>1, EnvironmentType DEF Next

\* Every variable keeps its type; in particular no amount that the column
\* refuses reaches the table.
THEOREM TypeCorrect == Spec => []TypeOK
  BY InitType, NextType, PTL DEF Spec

-----------------------------------------------------------------------------
(* What a step does to the table, the cache, the orders held and the       *)
(* answers given.  The invariants below only need these effects.           *)

OrdersEffect ==
  \/ UNCHANGED orders
  \/ \E c \in Clients : Storable(c) /\ UniqueAllows(KeyOf(c)) /\ InsertRow(c)

StoreEffect ==
  \A k \in Keys :
    \/ store'[k] \in {store[k], Absent}
    \/ NxAllows(k) /\ store'[k] = Pending
    \/ \E c \in Clients : pc[c] = "store" /\ KeyOf(c) = k /\ store'[k] = Cached(result[c])

\* A handler comes to hold an order by inserting its row or by finding it.
HoldsNew(c) ==
  /\ orders' = Append(orders, [key |-> KeyOf(c), amount |-> Numeric[asks[c].amount]])
  /\ result'[c] = [order |-> Len(orders) + 1, amount |-> asks[c].amount]
  /\ Storable(c)

HoldsFound(c) ==
  /\ pc[c] = "recover" /\ UNCHANGED orders
  /\ IsOrderOf(result'[c].order, KeyOf(c))
  /\ impl # "csharp" => result'[c].amount = orders[result'[c].order].amount

HoldEffect ==
  \A c \in Clients : pc'[c] = "store" =>
    \/ pc[c] = "store" /\ result'[c] = result[c]
    \/ HoldsNew(c) \/ HoldsFound(c)

Tells(c, r) ==
  /\ reply'[c].code \in {200, 201}
  /\ reply'[c].order = r.order /\ reply'[c].amount = r.amount
  /\ UNCHANGED orders

TellsNothing(c) ==
  /\ reply'[c].order = NoOrder
  /\ reply'[c].code # 201
  /\ reply'[c].code = 200 => impl = "typescript"

ReplyEffect ==
  \A c \in Clients :
    \/ reply'[c] = reply[c]
    \/ TellsNothing(c)
    \/ store[KeyOf(c)].state = "result" /\ Tells(c, store[KeyOf(c)])
    \/ pc[c] = "store" /\ Tells(c, result[c])

Effects ==
  /\ UNCHANGED <<impl, asks>>
  /\ OrdersEffect /\ StoreEffect /\ HoldEffect /\ ReplyEffect

\* A handler that answers without an order.
LEMMA AnswerEffect ==
  ASSUME TypeOK, NEW c \in Clients, NEW code, Answer(c, code, NoResult),
         code # 201, code = 200 => impl = "typescript"
  PROVE  HoldEffect /\ ReplyEffect
<1>1. \A d \in Clients \ {c} : UNCHANGED <<pc[d], result[d], reply[d]>>
  BY DEF TypeOK, Answer, Goto
<1>2. pc'[c] = "idle" /\ TellsNothing(c)
  BY DEF TypeOK, Answer, Goto, TellsNothing, NoResult
<1>3. QED  BY <1>1, <1>2 DEF HoldEffect, ReplyEffect

LEMMA TellEffect ==
  ASSUME TypeOK, NEW c \in Clients, NEW code \in {200, 201}, NEW r, UNCHANGED orders,
         \/ pc[c] = "store" /\ r = result[c] /\ Answer(c, code, r)
         \/ store[KeyOf(c)].state = "result" /\ r = store[KeyOf(c)] /\ Answer(c, code, r)
  PROVE  HoldEffect /\ ReplyEffect
<1>1. \A d \in Clients \ {c} : UNCHANGED <<pc[d], result[d], reply[d]>>
  BY DEF TypeOK, Answer, Goto
<1>2. pc'[c] = "idle" /\ Tells(c, r)
  BY DEF TypeOK, Answer, Goto, Tells
<1>3. QED  BY <1>1, <1>2 DEF HoldEffect, ReplyEffect

LEMMA ClaimEffects ==
  ASSUME TypeOK, NEW c \in Clients, Claim(c) \/ ClaimResent(c) \/ ClaimFails(c)
  PROVE  Effects
<1>1. StoreEffect
  BY KeyType DEF Claim, ClaimResent, ClaimFails, Set, TypeOK, StoreEffect
<1>2. CASE Claim(c) \/ ClaimResent(c)
  <2>0. Begin(c) /\ (Goto(c, "insert") \/ Goto(c, "lookup"))
    BY <1>2 DEF Claim, ClaimResent
  <2>1. \A d \in Clients \ {c} : UNCHANGED <<pc[d], result[d], reply[d]>>
    BY <2>0 DEF Begin, Goto, TypeOK
  <2>2. pc'[c] # "store" /\ TellsNothing(c)
    BY <2>0 DEF Begin, Goto, TypeOK, TellsNothing, NoReply
  <2>3. UNCHANGED <<impl, asks, orders>>
    BY <2>0 DEF Begin
  <2>4. QED  BY <1>1, <2>1, <2>2, <2>3 DEF Effects, OrdersEffect, HoldEffect, ReplyEffect
<1>3. CASE ClaimFails(c)
  <2>1. Answer(c, 500, NoResult) /\ UNCHANGED <<impl, asks, orders>>
    BY <1>3 DEF ClaimFails, Fault
  <2>2. QED  BY <1>1, <2>1, AnswerEffect DEF Effects, OrdersEffect
<1>4. QED  BY <1>2, <1>3

LEMMA LookupEffects ==
  ASSUME TypeOK, NEW c \in Clients, Lookup(c) \/ LookupFails(c) \/ LookupFailsGo(c)
  PROVE  Effects
<1>1. UNCHANGED <<impl, asks, store, orders>>
  BY DEF Lookup, LookupFails, LookupFailsGo, Fault
<1>2. HoldEffect /\ ReplyEffect
  <2>1. CASE Answer(c, 409, NoResult) \/ Answer(c, 500, NoResult)
             \/ (impl = "typescript" /\ Answer(c, 200, NoResult))
    BY <2>1, AnswerEffect
  <2>2. CASE store[KeyOf(c)].state = "result" /\ Replay(c, store[KeyOf(c)])
    <3>1. Answer(c, 200, store[KeyOf(c)])
      BY <2>2 DEF Replay, Answer
    <3>2. QED  BY <1>1, <2>2, <3>1, TellEffect
  <2>3. QED
    BY <2>1, <2>2 DEF Lookup, LookupFails, LookupFailsGo, NothingThereTypeScript,
       NothingThereJava, NothingThereCSharp, NothingThereGo
<1>3. QED  BY <1>1, <1>2 DEF Effects, OrdersEffect, StoreEffect

LEMMA InsertEffects ==
  ASSUME TypeOK, NEW c \in Clients, Insert(c) \/ InsertFails(c)
  PROVE  Effects
<1>1. UNCHANGED <<impl, asks, store>> /\ StoreEffect /\ OrdersEffect
  BY DEF Insert, InsertFails, Fault, StoreEffect, OrdersEffect
<1>2. HoldEffect /\ ReplyEffect
  <2>1. CASE Answer(c, 500, NoResult)
    BY <2>1, AnswerEffect
  <2>2. CASE Goto(c, "recover") /\ UNCHANGED <<result, reply>>
    BY <2>2 DEF Goto, TypeOK, HoldEffect, ReplyEffect
  <2>3. CASE /\ Storable(c) /\ InsertRow(c)
             /\ Hold(c, [order |-> Len(orders) + 1, amount |-> asks[c].amount])
    <3>1. \A d \in Clients \ {c} : UNCHANGED <<pc[d], result[d], reply[d]>>
      BY <2>3 DEF Hold, Goto, TypeOK
    <3>2. HoldsNew(c) /\ reply' = reply
      BY <2>3 DEF Hold, TypeOK, HoldsNew, InsertRow
    <3>3. QED  BY <3>1, <3>2 DEF HoldEffect, ReplyEffect
  <2>4. QED  BY <2>1, <2>2, <2>3 DEF Insert, InsertFails
<1>3. QED  BY <1>1, <1>2 DEF Effects

LEMMA RecoverEffects ==
  ASSUME TypeOK, NEW c \in Clients, Recover(c)
  PROVE  Effects
<1>1. UNCHANGED <<impl, asks, store, orders>>
  BY DEF Recover
<1>2. CASE NoRowJava(c)
  BY <1>1, <1>2, AnswerEffect DEF NoRowJava, Effects, OrdersEffect, StoreEffect
<1> SUFFICES ASSUME ~NoRowJava(c) PROVE Effects
  BY <1>2
<1>3. PICK i \in 1 .. Len(orders) :
        /\ orders[i].key = KeyOf(c)
        /\ Hold(c, [order |-> i, amount |-> IF impl = "csharp" THEN RecoveredAmountCSharp(c)
                                            ELSE RecoveredAmount(c, orders[i])])
  BY DEF Recover
<1>4. /\ \A d \in Clients \ {c} : UNCHANGED <<pc[d], result[d], reply[d]>>
      /\ UNCHANGED reply
      /\ result'[c].order = i
      /\ impl # "csharp" => result'[c].amount = orders[i].amount
  BY <1>3 DEF Hold, Goto, TypeOK, RecoveredAmount
<1>5. HoldsFound(c)
  BY <1>1, <1>3, <1>4 DEF Recover, HoldsFound, IsOrderOf
<1>6. QED  BY <1>1, <1>4, <1>5 DEF Effects, OrdersEffect, StoreEffect, HoldEffect, ReplyEffect

LEMMA StoreEffects ==
  ASSUME TypeOK, NEW c \in Clients,
         Store(c) \/ StoreFails(c) \/ StoreFailsGo(c) \/ StoreResent(c)
  PROVE  Effects
<1>1. pc[c] = "store" /\ UNCHANGED <<impl, asks, orders>>
  BY DEF Store, StoreFails, StoreFailsGo, StoreLost, StoreResent, Fault
<1>2. UNCHANGED store \/ Set(KeyOf(c), Cached(result[c]))
  BY DEF Store, StoreFails, StoreFailsGo, StoreLost, StoreResent
<1>3. StoreEffect
  BY <1>1, <1>2, KeyType DEF Set, TypeOK, StoreEffect
<1>4. \/ Answer(c, 500, NoResult) \/ Answer(c, 201, result[c])
      \/ UNCHANGED <<pc, result, reply>>
  BY DEF Store, StoreFails, StoreFailsGo, StoreResent
<1>5. HoldEffect /\ ReplyEffect
  <2>1. CASE UNCHANGED <<pc, result, reply>>
    BY <2>1 DEF HoldEffect, ReplyEffect
  <2>2. QED  BY <1>1, <1>4, <2>1, AnswerEffect, TellEffect
<1>6. QED  BY <1>1, <1>3, <1>5 DEF Effects, OrdersEffect

LEMMA EnvironmentEffects ==
  ASSUME TypeOK,
         (\E k \in Keys : ExpirePending(k) \/ ExpireResult(k)) \/ Crash \/ CalmDown \/ UNCHANGED vars
  PROVE  Effects
<1> USE DEF Effects, OrdersEffect, StoreEffect, HoldEffect, ReplyEffect, TypeOK
<1>1. ASSUME NEW k \in Keys, ExpirePending(k) \/ ExpireResult(k)
      PROVE  Effects
  BY <1>1 DEF ExpirePending, ExpireResult, Set
<1>2. CASE Crash  BY <1>2 DEF Crash
<1>3. CASE CalmDown  BY <1>3 DEF CalmDown
<1>4. CASE UNCHANGED vars  BY <1>4 DEF vars
<1>5. QED  BY <1>1, <1>2, <1>3, <1>4

LEMMA StepEffects == TypeOK /\ [Next]_vars => Effects
<1> SUFFICES ASSUME TypeOK, [Next]_vars PROVE Effects
  OBVIOUS
<1>1. ASSUME NEW c \in Clients, Claim(c) \/ Progress(c) \/ Failure(c)
      PROVE  Effects
  BY <1>1, ClaimEffects, LookupEffects, InsertEffects, RecoverEffects, StoreEffects
  DEF Progress, Failure
<1>2. QED  BY <1>1, EnvironmentEffects DEF Next

-----------------------------------------------------------------------------
(* The inductive invariant: whatever is held, cached or told is an order   *)
(* committed under the key it is held, cached or told for.                 *)

HeldIsOrder == \A c \in Clients : pc[c] = "store" => IsOrderOf(result[c].order, KeyOf(c))

ToldIsOrder == \A c \in Clients : Told(c) => IsOrderOf(reply[c].order, KeyOf(c))

SuccessTells ==
  \A c \in Clients : reply[c].code = 201 \/ (reply[c].code = 200 /\ impl # "typescript") => Told(c)

IInv ==
  /\ TypeOK
  /\ OneOrderPerKey
  /\ HeldIsOrder
  /\ CacheNamesTheOrder
  /\ ToldIsOrder
  /\ SuccessTells

LEMMA InitIInv == Init => IInv
<1> SUFFICES ASSUME Init PROVE IInv
  OBVIOUS
<1>1. TypeOK  BY InitType
<1>2. OneOrderPerKey  BY DEF Init, OneOrderPerKey
<1>3. HeldIsOrder /\ CacheNamesTheOrder /\ ToldIsOrder /\ SuccessTells
  BY DEF Init, HeldIsOrder, CacheNamesTheOrder, ToldIsOrder, SuccessTells, Told, NoReply, Absent
<1>4. QED  BY <1>1, <1>2, <1>3 DEF IInv

\* Rows are only appended: an order keeps its key and its amount, and a new
\* one gets the next number.
LEMMA OrdersStay ==
  ASSUME TypeOK, Effects
  PROVE  /\ \A c \in Clients : UNCHANGED KeyOf(c)
         /\ \A order, k : IsOrderOf(order, k) => IsOrderOf(order, k)' /\ UNCHANGED orders[order]
<1>1. \A c \in Clients : UNCHANGED KeyOf(c)
  BY DEF Effects, KeyOf, EffectiveKey
<1>2. CASE UNCHANGED orders
  BY <1>1, <1>2 DEF IsOrderOf
<1>3. ASSUME NEW c \in Clients, InsertRow(c)
      PROVE  \A order, k : IsOrderOf(order, k) => IsOrderOf(order, k)' /\ UNCHANGED orders[order]
  <2>1. orders \in Seq(Row)
    BY DEF TypeOK
  <2>2. /\ Len(orders') = Len(orders) + 1 /\ Len(orders) \in Nat
        /\ \A i \in 1 .. Len(orders) : orders'[i] = orders[i]
    BY <1>3, <2>1 DEF InsertRow
  <2>3. QED  BY <2>2 DEF IsOrderOf
<1>4. QED  BY <1>1, <1>2, <1>3 DEF Effects, OrdersEffect

\* The UNIQUE constraint carries over every step, and what a handler newly
\* holds is an order of its key.
LEMMA NextOneOrder ==
  ASSUME TypeOK, OneOrderPerKey, Effects
  PROVE  OneOrderPerKey'
<1>1. CASE UNCHANGED orders
  BY <1>1 DEF OneOrderPerKey
<1>2. ASSUME NEW c \in Clients, UniqueAllows(KeyOf(c)), InsertRow(c)
      PROVE  OneOrderPerKey'
  <2>1. orders \in Seq(Row)
    BY DEF TypeOK
  <2>2. /\ Len(orders') = Len(orders) + 1 /\ Len(orders) \in Nat
        /\ \A i \in 1 .. Len(orders) : orders'[i] = orders[i] /\ orders'[i].key # KeyOf(c)
        /\ orders'[Len(orders) + 1].key = KeyOf(c)
    BY <1>2, <2>1 DEF InsertRow, UniqueAllows
  <2>3. QED  BY <2>2 DEF OneOrderPerKey
<1>3. QED  BY <1>1, <1>2 DEF Effects, OrdersEffect

LEMMA NewlyHeld ==
  ASSUME TypeOK, Effects, NEW c \in Clients, HoldsNew(c) \/ HoldsFound(c)
  PROVE  IsOrderOf(result[c].order, KeyOf(c))'
<1>1. CASE HoldsNew(c)
  <2>1. orders \in Seq(Row)
    BY DEF TypeOK
  <2>2. /\ Len(orders') = Len(orders) + 1 /\ Len(orders) \in Nat
        /\ orders'[Len(orders) + 1].key = KeyOf(c)
        /\ result'[c].order = Len(orders) + 1
    BY <1>1, <2>1 DEF HoldsNew
  <2>3. QED  BY <2>2, OrdersStay DEF IsOrderOf
<1>2. CASE HoldsFound(c)
  BY <1>2, OrdersStay DEF HoldsFound, IsOrderOf
<1>3. QED  BY <1>1, <1>2

LEMMA NextIInv == IInv /\ [Next]_vars => IInv'
<1> SUFFICES ASSUME IInv, [Next]_vars PROVE IInv'
  OBVIOUS
<1>1. TypeOK /\ Effects /\ TypeOK'
  BY StepEffects, NextType DEF IInv
<1>2. OneOrderPerKey'
  BY <1>1, NextOneOrder DEF IInv
<1>3. HeldIsOrder'
  <2> SUFFICES ASSUME NEW c \in Clients, pc'[c] = "store"
               PROVE  IsOrderOf(result[c].order, KeyOf(c))'
    BY DEF HeldIsOrder
  <2>1. CASE pc[c] = "store" /\ result'[c] = result[c]
    <3>1. IsOrderOf(result[c].order, KeyOf(c))
      BY <2>1 DEF IInv, HeldIsOrder
    <3>2. QED  BY <1>1, <2>1, <3>1, OrdersStay DEF IsOrderOf
  <2>2. CASE HoldsNew(c) \/ HoldsFound(c)
    BY <1>1, <2>2, NewlyHeld
  <2>3. QED  BY <1>1, <2>1, <2>2 DEF Effects, HoldEffect
<1>4. CacheNamesTheOrder'
  <2> SUFFICES ASSUME NEW k \in Keys, store'[k].state = "result"
               PROVE  IsOrderOf(store[k].order, k)'
    BY DEF CacheNamesTheOrder
  <2>1. CASE store'[k] = store[k]
    BY <1>1, <2>1, OrdersStay DEF IInv, CacheNamesTheOrder
  <2>2. ASSUME NEW c \in Clients, pc[c] = "store", KeyOf(c) = k, store'[k] = Cached(result[c])
        PROVE  IsOrderOf(store[k].order, k)'
    <3>1. IsOrderOf(store'[k].order, k)
      BY <2>2 DEF IInv, HeldIsOrder, Cached
    <3>2. QED  BY <1>1, <3>1, OrdersStay
  <2>3. store'[k] # Absent /\ store'[k] # Pending
    BY DEF Absent, Pending
  <2>4. QED  BY <1>1, <2>1, <2>2, <2>3 DEF Effects, StoreEffect
<1>5. ASSUME NEW c \in Clients
      PROVE  /\ Told(c)' => IsOrderOf(reply[c].order, KeyOf(c))'
             /\ reply'[c].code = 201 \/ (reply'[c].code = 200 /\ impl' # "typescript") => Told(c)'
  <2>0. UNCHANGED impl /\ UNCHANGED KeyOf(c) /\ KeyOf(c) \in Keys
    BY <1>1, OrdersStay, KeyType DEF Effects
  <2>1. CASE reply'[c] = reply[c]
    <3>1. /\ Told(c) => IsOrderOf(reply[c].order, KeyOf(c))
          /\ reply[c].code = 201 \/ (reply[c].code = 200 /\ impl # "typescript") => Told(c)
      BY DEF IInv, ToldIsOrder, SuccessTells
    <3>2. Told(c)' <=> Told(c)
      BY <2>1 DEF Told
    <3>3. Told(c)' => IsOrderOf(reply[c].order, KeyOf(c))'
      BY <1>1, <2>0, <2>1, <3>1, <3>2, OrdersStay DEF IsOrderOf
    <3>4. QED  BY <2>0, <2>1, <3>1, <3>2, <3>3
  <2>2. CASE TellsNothing(c)
    BY <2>0, <2>2 DEF TellsNothing, Told
  <2>3. ASSUME NEW r, Tells(c, r), IsOrderOf(r.order, KeyOf(c))
        PROVE  IsOrderOf(reply[c].order, KeyOf(c))' /\ Told(c)'
    <3>1. IsOrderOf(reply[c].order, KeyOf(c))'
      BY <2>0, <2>3 DEF Tells, IsOrderOf
    <3>2. reply'[c].order # NoOrder
      BY <2>3 DEF Tells, IsOrderOf, NoOrder
    <3>3. QED  BY <3>1, <3>2 DEF Told
  <2>4. CASE store[KeyOf(c)].state = "result" /\ Tells(c, store[KeyOf(c)])
    BY <2>0, <2>3, <2>4 DEF IInv, CacheNamesTheOrder
  <2>5. CASE pc[c] = "store" /\ Tells(c, result[c])
    BY <2>3, <2>5 DEF IInv, HeldIsOrder
  <2>6. QED  BY <1>1, <2>1, <2>2, <2>4, <2>5 DEF Effects, ReplyEffect
<1>6. ToldIsOrder' /\ SuccessTells'
  BY <1>5 DEF ToldIsOrder, SuccessTells
<1>7. QED  BY <1>1, <1>2, <1>3, <1>4, <1>6 DEF IInv

LEMMA AlwaysIInv == Spec => []IInv
  BY InitIInv, NextIInv, PTL DEF Spec

\* No key ever gets a second order.
THEOREM OneOrder == Spec => []OneOrderPerKey
<1>1. IInv => OneOrderPerKey  BY DEF IInv
<1>2. QED  BY <1>1, AlwaysIInv, PTL

\* A cached result names the order committed under its key.
THEOREM CacheSound == Spec => []CacheNamesTheOrder
<1>1. IInv => CacheNamesTheOrder  BY DEF IInv
<1>2. QED  BY <1>1, AlwaysIInv, PTL

\* A caller told 201 or 200 was told the order committed under its key, save
\* for TypeScript's replay of a key that vanished.
THEOREM SuccessSound == Spec => []SuccessNamesTheOrder
<1>1. IInv => SuccessNamesTheOrder
  BY DEF IInv, ToldIsOrder, SuccessTells, SuccessNamesTheOrder, NamesItsOrder
<1>2. QED  BY <1>1, AlwaysIInv, PTL

\* Only a refused INSERT sends a handler to look for an order, and the order
\* that refused it stays.
LEMMA NextRecovery ==
  ASSUME TypeOK, RecoveryFindsTheOrder, [Next]_vars
  PROVE  RecoveryFindsTheOrder'
<1>1. Effects /\ orders \in Seq(Row)
  BY StepEffects DEF TypeOK
<1>2. ASSUME NEW c \in Clients, pc'[c] = "recover"
      PROVE  pc[c] = "recover" \/ LooksDuplicate(c)
  <2>1. ASSUME NEW d \in Clients, Claim(d) \/ Progress(d) \/ Failure(d)
        PROVE  pc[c] = "recover" \/ LooksDuplicate(c)
    <3>1. CASE Insert(d)
      BY <1>2, <3>1 DEF Insert, Answer, Hold, Goto, TypeOK
    <3>2. CASE ~Insert(d)
      BY <1>2, <2>1, <3>2 DEF TypeOK, Claim, Begin, Progress, Failure, Lookup, Recover, Store,
         ClaimFails, LookupFails, LookupFailsGo, InsertFails, StoreFails, StoreFailsGo, ClaimResent,
         StoreResent, Replay, Hold, Answer, Goto, NoRowJava, NothingThereTypeScript,
         NothingThereJava, NothingThereCSharp, NothingThereGo
    <3>3. QED  BY <3>1, <3>2
  <2>2. CASE (\E k \in Keys : ExpirePending(k) \/ ExpireResult(k)) \/ Crash \/ CalmDown
             \/ UNCHANGED vars
    BY <1>2, <2>2 DEF ExpirePending, ExpireResult, Crash, CalmDown, vars
  <2>3. QED  BY <2>1, <2>2 DEF Next
<1>3. SUFFICES ASSUME NEW c \in Clients, pc'[c] = "recover"
               PROVE  \/ \E order \in 1 .. Len(orders') : IsOrderOf(order, KeyOf(c))'
                      \/ impl' = "java" /\ asks'[c].amount \in Overflows
  BY DEF RecoveryFindsTheOrder
<1>4. \/ \E order \in 1 .. Len(orders) : IsOrderOf(order, KeyOf(c))
      \/ impl = "java" /\ asks[c].amount \in Overflows
  BY <1>2, <1>3 DEF RecoveryFindsTheOrder, LooksDuplicate, UniqueAllows, IsOrderOf
<1>5. CASE impl = "java" /\ asks[c].amount \in Overflows
  BY <1>1, <1>5 DEF Effects
<1>6. ASSUME NEW order \in 1 .. Len(orders), IsOrderOf(order, KeyOf(c))
      PROVE  \E i \in 1 .. Len(orders') : IsOrderOf(i, KeyOf(c))'
  <2>1. IsOrderOf(order, KeyOf(c))'
    BY <1>1, <1>6, OrdersStay
  <2>2. QED  BY <2>1 DEF IsOrderOf
<1>7. QED  BY <1>4, <1>5, <1>6

\* The SELECT after a unique violation finds the order.
THEOREM RecoverySound == Spec => []RecoveryFindsTheOrder
<1>1. Init => RecoveryFindsTheOrder
  BY DEF Init, RecoveryFindsTheOrder
<1>2. QED  BY <1>1, NextRecovery, TypeCorrect, PTL DEF Spec

\* Whoever is told an order under a key, or without one, is told what everybody
\* else is who sent the same.
THEOREM SameAnswerForAll == Spec => []CallersAgree
<1>1. IInv => CallersAgree
  <2> SUFFICES ASSUME IInv, NEW c \in Clients, NEW d \in Clients, Told(c), Told(d)
               PROVE  SentSameKey(c, d) <=> reply[c].order = reply[d].order
    BY DEF CallersAgree
  <2>0. SentSameKey(c, d) <=> KeyOf(c) = KeyOf(d)
    BY DEF SentSameKey, Keyless, KeyOf, EffectiveKey, NoHeader, EmptyHeader, MissingKey
  <2>1. IsOrderOf(reply[c].order, KeyOf(c)) /\ IsOrderOf(reply[d].order, KeyOf(d))
    BY DEF IInv, ToldIsOrder
  <2>2. QED  BY <2>0, <2>1 DEF IInv, OneOrderPerKey, IsOrderOf
<1>2. QED  BY <1>1, AlwaysIInv, PTL

-----------------------------------------------------------------------------
(* Mutual exclusion of claims that have not run out.                       *)

\* While a handler works on a claim that has not expired, its key is there,
\* so SET NX turns everybody else away.
ClaimHolds ==
  \A c \in Clients : Working(c) /\ ~lapsed[c] => store[KeyOf(c)].state # "absent"

EInv == ClaimHolds /\ OneLiveClaim

\* A handler that is working after a step was working before with the same
\* claim, or it is the one that just claimed an absent key.
WorkEffect ==
  \A c \in Clients : Working(c)' =>
    \/ Working(c) /\ (lapsed[c] => lapsed'[c])
    \/ /\ store[KeyOf(c)].state = "absent" /\ store'[KeyOf(c)].state # "absent"
       /\ \A d \in Clients \ {c} : UNCHANGED <<pc[d], lapsed[d]>>

\* A key that goes away takes along the claims of those who work on it.
KeyEffect ==
  \A k \in Keys : store[k].state # "absent" /\ store'[k].state = "absent" =>
    \A c \in Clients : Working(c)' /\ KeyOf(c) = k => lapsed'[c]

LEMMA AnswerWork ==
  ASSUME TypeOK, NEW c \in Clients, NEW code, NEW r, Answer(c, code, r)
  PROVE  WorkEffect
<1>1. ~Working(c)' /\ \A d \in Clients \ {c} : UNCHANGED <<pc[d], lapsed[d]>>
  BY DEF TypeOK, Answer, Goto, Working
<1>2. QED  BY <1>1 DEF WorkEffect, Working

LEMMA CallerWork ==
  ASSUME TypeOK, NEW c \in Clients, Claim(c) \/ Progress(c) \/ Failure(c)
  PROVE  WorkEffect /\ KeyEffect
<1>0. Pending.state = "pending" /\ Absent.state = "absent" /\ KeyOf(c) \in Keys
      /\ Cached(result[c]).state = "result"
  BY KeyType DEF Pending, Absent, Cached
<1>1. \A k \in Keys : store'[k].state = "absent" => store[k].state = "absent"
  <2>1. UNCHANGED store \/ Set(KeyOf(c), Pending) \/ Set(KeyOf(c), Cached(result[c]))
    BY DEF Claim, Progress, Failure, Lookup, Insert, Recover, Store, ClaimFails, LookupFails,
       LookupFailsGo, InsertFails, StoreFails, StoreFailsGo, StoreLost, ClaimResent, StoreResent
  <2>2. QED  BY <1>0, <2>1 DEF Set, TypeOK
<1>2. CASE Claim(c)
  <2>1. CASE NxAllows(KeyOf(c)) /\ Set(KeyOf(c), Pending)
    <3>1. store[KeyOf(c)].state = "absent" /\ store'[KeyOf(c)].state = "pending"
      BY <1>0, <2>1 DEF NxAllows, Set, TypeOK
    <3>2. \A d \in Clients \ {c} : UNCHANGED <<pc[d], lapsed[d]>>
      BY <1>2 DEF Claim, Begin, Goto, TypeOK
    <3>3. QED  BY <1>1, <3>1, <3>2 DEF WorkEffect, KeyEffect, Working
  <2>2. CASE Goto(c, "lookup")
    BY <1>1, <1>2, <2>2 DEF Claim, Begin, Goto, TypeOK, WorkEffect, KeyEffect, Working
  <2>3. QED  BY <1>2, <2>1, <2>2 DEF Claim
<1>3. CASE ClaimResent(c) \/ StoreResent(c)
  <2>1. UNCHANGED lapsed /\ (UNCHANGED pc \/ Goto(c, "lookup"))
    BY <1>3 DEF ClaimResent, StoreResent, Begin
  <2>2. QED  BY <1>1, <2>1 DEF Goto, TypeOK, WorkEffect, KeyEffect, Working
<1>4. CASE \E code, r : Answer(c, code, r)
  BY <1>1, <1>4, AnswerWork DEF KeyEffect
<1>5. CASE (Insert(c) \/ Recover(c)) /\ UNCHANGED lapsed /\ (Goto(c, "recover") \/ Goto(c, "store"))
  BY <1>1, <1>5 DEF Insert, Recover, Goto, TypeOK, WorkEffect, KeyEffect, Working
<1>6. QED
  BY <1>2, <1>4, <1>5, <1>3 DEF Progress, Failure, Lookup, Insert, Recover, Store, ClaimFails,
     LookupFails, LookupFailsGo, InsertFails, StoreFails, StoreFailsGo, StoreLost, Replay, Hold,
     NoRowJava, NothingThereTypeScript, NothingThereJava, NothingThereCSharp, NothingThereGo

LEMMA EnvironmentWork ==
  ASSUME TypeOK,
         (\E k \in Keys : ExpirePending(k) \/ ExpireResult(k)) \/ Crash \/ CalmDown \/ UNCHANGED vars
  PROVE  WorkEffect /\ KeyEffect
<1>1. ASSUME NEW k \in Keys, ExpirePending(k) \/ ExpireResult(k)
      PROVE  WorkEffect /\ KeyEffect
  <2>1. Set(k, Absent) /\ LapsesSeen(k) /\ UNCHANGED pc
    BY <1>1 DEF ExpirePending, ExpireResult
  <2>2. \A c \in Clients : lapsed'[c] = (lapsed[c] \/ (Working(c) /\ KeyOf(c) = k))
    BY <2>1 DEF LapsesSeen
  <2>3. \A c \in Clients : Working(c)' <=> Working(c)
    BY <2>1 DEF Working
  <2>4. \A j \in Keys \ {k} : store'[j] = store[j]
    BY <2>1 DEF Set, TypeOK
  <2>5. QED  BY <2>2, <2>3, <2>4 DEF WorkEffect, KeyEffect
<1>2. CASE Crash  BY <1>2 DEF Crash, WorkEffect, KeyEffect, Working
<1>3. CASE CalmDown \/ UNCHANGED vars
  BY <1>3 DEF CalmDown, vars, WorkEffect, KeyEffect, Working
<1>4. QED  BY <1>1, <1>2, <1>3

LEMMA NextEInv == IInv /\ EInv /\ [Next]_vars => EInv'
<1> SUFFICES ASSUME IInv, EInv, [Next]_vars PROVE EInv'
  OBVIOUS
<1>1. WorkEffect /\ KeyEffect
  <2>1. ASSUME NEW c \in Clients, Claim(c) \/ Progress(c) \/ Failure(c)
        PROVE  WorkEffect /\ KeyEffect
    BY <2>1, CallerWork DEF IInv
  <2>2. QED  BY <2>1, EnvironmentWork DEF Next, IInv
<1>2. \A c \in Clients : UNCHANGED KeyOf(c) /\ KeyOf(c) \in Keys /\ lapsed[c] \in BOOLEAN
  BY StepEffects, OrdersStay, KeyType DEF IInv, TypeOK
<1>3. ClaimHolds'
  <2> SUFFICES ASSUME NEW c \in Clients, Working(c)', ~lapsed'[c]
               PROVE  store'[KeyOf(c)].state # "absent"
    BY <1>2 DEF ClaimHolds
  <2>1. CASE Working(c) /\ (lapsed[c] => lapsed'[c])
    <3>1. store[KeyOf(c)].state # "absent"
      BY <2>1 DEF EInv, ClaimHolds
    <3>2. QED  BY <1>1, <1>2, <3>1 DEF KeyEffect
  <2>2. QED  BY <1>1, <2>1 DEF WorkEffect
<1>4. OneLiveClaim'
  <2> SUFFICES ASSUME NEW c \in Clients, NEW d \in Clients, c # d,
                      Working(c)', Working(d)', KeyOf(c) = KeyOf(d)
               PROVE  lapsed'[c] \/ lapsed'[d]
    BY <1>2 DEF OneLiveClaim
  <2>1. CASE /\ Working(c) /\ (lapsed[c] => lapsed'[c])
             /\ Working(d) /\ (lapsed[d] => lapsed'[d])
    BY <2>1 DEF EInv, OneLiveClaim
  <2>2. ASSUME NEW a \in Clients, NEW b \in Clients \ {a}, KeyOf(a) = KeyOf(b), Working(b)',
               store[KeyOf(a)].state = "absent", UNCHANGED <<pc[b], lapsed[b]>>
        PROVE  lapsed'[b]
    BY <2>2 DEF EInv, ClaimHolds, Working
  <2>3. QED  BY <1>1, <2>1, <2>2 DEF WorkEffect
<1>5. QED  BY <1>3, <1>4 DEF EInv

\* Two handlers work on one key only after one of their claims ran out.
THEOREM ClaimsExclude == Spec => []OneLiveClaim
<1>1. Init => EInv
  BY DEF Init, EInv, ClaimHolds, OneLiveClaim, Working
<1>2. EInv => OneLiveClaim
  BY DEF EInv
<1>3. QED  BY <1>1, <1>2, NextEInv, AlwaysIInv, PTL DEF Spec

-----------------------------------------------------------------------------
(* Who created the order of a key.                                         *)

\* A handler past its claim may still answer 201, and one that did says so.
Claimed(c) == Working(c) \/ Created(c)

\* As long as a key has not run out in Redis, whoever claimed it finds it
\* there, and there is one such caller at most.
KeyKept ==
  \A c \in Clients : Claimed(c) /\ KeyOf(c) \notin vanished => store[KeyOf(c)].state # "absent"

OneClaimed ==
  \A c, d \in Clients :
    c # d /\ Claimed(c) /\ Claimed(d) /\ KeyOf(c) = KeyOf(d) => KeyOf(c) \in vanished

VInv == KeyKept /\ OneClaimed

\* A caller that has claimed after a step had claimed before, or it is the one
\* that just claimed an absent key.
ClaimedEffect ==
  \A c \in Clients : Claimed(c)' =>
    \/ Claimed(c)
    \/ /\ store[KeyOf(c)].state = "absent" /\ store'[KeyOf(c)].state # "absent"
       /\ \A d \in Clients \ {c} : UNCHANGED <<pc[d], reply[d]>>

VanishedEffect ==
  /\ vanished \subseteq vanished'
  /\ \A k \in Keys \ vanished' : store[k].state # "absent" => store'[k].state # "absent"

LEMMA CallerClaimed ==
  ASSUME TypeOK, NEW c \in Clients, Claim(c) \/ Progress(c) \/ Failure(c)
  PROVE  ClaimedEffect /\ VanishedEffect
<1>0. Pending.state = "pending" /\ Cached(result[c]).state = "result" /\ KeyOf(c) \in Keys
  BY KeyType DEF Pending, Cached
<1>1. \A d \in Clients \ {c} : UNCHANGED <<pc[d], reply[d]>>
  BY DEF TypeOK, Claim, Begin, Progress, Failure, Lookup, Insert, Recover, Store, ClaimFails,
     LookupFails, LookupFailsGo, InsertFails, StoreFails, StoreFailsGo, ClaimResent, StoreResent,
     Replay, Hold, Answer, Goto, NoRowJava, NothingThereTypeScript, NothingThereJava,
     NothingThereCSharp, NothingThereGo
<1>2. VanishedEffect
  <2>1. UNCHANGED vanished
    BY DEF Claim, Begin, Progress, Failure, Lookup, Insert, Recover, Store, ClaimFails, LookupFails,
       LookupFailsGo, InsertFails, StoreFails, StoreFailsGo, StoreLost, ClaimResent, StoreResent,
       Fault
  <2>2. UNCHANGED store \/ Set(KeyOf(c), Pending) \/ Set(KeyOf(c), Cached(result[c]))
    BY DEF Claim, Progress, Failure, Lookup, Insert, Recover, Store, ClaimFails, LookupFails,
       LookupFailsGo, InsertFails, StoreFails, StoreFailsGo, StoreLost, ClaimResent, StoreResent
  <2>3. QED  BY <1>0, <2>1, <2>2 DEF Set, TypeOK, VanishedEffect
<1>3. Claimed(c)' =>
        Claimed(c) \/ (store[KeyOf(c)].state = "absent" /\ store'[KeyOf(c)].state # "absent")
  <2>1. CASE Working(c)
    BY <2>1 DEF Claimed
  <2>2. CASE Claim(c) \/ ClaimResent(c)
    <3>1. reply'[c].code # 201 /\ (pc'[c] = "insert" => pc'[c] # "lookup")
      BY <2>2 DEF Claim, ClaimResent, Begin, NoReply, TypeOK
    <3>2. CASE NxAllows(KeyOf(c)) /\ Set(KeyOf(c), Pending)
      BY <1>0, <3>2 DEF NxAllows, Absent, Set, TypeOK
    <3>3. CASE Goto(c, "lookup")
      BY <3>1, <3>3 DEF Goto, TypeOK, Claimed, Created, Working
    <3>4. QED  BY <2>2, <3>2, <3>3 DEF Claim, ClaimResent
  <2>3. ASSUME NEW code, NEW r, Answer(c, code, r), code # 201
        PROVE  ~Claimed(c)'
    BY <2>3 DEF Answer, Goto, TypeOK, Claimed, Created, Working
  <2>4. CASE Lookup(c) \/ LookupFails(c) \/ LookupFailsGo(c) \/ ClaimFails(c)
    <3>1. \/ \E r : Answer(c, 200, r)
          \/ Answer(c, 409, NoResult) \/ Answer(c, 500, NoResult)
      BY <2>4 DEF Lookup, LookupFails, LookupFailsGo, ClaimFails, Replay, NothingThereTypeScript,
         NothingThereJava, NothingThereCSharp, NothingThereGo
    <3>2. 200 # 201 /\ 409 # 201 /\ 500 # 201
      OBVIOUS
    <3>3. QED  BY <2>3, <3>1, <3>2
  <2>5. QED
    BY <2>1, <2>2, <2>4 DEF Progress, Failure, Insert, Recover, Store, InsertFails, StoreFails,
       StoreFailsGo, StoreLost, StoreResent, Working
<1>4. QED  BY <1>1, <1>2, <1>3 DEF ClaimedEffect, Claimed, Created, Working

LEMMA EnvironmentClaimed ==
  ASSUME TypeOK,
         (\E k \in Keys : ExpirePending(k) \/ ExpireResult(k)) \/ Crash \/ CalmDown \/ UNCHANGED vars
  PROVE  ClaimedEffect /\ VanishedEffect
<1>1. UNCHANGED reply /\ (UNCHANGED pc \/ pc' = [c \in Clients |-> "idle"])
  BY DEF ExpirePending, ExpireResult, Crash, CalmDown, vars
<1>2. ClaimedEffect
  BY <1>1 DEF ClaimedEffect, Claimed, Created, Working
<1>3. VanishedEffect
  <2>1. ASSUME NEW k \in Keys, ExpirePending(k) \/ ExpireResult(k)
        PROVE  VanishedEffect
    <3>1. Set(k, Absent) /\ vanished' = vanished \cup {k}
      BY <2>1 DEF ExpirePending, ExpireResult, LapsesSeen
    <3>2. QED  BY <3>1 DEF Set, TypeOK, VanishedEffect
  <2>2. CASE UNCHANGED <<vanished, store>>
    BY <2>2 DEF VanishedEffect
  <2>3. QED  BY <2>1, <2>2 DEF Crash, CalmDown, vars
<1>4. QED  BY <1>2, <1>3

LEMMA NextVInv == TypeOK /\ VInv /\ [Next]_vars => VInv'
<1> SUFFICES ASSUME TypeOK, VInv, [Next]_vars PROVE VInv'
  OBVIOUS
<1>1. ClaimedEffect /\ VanishedEffect
  <2>1. ASSUME NEW c \in Clients, Claim(c) \/ Progress(c) \/ Failure(c)
        PROVE  ClaimedEffect /\ VanishedEffect
    BY <2>1, CallerClaimed
  <2>2. QED  BY <2>1, EnvironmentClaimed DEF Next
<1>2. \A c \in Clients : UNCHANGED KeyOf(c) /\ KeyOf(c) \in Keys
  BY StepEffects, OrdersStay, KeyType
<1>3. KeyKept'
  <2> SUFFICES ASSUME NEW c \in Clients, Claimed(c)', KeyOf(c) \notin vanished'
               PROVE  store'[KeyOf(c)].state # "absent"
    BY <1>2 DEF KeyKept
  <2>1. CASE Claimed(c)
    BY <1>1, <1>2, <2>1 DEF VInv, KeyKept, VanishedEffect
  <2>2. QED  BY <1>1, <2>1 DEF ClaimedEffect
<1>4. OneClaimed'
  <2> SUFFICES ASSUME NEW c \in Clients, NEW d \in Clients, c # d,
                      Claimed(c)', Claimed(d)', KeyOf(c) = KeyOf(d)
               PROVE  KeyOf(c) \in vanished'
    BY <1>2 DEF OneClaimed
  <2>1. CASE Claimed(c) /\ Claimed(d)
    BY <1>1, <2>1 DEF VInv, OneClaimed, VanishedEffect
  <2>2. ASSUME NEW a \in Clients, NEW b \in Clients \ {a}, KeyOf(a) = KeyOf(b), Claimed(b)',
               store[KeyOf(a)].state = "absent", UNCHANGED <<pc[b], reply[b]>>
        PROVE  KeyOf(b) \in vanished'
    <3>1. Claimed(b)
      BY <2>2 DEF Claimed, Working, Created
    <3>2. QED  BY <1>1, <2>2, <3>1 DEF VInv, KeyKept, VanishedEffect
  <2>3. QED  BY <1>1, <2>1, <2>2 DEF ClaimedEffect
<1>5. QED  BY <1>3, <1>4 DEF VInv

\* Two callers are told that they created the order of one key only after the
\* key has run out in Redis.
THEOREM CreationOnce == Spec => []CreatedOnce
<1>1. Init => VInv
  BY DEF Init, VInv, KeyKept, OneClaimed, Claimed, Working, Created, NoReply
<1>2. VInv => CreatedOnce
  BY DEF VInv, OneClaimed, Claimed, CreatedOnce
<1>3. QED  BY <1>1, <1>2, NextVInv, TypeCorrect, PTL DEF Spec

-----------------------------------------------------------------------------
(* Who collides with a row: only somebody whose key has run out in Redis.  *)

\* As long as a key has not run out, its row has its marker or result beside
\* it, and whoever is about to insert or to recover finds no row.
RowsKeepTheirKeys ==
  \A k \in Keys \ vanished : ~UniqueAllows(k) => store[k].state # "absent"

NobodyCollides ==
  \A c \in Clients : pc[c] \in {"insert", "recover"} /\ KeyOf(c) \notin vanished =>
    UniqueAllows(KeyOf(c))

RInv == RowsKeepTheirKeys /\ NobodyCollides

\* Whoever is about to insert after a step was before it, or just claimed an
\* absent key; the one who inserts moves on.
InsertEffect ==
  /\ \A c \in Clients : pc'[c] \in {"insert", "recover"} =>
       pc[c] \in {"insert", "recover"} \/ store[KeyOf(c)].state = "absent"
  /\ \/ UNCHANGED orders
     \/ \E c \in Clients : /\ pc[c] = "insert" /\ pc'[c] \notin {"insert", "recover"}
                            /\ InsertRow(c)
                            /\ \A d \in Clients \ {c} : UNCHANGED pc[d]

LEMMA CallerInserts ==
  ASSUME TypeOK, NEW c \in Clients, Claim(c) \/ Progress(c) \/ Failure(c)
  PROVE  InsertEffect
<1>1. \A d \in Clients \ {c} : UNCHANGED pc[d]
  BY DEF TypeOK, Claim, Begin, Progress, Failure, Lookup, Insert, Recover, Store, ClaimFails,
     LookupFails, LookupFailsGo, InsertFails, StoreFails, StoreFailsGo, ClaimResent, StoreResent,
     Replay, Hold, Answer, Goto, NoRowJava, NothingThereTypeScript, NothingThereJava,
     NothingThereCSharp, NothingThereGo
<1>2. CASE Insert(c) \/ InsertFails(c)
  <2>1. pc[c] \in {"insert", "recover"} /\ (pc[c] = "insert" \/ UNCHANGED orders)
    BY <1>2 DEF Insert, InsertFails
  <2>2. CASE UNCHANGED orders
    BY <1>1, <2>1, <2>2 DEF InsertEffect
  <2>3. CASE ~UNCHANGED orders
    <3>1. pc[c] = "insert" /\ InsertRow(c)
      BY <1>2, <2>1, <2>3 DEF Insert, InsertFails
    <3>2. CASE Insert(c)
      <4>1. pc'[c] = "store"
        BY <2>3, <3>2 DEF Insert, Hold, Goto, TypeOK
      <4>2. QED  BY <1>1, <3>1, <4>1 DEF InsertEffect
    <3>3. CASE InsertFails(c)
      <4>1. pc'[c] = "idle"
        BY <3>3 DEF InsertFails, Answer, Goto, TypeOK
      <4>2. QED  BY <1>1, <3>1, <4>1 DEF InsertEffect
    <3>4. QED  BY <1>2, <3>2, <3>3
  <2>4. QED  BY <2>2, <2>3
<1>3. CASE Claim(c) \/ ClaimResent(c)
  BY <1>1, <1>3 DEF Claim, ClaimResent, Begin, NxAllows, Absent, Goto, TypeOK, InsertEffect
<1>4. CASE Recover(c)
  <2>1. UNCHANGED orders /\ pc'[c] \in {"store", "idle"}
    BY <1>4 DEF Recover, Hold, NoRowJava, Answer, Goto, TypeOK
  <2>2. QED  BY <1>1, <2>1 DEF InsertEffect
<1>5. CASE Lookup(c) \/ LookupFails(c) \/ LookupFailsGo(c) \/ ClaimFails(c) \/ Store(c)
           \/ StoreFails(c) \/ StoreFailsGo(c) \/ StoreResent(c)
  <2>1. UNCHANGED orders
    BY <1>5 DEF Lookup, LookupFails, LookupFailsGo, ClaimFails, Store, StoreFails, StoreFailsGo,
       StoreLost, StoreResent
  <2>2. pc'[c] = "idle" \/ (pc[c] = "store" /\ pc'[c] = "store")
    BY <1>5 DEF Lookup, LookupFails, LookupFailsGo, ClaimFails, Store, StoreFails, StoreFailsGo,
       StoreLost, StoreResent, Replay, Answer, Goto, NothingThereTypeScript, NothingThereJava,
       NothingThereCSharp, NothingThereGo, TypeOK
  <2>3. QED  BY <1>1, <2>1, <2>2 DEF InsertEffect
<1>6. QED  BY <1>2, <1>3, <1>4, <1>5 DEF Progress, Failure

LEMMA StepInserts == TypeOK /\ [Next]_vars => InsertEffect /\ VanishedEffect
<1> SUFFICES ASSUME TypeOK, [Next]_vars PROVE InsertEffect /\ VanishedEffect
  OBVIOUS
<1>1. ASSUME NEW c \in Clients, Claim(c) \/ Progress(c) \/ Failure(c)
      PROVE  InsertEffect /\ VanishedEffect
  BY <1>1, CallerInserts, CallerClaimed
<1>2. ASSUME (\E k \in Keys : ExpirePending(k) \/ ExpireResult(k)) \/ Crash \/ CalmDown \/ UNCHANGED vars
      PROVE  InsertEffect /\ VanishedEffect
  <2>1. UNCHANGED orders /\ (UNCHANGED pc \/ pc' = [c \in Clients |-> "idle"])
    BY <1>2 DEF ExpirePending, ExpireResult, Crash, CalmDown, vars
  <2>2. QED  BY <1>2, <2>1, EnvironmentClaimed DEF InsertEffect
<1>3. QED  BY <1>1, <1>2 DEF Next

LEMMA NextRInv == TypeOK /\ VInv /\ RInv /\ [Next]_vars => RInv'
<1> SUFFICES ASSUME TypeOK, VInv, RInv, [Next]_vars PROVE RInv'
  OBVIOUS
<1>1. InsertEffect /\ VanishedEffect
  BY StepInserts
<1>2. \A c \in Clients : UNCHANGED KeyOf(c) /\ KeyOf(c) \in Keys
  BY StepEffects, OrdersStay, KeyType
<1>3. CASE UNCHANGED orders
  <2>1. \A k \in Keys : UniqueAllows(k)' <=> UniqueAllows(k)
    BY <1>3 DEF UniqueAllows
  <2>2. RowsKeepTheirKeys'
    BY <1>1, <2>1 DEF RInv, RowsKeepTheirKeys, VanishedEffect
  <2>3. ASSUME NEW c \in Clients, pc'[c] \in {"insert", "recover"}, KeyOf(c) \notin vanished'
        PROVE  UniqueAllows(KeyOf(c))
    <3>1. KeyOf(c) \in Keys \ vanished
      BY <1>1, <1>2, <2>3 DEF VanishedEffect
    <3>2. pc[c] \in {"insert", "recover"} \/ store[KeyOf(c)].state = "absent"
      BY <1>1, <2>3 DEF InsertEffect
    <3>3. QED  BY <3>1, <3>2 DEF RInv, RowsKeepTheirKeys, NobodyCollides
  <2>4. NobodyCollides'
    BY <1>2, <2>1, <2>3 DEF NobodyCollides
  <2>5. QED  BY <2>2, <2>4 DEF RInv
<1>4. ASSUME NEW c \in Clients, pc[c] = "insert", pc'[c] \notin {"insert", "recover"}, InsertRow(c),
             \A d \in Clients \ {c} : UNCHANGED pc[d]
      PROVE  RInv'
  <2>1. \A k \in Keys : UniqueAllows(k)' <=> UniqueAllows(k) /\ k # KeyOf(c)
    <3>1. orders \in Seq(Row) /\ Len(orders) \in Nat
      BY DEF TypeOK
    <3>2. /\ Len(orders') = Len(orders) + 1 /\ orders'[Len(orders) + 1].key = KeyOf(c)
          /\ \A i \in 1 .. Len(orders) : orders'[i] = orders[i]
      BY <1>4, <3>1 DEF InsertRow
    <3>3. QED  BY <3>1, <3>2 DEF UniqueAllows
  <2>2. Claimed(c) /\ \A d \in Clients : pc[d] \in {"insert", "recover"} => Claimed(d)
    BY <1>4 DEF Claimed, Working
  <2>3. RowsKeepTheirKeys'
    <3> SUFFICES ASSUME NEW k \in Keys \ vanished', ~UniqueAllows(k)'
                 PROVE  store'[k].state # "absent"
      BY DEF RowsKeepTheirKeys
    <3>1. k \in Keys \ vanished
      BY <1>1 DEF VanishedEffect
    <3>2. store[k].state # "absent"
      BY <2>1, <2>2, <3>1 DEF RInv, RowsKeepTheirKeys, VInv, KeyKept
    <3>3. QED  BY <1>1, <3>2 DEF VanishedEffect
  <2>4. NobodyCollides'
    <3> SUFFICES ASSUME NEW d \in Clients, pc'[d] \in {"insert", "recover"}, KeyOf(d) \notin vanished'
                 PROVE  UniqueAllows(KeyOf(d))'
      BY <1>2 DEF NobodyCollides
    <3>1. d # c /\ pc[d] \in {"insert", "recover"} /\ KeyOf(d) \notin vanished
      BY <1>1, <1>4 DEF VanishedEffect
    <3>2. KeyOf(d) # KeyOf(c)
      BY <2>2, <3>1 DEF VInv, OneClaimed
    <3>3. QED  BY <1>2, <2>1, <3>1, <3>2 DEF RInv, NobodyCollides
  <2>5. QED  BY <2>3, <2>4 DEF RInv
<1>5. QED  BY <1>1, <1>3, <1>4 DEF InsertEffect

LEMMA AlwaysRInv == Spec => [](IInv /\ VInv /\ RInv)
<1>1. Init => VInv
  BY DEF Init, VInv, KeyKept, OneClaimed, Claimed, Working, Created, NoReply
<1>2. Init => RInv
  BY DEF Init, RInv, RowsKeepTheirKeys, NobodyCollides, UniqueAllows
<1>3. IInv => TypeOK
  BY DEF IInv
<1>4. QED  BY <1>1, <1>2, <1>3, NextVInv, NextRInv, AlwaysIInv, PTL DEF Spec

-----------------------------------------------------------------------------
(* The action property and the amounts.                                    *)

LEMMA SameOrder ==
  ASSUME OneOrderPerKey, NEW k, NEW i, NEW j, IsOrderOf(i, k), IsOrderOf(j, k)
  PROVE  i = j
  BY DEF OneOrderPerKey, IsOrderOf

\* A cached result is never replaced by another order's.
THEOREM CacheKeeps == Spec => CacheKeepsItsOrder
<1> DEFINE Keeps == \A k \in Keys : store[k].state = "result" =>
                      store'[k].state = "absent" \/ store'[k].order = store[k].order
<1>1. IInv /\ [Next]_vars => Keeps
  <2> SUFFICES ASSUME IInv, [Next]_vars, NEW k \in Keys, store[k].state = "result"
               PROVE  store'[k].state = "absent" \/ store'[k].order = store[k].order
    OBVIOUS
  <2>1. Effects /\ OneOrderPerKey /\ IsOrderOf(store[k].order, k)
    BY StepEffects DEF IInv, CacheNamesTheOrder
  <2>2. CASE store'[k] \in {store[k], Absent}
    BY <2>2 DEF Absent
  <2>3. ~NxAllows(k)
    BY DEF NxAllows, Absent
  <2>4. ASSUME NEW c \in Clients, pc[c] = "store", KeyOf(c) = k, store'[k] = Cached(result[c])
        PROVE  store'[k].order = store[k].order
    <3>1. IsOrderOf(result[c].order, k) /\ store'[k].order = result[c].order
      BY <2>4 DEF IInv, HeldIsOrder, Cached
    <3>2. QED  BY <2>1, <3>1, SameOrder
  <2>5. QED  BY <2>1, <2>2, <2>3, <2>4 DEF Effects, StoreEffect
<1>2. QED  BY <1>1, AlwaysIInv, PTL DEF Spec, CacheKeepsItsOrder

\* An amount held, cached or told is worth its order's, in C# as long as the key
\* has not run out, and the column keeps an amount it has stored.
Worth(amount, order) == Numeric[amount] = orders[order].amount

Covered(k) == impl # "csharp" \/ k \notin vanished

AInv ==
  /\ \A i \in 1 .. Len(orders) : Numeric[orders[i].amount] = orders[i].amount
  /\ \A c \in Clients :
       pc[c] = "store" /\ Covered(KeyOf(c)) => Worth(result[c].amount, result[c].order)
  /\ \A k \in Keys :
       store[k].state = "result" /\ Covered(k) => Worth(store[k].amount, store[k].order)
  /\ \A c \in Clients :
       Told(c) /\ Covered(KeyOf(c)) => Worth(reply[c].amount, reply[c].order)

LEMMA NextAInv == IInv /\ VInv /\ RInv /\ AInv /\ [Next]_vars => AInv'
<1> SUFFICES ASSUME IInv, VInv, RInv, AInv, [Next]_vars PROVE AInv'
  OBVIOUS
<1>0. /\ \A k : Covered(k)' => Covered(k)
      /\ \A c \in Clients : UNCHANGED KeyOf(c) /\ KeyOf(c) \in Keys
      /\ UNCHANGED impl
  <2>1. TypeOK
    BY DEF IInv
  <2>2. VanishedEffect /\ UNCHANGED <<impl, asks>>
    BY <2>1, StepInserts, StepEffects DEF Effects
  <2>3. QED  BY <2>1, <2>2, KeyType DEF VanishedEffect, Covered, KeyOf, EffectiveKey
<1>1. TypeOK /\ Effects /\ orders \in Seq(Row) /\ Len(orders) \in Nat
  BY StepEffects DEF IInv, TypeOK
<1>2. \A order, k : IsOrderOf(order, k) => orders'[order] = orders[order]
  BY <1>1, OrdersStay
<1>3. \A i \in 1 .. Len(orders') : Numeric[orders'[i].amount] = orders'[i].amount
  <2>1. CASE UNCHANGED orders
    BY <2>1 DEF AInv
  <2>2. ASSUME NEW c \in Clients, Storable(c), InsertRow(c)
        PROVE  \A i \in 1 .. Len(orders') : Numeric[orders'[i].amount] = orders'[i].amount
    <3>1. /\ Len(orders') = Len(orders) + 1
          /\ \A i \in 1 .. Len(orders) : orders'[i] = orders[i]
          /\ orders'[Len(orders) + 1].amount = Numeric[asks[c].amount]
      BY <1>1, <2>2 DEF InsertRow
    <3>2. Numeric[Numeric[asks[c].amount]] = Numeric[asks[c].amount]
      BY <1>1, <2>2, CheckoutAssumption DEF CheckoutAssumption, Storable, TypeOK
    <3>3. QED  BY <1>1, <3>1, <3>2 DEF AInv
  <2>3. QED  BY <1>1, <2>1, <2>2 DEF Effects, OrdersEffect
<1>4. ASSUME NEW c \in Clients, pc'[c] = "store", Covered(KeyOf(c))
      PROVE  Worth(result[c].amount, result[c].order)'
  <2>1. CASE pc[c] = "store" /\ result'[c] = result[c]
    BY <1>2, <1>4, <2>1 DEF AInv, IInv, HeldIsOrder, Worth
  <2>2. CASE HoldsNew(c)
    <3>1. /\ orders'[Len(orders) + 1].amount = Numeric[asks[c].amount]
          /\ result'[c] = [order |-> Len(orders) + 1, amount |-> asks[c].amount]
      BY <1>1, <2>2 DEF HoldsNew
    <3>2. QED  BY <3>1 DEF Worth
  <2>3. CASE HoldsFound(c)
    <3>1. pc[c] = "recover" /\ ~UniqueAllows(KeyOf(c))
      BY <2>3 DEF HoldsFound, IsOrderOf, UniqueAllows
    <3>2. impl # "csharp"
      BY <1>4, <3>1 DEF RInv, NobodyCollides, Covered
    <3>3. QED  BY <2>3, <3>2 DEF HoldsFound, IsOrderOf, AInv, Worth
  <2>4. QED  BY <1>1, <1>4, <2>1, <2>2, <2>3 DEF Effects, HoldEffect
<1>5. ASSUME NEW k \in Keys, store'[k].state = "result", Covered(k)
      PROVE  Worth(store[k].amount, store[k].order)'
  <2>1. CASE store'[k] = store[k]
    BY <1>2, <1>5, <2>1 DEF AInv, IInv, CacheNamesTheOrder, Worth
  <2>2. ASSUME NEW c \in Clients, pc[c] = "store", KeyOf(c) = k, store'[k] = Cached(result[c])
        PROVE  Worth(store[k].amount, store[k].order)'
    BY <1>2, <1>5, <2>2 DEF AInv, IInv, HeldIsOrder, Worth, Cached
  <2>3. store'[k] # Absent /\ store'[k] # Pending
    BY <1>5 DEF Absent, Pending
  <2>4. QED  BY <1>1, <2>1, <2>2, <2>3 DEF Effects, StoreEffect
<1>6. ASSUME NEW c \in Clients, Told(c)', Covered(KeyOf(c))
      PROVE  Worth(reply[c].amount, reply[c].order)'
  <2>1. CASE reply'[c] = reply[c]
    BY <1>2, <1>6, <2>1 DEF AInv, IInv, ToldIsOrder, Told, Worth
  <2>2. CASE store[KeyOf(c)].state = "result" /\ Tells(c, store[KeyOf(c)])
    BY <1>0, <1>6, <2>2 DEF AInv, Tells, Worth
  <2>3. CASE pc[c] = "store" /\ Tells(c, result[c])
    BY <1>6, <2>3 DEF AInv, Tells, Worth
  <2>4. ~TellsNothing(c)
    BY <1>6 DEF TellsNothing, Told
  <2>5. QED  BY <1>1, <2>1, <2>2, <2>3, <2>4 DEF Effects, ReplyEffect
<1>7. \A c \in Clients : Covered(KeyOf(c))' => Covered(KeyOf(c))
  BY <1>0
<1>8. QED  BY <1>0, <1>3, <1>4, <1>5, <1>6, <1>7 DEF AInv

\* The amount a caller is told is worth what its order was placed with, in C# as
\* long as the key lives in Redis.
THEOREM AmountsSound == Spec => []AmountsAgree
<1>1. Init => AInv
  BY DEF Init, AInv, Told, NoReply, Absent
<1>2. AInv => AmountsAgree
  BY DEF AInv, AmountsAgree, AmountAgrees, Worth, Covered
<1>3. QED  BY <1>1, <1>2, NextAInv, AlwaysRInv, PTL DEF Spec

-----------------------------------------------------------------------------
(* Refinement of IdempotentOrders.                                         *)

\* A caller whose request is in flight has been told nothing yet.
Quiet == \A c \in Clients : pc[c] # "idle" => reply[c].order = NoOrder

\* One caller at a time is answered, and not in the step that inserts a row
\* unless the answer names no order.
OneAnswer ==
  \/ UNCHANGED reply
  \/ \E c \in Clients : \A d \in Clients \ {c} : UNCHANGED reply[d]

RowThenSilence ==
  UNCHANGED orders \/ \A c \in Clients : UNCHANGED reply[c].order

LEMMA CallerAnswers ==
  ASSUME TypeOK, Quiet, NEW c \in Clients, Claim(c) \/ Progress(c) \/ Failure(c)
  PROVE  Quiet' /\ OneAnswer /\ RowThenSilence
<1> USE DEF TypeOK
<1>1. \A d \in Clients \ {c} : UNCHANGED <<pc[d], reply[d]>>
  BY DEF Claim, Begin, Progress, Failure, Lookup, Insert, Recover, Store, ClaimFails, LookupFails,
     LookupFailsGo, InsertFails, StoreFails, StoreFailsGo, ClaimResent, StoreResent, Replay,
     Hold, Answer, Goto, NoRowJava, NothingThereTypeScript, NothingThereJava,
     NothingThereCSharp, NothingThereGo
<1>2. pc'[c] # "idle" => reply'[c].order = NoOrder
  <2>1. CASE Claim(c) \/ ClaimResent(c)
    BY <2>1 DEF Claim, ClaimResent, Begin, NoReply
  <2>2. CASE UNCHANGED reply /\ pc[c] # "idle"
    BY <2>2 DEF Quiet
  <2>3. CASE \E code, r : Answer(c, code, r)
    BY <2>3 DEF Answer, Goto
  <2>4. QED
    BY <2>1, <2>2, <2>3 DEF Progress, Failure, Lookup, Insert, Recover, Store, ClaimFails,
       LookupFails, LookupFailsGo, InsertFails, StoreFails, StoreFailsGo, StoreResent, Replay,
       Hold, NoRowJava, NothingThereTypeScript, NothingThereJava, NothingThereCSharp,
       NothingThereGo
<1>3. RowThenSilence
  <2>1. CASE UNCHANGED orders
    BY <2>1 DEF RowThenSilence
  <2>2. CASE Insert(c) \/ InsertFails(c)
    <3>1. pc[c] # "idle" /\ (UNCHANGED reply \/ Answer(c, 500, NoResult))
      BY <2>2 DEF Insert, InsertFails, Hold
    <3>2. CASE UNCHANGED reply
      BY <3>2 DEF RowThenSilence
    <3>3. CASE Answer(c, 500, NoResult)
      BY <1>1, <3>1, <3>3 DEF Answer, NoResult, Quiet, RowThenSilence
    <3>4. QED  BY <3>1, <3>2, <3>3
  <2>3. QED
    BY <2>1, <2>2 DEF Claim, Begin, Progress, Failure, Lookup, Recover, Store, ClaimFails,
       LookupFails, LookupFailsGo, StoreFails, StoreFailsGo, StoreLost, ClaimResent, StoreResent
<1>4. QED  BY <1>1, <1>2, <1>3 DEF Quiet, OneAnswer

LEMMA EnvironmentAnswers ==
  ASSUME Quiet,
         (\E k \in Keys : ExpirePending(k) \/ ExpireResult(k)) \/ Crash \/ CalmDown \/ UNCHANGED vars
  PROVE  Quiet' /\ OneAnswer /\ RowThenSilence
<1>1. UNCHANGED <<reply, orders>> /\ (UNCHANGED pc \/ pc' = [c \in Clients |-> "idle"])
  BY DEF ExpirePending, ExpireResult, Crash, CalmDown, vars
<1>2. QED  BY <1>1 DEF Quiet, OneAnswer, RowThenSilence

LEMMA NextQuiet ==
  ASSUME TypeOK, Quiet, [Next]_vars
  PROVE  Quiet' /\ OneAnswer /\ RowThenSilence
<1>1. ASSUME NEW c \in Clients, Claim(c) \/ Progress(c) \/ Failure(c)
      PROVE  Quiet' /\ OneAnswer /\ RowThenSilence
  BY <1>1, CallerAnswers
<1>2. QED  BY <1>1, EnvironmentAnswers DEF Next

\* The refinement mapping picks the one row of a key.
LEMMA OnlyRow ==
  ASSUME NEW rows, NEW k, NEW i \in 1 .. Len(rows), rows[i].key = k,
         \A j \in 1 .. Len(rows) : rows[j].key = k => j = i
  PROVE  (CHOOSE j \in 1 .. Len(rows) : rows[j].key = k) = i
  OBVIOUS

\* The abstract variables, as the mapping computes them.
keyOf  == [c \in Clients |-> KeyOf(c)]
placed == [k \in Keys |-> OrderUnder(k)]
told   == [c \in Clients |-> reply[c].order]

LEMMA OrderUnderKey ==
  ASSUME OneOrderPerKey, NEW k, NEW order, IsOrderOf(order, k)
  PROVE  OrderUnder(k) = order
<1>1. \A j \in 1 .. Len(orders) : orders[j].key = k => j = order
  BY DEF OneOrderPerKey, IsOrderOf
<1>2. QED  BY <1>1, OnlyRow DEF OrderUnder, IsOrderOf

LEMMA OrderUnderNextKey ==
  ASSUME OneOrderPerKey', NEW k, NEW order, IsOrderOf(order, k)'
  PROVE  OrderUnder(k)' = order
<1>1. \A j \in 1 .. Len(orders') : orders'[j].key = k => j = order
  BY DEF OneOrderPerKey, IsOrderOf
<1>2. QED  BY <1>1, OnlyRow DEF OrderUnder, IsOrderOf

LEMMA PromiseInit == Init => Promise!Init
<1> SUFFICES ASSUME Init PROVE Promise!Init
  OBVIOUS
<1>1. keyOf \in [Clients -> Keys]
  BY InitType, KeyType DEF keyOf
<1>2. Len(orders) = 0 /\ \A k \in Keys : OrderUnder(k) = 0
  BY DEF Init, OrderUnder, NoOrder
<1>3. \A c \in Clients : reply[c].order = 0
  BY DEF Init, NoReply, NoOrder
<1>4. QED  BY <1>1, <1>2, <1>3 DEF Promise!Init, Promise!NoOrder, keyOf

\* The keys stay, and so does what is placed while no row is added.
LEMMA KeysStay ==
  ASSUME TypeOK, Effects
  PROVE  UNCHANGED keyOf /\ (UNCHANGED orders => UNCHANGED <<Len(orders), placed>>)
<1>1. UNCHANGED keyOf
  BY OrdersStay DEF keyOf
<1>2. UNCHANGED orders => UNCHANGED <<Len(orders), placed>>
  BY DEF placed, OrderUnder
<1>3. QED  BY <1>1, <1>2

\* A new row is an order placed: its key had none, and no caller is told.
LEMMA PromisePlace ==
  ASSUME IInv, IInv', Effects, RowThenSilence, orders' # orders
  PROVE  \E k \in Keys : Promise!Place(k)
<1>1. PICK c \in Clients : UniqueAllows(KeyOf(c)) /\ InsertRow(c)
  BY DEF Effects, OrdersEffect
<1> DEFINE n == Len(orders)
<1>2. TypeOK /\ KeyOf(c) \in Keys /\ orders \in Seq(Row) /\ OneOrderPerKey /\ OneOrderPerKey'
  BY KeyType DEF IInv, TypeOK
<1>3. /\ n \in Nat /\ Len(orders') = n + 1
      /\ \A i \in 1 .. n : orders'[i] = orders[i]
      /\ orders'[n + 1].key = KeyOf(c)
  BY <1>1, <1>2 DEF InsertRow
<1>4. OrderUnder(KeyOf(c)) = 0
  BY <1>1 DEF UniqueAllows, OrderUnder, NoOrder
<1>5. \A k : k = KeyOf(c) => OrderUnder(k)' = n + 1
  <2> SUFFICES ASSUME NEW k, k = KeyOf(c), NEW m, m = n + 1 PROVE OrderUnder(k)' = m
    OBVIOUS
  <2>1. IsOrderOf(m, k)'
    BY <1>3 DEF IsOrderOf
  <2>2. QED  BY <1>2, <2>1, OrderUnderNextKey
<1>6. ASSUME NEW k \in Keys, k # KeyOf(c)
      PROVE  OrderUnder(k)' = OrderUnder(k)
  <2>1. CASE \E i \in 1 .. n : orders[i].key = k
    <3>1. PICK i \in 1 .. n : orders[i].key = k
      BY <2>1
    <3>2. IsOrderOf(i, k) /\ IsOrderOf(i, k)'
      BY <1>3, <3>1 DEF IsOrderOf
    <3>3. QED  BY <1>2, <3>2, OrderUnderKey, OrderUnderNextKey
  <2>2. CASE \A i \in 1 .. n : orders[i].key # k
    <3>1. \A i \in 1 .. Len(orders') : orders'[i].key # k
      BY <1>3, <1>6, <2>2
    <3>2. QED  BY <2>2, <3>1 DEF OrderUnder
  <2>3. QED  BY <2>1, <2>2
<1>7. placed' = [placed EXCEPT ![KeyOf(c)] = n + 1] /\ placed[KeyOf(c)] = 0
  BY <1>2, <1>4, <1>5, <1>6 DEF placed
<1>8. UNCHANGED told
  BY DEF RowThenSilence, told
<1>9. QED
  BY <1>2, <1>3, <1>7, <1>8, KeysStay
  DEF Promise!Place, Promise!NoOrder, keyOf, placed, told

\* Without a new row, one caller is told its order, or forgets, or nothing
\* happens that can be seen.
LEMMA PromiseTell ==
  ASSUME IInv, Effects, OneAnswer, UNCHANGED orders
  PROVE  \/ \E c \in Clients : Promise!Tell(c) \/ Promise!Ask(c)
         \/ UNCHANGED <<keyOf, Len(orders), placed, told>>
<1>1. TypeOK /\ UNCHANGED <<keyOf, Len(orders), placed>>
  BY KeysStay DEF IInv
<1>2. CASE UNCHANGED reply
  BY <1>1, <1>2 DEF told
<1>3. ASSUME NEW c \in Clients, \A d \in Clients \ {c} : UNCHANGED reply[d]
      PROVE  \/ Promise!Tell(c) \/ Promise!Ask(c)
             \/ UNCHANGED <<keyOf, Len(orders), placed, told>>
  <2>1. told' = [told EXCEPT ![c] = reply'[c].order]
    BY <1>3 DEF told
  <2>2. CASE reply'[c] = reply[c]
    BY <1>1, <2>1, <2>2 DEF told
  <2>3. CASE TellsNothing(c)
    BY <1>1, <2>1, <2>3 DEF TellsNothing, NoOrder, Promise!Ask, Promise!NoOrder, keyOf, placed, told
  <2>4. ASSUME NEW r, Tells(c, r), IsOrderOf(r.order, KeyOf(c))
        PROVE  Promise!Tell(c)
    <3>1. OrderUnder(KeyOf(c)) = r.order /\ reply'[c].order = r.order /\ r.order # 0
      BY <2>4, OrderUnderKey DEF IInv, Tells, IsOrderOf
    <3>2. KeyOf(c) \in Keys
      BY <1>1, KeyType
    <3>3. QED
      BY <1>1, <2>1, <3>1, <3>2 DEF Promise!Tell, Promise!NoOrder, keyOf, placed, told
  <2>5. CASE store[KeyOf(c)].state = "result" /\ Tells(c, store[KeyOf(c)])
    BY <1>1, <2>4, <2>5, KeyType DEF IInv, CacheNamesTheOrder
  <2>6. CASE pc[c] = "store" /\ Tells(c, result[c])
    BY <2>4, <2>6 DEF IInv, HeldIsOrder
  <2>7. QED  BY <2>2, <2>3, <2>5, <2>6 DEF Effects, ReplyEffect
<1>4. QED  BY <1>2, <1>3 DEF OneAnswer

\* The service keeps the promise of an idempotency key: every behaviour of
\* Checkout is one of IdempotentOrders.
THEOREM PromiseKept == Spec => AnswersAreIdempotent
<1>1. Init => Quiet
  BY DEF Init, Quiet
<1>2. IInv /\ Quiet /\ [Next]_vars => Quiet'
  BY NextQuiet DEF IInv
<1>3. IInv /\ IInv' /\ Quiet /\ [Next]_vars => [Promise!Next]_<<keyOf, Len(orders), placed, told>>
  <2> SUFFICES ASSUME IInv, IInv', Quiet, [Next]_vars
               PROVE  [Promise!Next]_<<keyOf, Len(orders), placed, told>>
    OBVIOUS
  <2>1. Effects /\ OneAnswer /\ RowThenSilence
    BY StepEffects, NextQuiet DEF IInv
  <2>2. QED  BY <2>1, PromisePlace, PromiseTell DEF Promise!Next
<1>4. QED
  BY <1>1, <1>2, <1>3, AlwaysIInv, PromiseInit, PTL
  DEF Spec, AnswersAreIdempotent, Promise!Spec, keyOf, placed, told
=============================================================================
