--------------------------- MODULE InventoryProofs ---------------------------
(***************************************************************************)
(* Theorems about Inventory, for every set of clients, every seed, every   *)
(* set of quantities, every choice of implementations and any number of    *)
(* faults.                                                                 *)
(***************************************************************************)
EXTENDS Inventory, SequenceTheorems, TLAPS

\* What the row lock buys: while a transaction is between its SELECT and its
\* COMMIT the stock it read is the committed stock, so the decision it makes
\* and the values it writes are not stale.
Locking ==
  \A c \in Clients :
    /\ pc[c] \in {"eval", "begin", "select", "write", "commit"} => req[c].qty > 0
    /\ pc[c] \in {"write", "commit"} => rowLock = c /\ txStock[c] = stock
    /\ pc[c] = "commit" => req[c].qty <= txStock[c]

IInv == TypeOK /\ Locking

USE InventoryAssumption

\* The initial states satisfy the inductive invariant.
LEMMA InitIInv == Init => IInv
  BY DEF Init, IInv, TypeOK, Locking, NoCounter, NoRequest, NoSnapshot, NoReply,
         Request, Snapshot, LedgerRow

Source == {"db", "redis", "ledger"}

\* The reads a caller still has to make are drawn from the three sources.
LEMMA ReadsType ==
  ASSUME NEW path
  PROVE  ReadsFor(path) \in Seq(Source)
<1>1. StockReads \in Seq(Source)  BY DEF StockReads, Source
<1>2. StockReadsCSharp \in Seq(Source)  BY DEF StockReadsCSharp, Source
<1>3. ConflictReadsCSharp \in Seq(Source)  BY DEF ConflictReadsCSharp, Source
<1>4. QED  BY <1>1, <1>2, <1>3, Zenon DEF ReadsFor

LEMMA BootIInv == IInv /\ Boot => IInv'
<1> SUFFICES ASSUME IInv, Boot PROVE IInv'
  OBVIOUS
<1> USE DEF IInv, TypeOK, Locking, dbVars, redisVars, readVars
<1>1. CASE WarmRead  BY <1>1 DEF WarmRead
<1>2. CASE WarmSet  BY <1>2 DEF WarmSet
<1>3. CASE WarmSkippedGo  BY <1>3 DEF WarmSkippedGo
<1>4. CASE Listen  BY <1>4 DEF Listen
<1>5. QED  BY <1>1, <1>2, <1>3, <1>4 DEF Boot

LEMMA EnvironmentIInv == IInv /\ (Crash \/ RedisLoss) => IInv'
<1> SUFFICES ASSUME IInv, Crash \/ RedisLoss PROVE IInv'
  OBVIOUS
<1> USE DEF IInv, TypeOK, Locking, dbVars, redisVars, readVars
<1>1. CASE Crash
  <2>1. NoRequest \in Request /\ NoSnapshot \in Snapshot
    BY DEF NoRequest, NoSnapshot, Request, Snapshot, NoCounter, LedgerRow
  <2>2. <<>> \in Seq({"db", "redis", "ledger"})  OBVIOUS
  <2>3. QED  BY <1>1, <2>1, <2>2 DEF Crash
<1>2. CASE RedisLoss  BY <1>2 DEF RedisLoss, NoCounter
<1>3. QED  BY <1>1, <1>2

LEMMA StutterIInv == IInv /\ UNCHANGED vars => IInv'
  BY DEF IInv, TypeOK, Locking, vars, dbVars, redisVars, bootVars, readVars

\* A caller that is answered and one that starts to read keep the types of
\* what these two operators write.
LEMMA AnswerType ==
  ASSUME TypeOK, NEW c \in Clients, NEW code \in Nat, NEW remaining \in Int,
         Answer(c, code, remaining)
  PROVE  /\ pc' \in [Clients -> {"idle", "eval", "begin", "select", "write", "commit", "read"}]
         /\ reply' \in [Clients -> [code : Nat, remaining : Int]]
         /\ txStock' \in [Clients -> Int]
         /\ todo' \in [Clients -> Seq({"db", "redis", "ledger"})]
         /\ pc' = [pc EXCEPT ![c] = "idle"] /\ txStock' = [txStock EXCEPT ![c] = 0]
<1>1. pc \in [Clients -> {"idle", "eval", "begin", "select", "write", "commit", "read"}]
      /\ pc' = [pc EXCEPT ![c] = "idle"]
  BY DEF TypeOK, Answer, Goto
<1>2. /\ reply \in [Clients -> [code : Nat, remaining : Int]]
      /\ reply' = [reply EXCEPT ![c] = [code |-> code, remaining |-> remaining]]
  BY DEF TypeOK, Answer
<1>3. txStock \in [Clients -> Int] /\ txStock' = [txStock EXCEPT ![c] = 0]
  BY DEF TypeOK, Answer
<1>4. /\ todo \in [Clients -> Seq({"db", "redis", "ledger"})]
      /\ todo' = [todo EXCEPT ![c] = <<>>]
  BY DEF TypeOK, Answer
<1>5. reply' \in [Clients -> [code : Nat, remaining : Int]]
  BY <1>2
<1>6. todo' \in [Clients -> Seq({"db", "redis", "ledger"})]
  BY <1>4
<1>7. pc' \in [Clients -> {"idle", "eval", "begin", "select", "write", "commit", "read"}]
  BY <1>1
<1>8. txStock' \in [Clients -> Int]
  BY <1>3
<1>9. QED  BY <1>1, <1>3, <1>5, <1>6, <1>7, <1>8

\* All that an answer leaves to the rest of its step.
SharedType ==
  /\ impl \in Impls
  /\ stock \in 0 .. Seed /\ ledger \in Seq(LedgerRow) /\ rowLock \in Clients \cup {Nobody}
  /\ counter \in Nat \cup {NoCounter} /\ granted \in Nat
  /\ service \in {"booting", "warming", "warmed", "serving"}
  /\ warmStock \in 0 .. Seed /\ boots \in Nat /\ faults \in 0 .. MaxFaults
  /\ req \in [Clients -> Request] /\ snap \in [Clients -> Snapshot]

LEMMA AnswerKeepsType ==
  ASSUME TypeOK, NEW c \in Clients, NEW code \in Nat, NEW remaining \in Int,
         Answer(c, code, remaining), SharedType'
  PROVE  TypeOK'
<1>1. /\ pc' \in [Clients -> {"idle", "eval", "begin", "select", "write", "commit", "read"}]
      /\ reply' \in [Clients -> [code : Nat, remaining : Int]]
      /\ txStock' \in [Clients -> Int]
      /\ todo' \in [Clients -> Seq({"db", "redis", "ledger"})]
  BY AnswerType
<1>2. QED  BY <1>1 DEF TypeOK, SharedType

LEMMA AnswerLocking ==
  ASSUME IInv, NEW c \in Clients, NEW code, NEW remaining,
         Answer(c, code, remaining), UNCHANGED <<stock, req, rowLock>>
  PROVE  Locking'
  BY DEF IInv, TypeOK, Locking, Answer, Goto

\* A handler that answers without touching the shared state.
LEMMA AnswerIInv ==
  ASSUME IInv, NEW c \in Clients, NEW code \in Nat, NEW remaining \in Int,
         Answer(c, code, remaining), snap' \in [Clients -> Snapshot],
         UNCHANGED <<impl, dbVars, redisVars, bootVars, req>>
  PROVE  IInv'
<1>1. TypeOK'
  <2>1. SharedType'
    BY DEF IInv, TypeOK, SharedType, dbVars, redisVars, bootVars
  <2>2. QED  BY <2>1, AnswerKeepsType DEF IInv
<1>2. Locking'
  BY AnswerLocking DEF dbVars
<1>3. QED  BY <1>1, <1>2 DEF IInv

LEMMA BeginReadsType ==
  ASSUME TypeOK, NEW c \in Clients, NEW path, BeginReads(c, ReadsFor(path))
  PROVE  /\ pc' \in [Clients -> {"idle", "eval", "begin", "select", "write", "commit", "read"}]
         /\ todo' \in [Clients -> Seq({"db", "redis", "ledger"})]
         /\ pc' = [pc EXCEPT ![c] = "read"]
  BY ReadsType DEF TypeOK, BeginReads, Goto, Source

LEMMA SubmitIInv ==
  ASSUME IInv, NEW c \in Clients, Refuse(c) \/ Submit(c) \/ SubmitGet(c)
  PROVE  IInv'
<1> USE DEF IInv, Locking, dbVars, redisVars, bootVars
<1>1. CASE Refuse(c)
  <2>1. /\ Answer(c, 400, 0) /\ UNCHANGED snap
        /\ UNCHANGED <<impl, dbVars, redisVars, bootVars, req>>
    BY <1>1 DEF Refuse
  <2>2. 400 \in Nat /\ 0 \in Int /\ snap' \in [Clients -> Snapshot]
    BY <2>1 DEF TypeOK
  <2>3. QED  BY <2>1, <2>2, AnswerIInv
<1>2. CASE Submit(c)
  <2>1. PICK path \in {"redis", "db"}, known \in BOOLEAN, q \in Quantities :
          /\ q > 0
          /\ Call(c, [path |-> path, known |-> known, qty |-> q])
          /\ Goto(c, IF path = "redis" THEN "eval" ELSE "begin")
          /\ UNCHANGED todo
    BY <1>2 DEF Submit, Accepts
  <2>2. [path |-> path, known |-> known, qty |-> q] \in Request
    BY DEF Request
  <2>3. NoSnapshot \in Snapshot
    BY DEF NoSnapshot, Snapshot, NoCounter
  <2>4. TypeOK'
    BY <2>1, <2>2, <2>3 DEF TypeOK, Call, Goto, NoReply
  <2>5. Locking'
    BY <2>1 DEF TypeOK, Call, Goto
  <2>6. QED  BY <2>4, <2>5
<1>3. CASE SubmitGet(c)
  <2>1. PICK known \in BOOLEAN :
          /\ Call(c, [path |-> "get", known |-> known, qty |-> 0])
          /\ BeginReads(c, ReadsFor("get"))
    BY <1>3 DEF SubmitGet
  <2>2. [path |-> "get", known |-> known, qty |-> 0] \in Request
    BY DEF Request
  <2>3. NoSnapshot \in Snapshot
    BY DEF NoSnapshot, Snapshot, NoCounter
  <2>4. TypeOK'
    <3>1. /\ pc' \in [Clients -> {"idle", "eval", "begin", "select", "write", "commit", "read"}]
          /\ todo' \in [Clients -> Seq({"db", "redis", "ledger"})]
      BY <2>1, BeginReadsType
    <3>2. req' \in [Clients -> Request] /\ snap' \in [Clients -> Snapshot]
      BY <2>1, <2>2, <2>3 DEF TypeOK, Call
    <3>3. reply' \in [Clients -> [code : Nat, remaining : Int]]
      BY <2>1 DEF TypeOK, Call, NoReply
    <3>4. UNCHANGED <<impl, stock, ledger, rowLock, counter, granted, service, warmStock, boots,
                      faults, txStock>>
      BY <2>1 DEF Call
    <3>5. QED  BY <3>1, <3>2, <3>3, <3>4 DEF TypeOK
  <2>5. Locking'
    BY <2>1 DEF TypeOK, Call, BeginReads, Goto
  <2>6. QED  BY <2>4, <2>5
<1>4. QED  BY <1>1, <1>2, <1>3

\* The script only takes what the counter holds.
LEMMA LuaTakesType ==
  ASSUME IInv, NEW c \in Clients, pc[c] = "eval", LuaTakes(c)
  PROVE  counter' \in Nat /\ granted' \in Nat
<1>1. req[c].qty \in Nat
  BY DEF IInv, TypeOK, Locking, Request
<1>2. counter \in Nat /\ counter >= req[c].qty
  BY DEF IInv, TypeOK, LuaTakes, LuaAllows, CounterOf
<1>3. granted \in Nat
  BY DEF IInv, TypeOK
<1>4. counter' = counter - req[c].qty /\ granted' = granted + req[c].qty
  BY DEF LuaTakes
<1>5. QED
  BY <1>1, <1>2, <1>3, <1>4

LEMMA RedisPathIInv ==
  ASSUME IInv, NEW c \in Clients, EvalLua(c) \/ EvalFails(c) \/ EvalResent(c)
  PROVE  IInv'
<1> USE DEF dbVars, redisVars, bootVars
<1>0. TypeOK /\ Locking /\ pc[c] = "eval"
  BY DEF IInv, EvalLua, EvalFails, EvalResent
<1>1. CASE EvalLua(c)
  <2>1. CASE LuaTakes(c) /\ Answer(c, 200, counter')
    <3>1. counter' \in Nat /\ counter' \in Int /\ granted' \in Nat /\ 200 \in Nat
      BY <1>0, <2>1, LuaTakesType
    <3>2. TypeOK'
      <4>1. SharedType'
        BY <1>0, <1>1, <2>1, <3>1 DEF EvalLua, TypeOK, SharedType
      <4>2. QED  BY <1>0, <2>1, <3>1, <4>1, AnswerKeepsType
    <3>3. Locking'
      BY <1>1, <2>1, AnswerLocking DEF EvalLua
    <3>4. QED  BY <3>2, <3>3 DEF IInv
  <2>2. CASE UNCHANGED redisVars /\ Answer(c, 404, 0)
    <3>1. 404 \in Nat /\ 0 \in Int
      OBVIOUS
    <3>2. TypeOK'
      <4>1. SharedType'
        BY <1>0, <1>1, <2>2, <3>1 DEF EvalLua, TypeOK, SharedType
      <4>2. QED  BY <1>0, <2>2, <3>1, <4>1, AnswerKeepsType
    <3>3. Locking'
      BY <1>1, <2>2, AnswerLocking DEF EvalLua
    <3>4. QED  BY <3>2, <3>3 DEF IInv
  <2>3. CASE /\ UNCHANGED redisVars /\ BeginReads(c, ReadsFor("redis"))
             /\ UNCHANGED <<txStock, reply>>
    <3>1. TypeOK'
      BY <1>0, <1>1, <2>3, BeginReadsType DEF EvalLua, TypeOK
    <3>2. Locking'
      BY <1>0, <1>1, <2>3 DEF EvalLua, Locking, TypeOK, BeginReads, Goto
    <3>3. QED  BY <3>1, <3>2 DEF IInv
  <2>4. QED  BY <1>1, <2>1, <2>2, <2>3 DEF EvalLua
<1>2. CASE EvalFails(c)
  <2>1. counter' \in Nat \cup {NoCounter} /\ granted' \in Nat
    BY <1>0, <1>2, LuaTakesType DEF EvalFails, TypeOK
  <2>2. Answer(c, 500, 0) /\ 500 \in Nat /\ 0 \in Int
    BY <1>2 DEF EvalFails
  <2>3. TypeOK'
    <3>1. /\ pc' \in [Clients -> {"idle", "eval", "begin", "select", "write", "commit", "read"}]
          /\ reply' \in [Clients -> [code : Nat, remaining : Int]]
          /\ txStock' \in [Clients -> Int]
          /\ todo' \in [Clients -> Seq({"db", "redis", "ledger"})]
      BY <1>0, <2>2, AnswerType
    <3>2. UNCHANGED <<impl, dbVars, bootVars, req, snap>>
      BY <1>2 DEF EvalFails
    <3>3. QED  BY <1>0, <2>1, <3>1, <3>2 DEF TypeOK, dbVars, bootVars
  <2>4. Locking'
    BY <1>2, <2>2, AnswerLocking DEF EvalFails
  <2>5. QED  BY <2>3, <2>4 DEF IInv
<1>3. CASE EvalResent(c)
  <2>1. counter' \in Nat /\ granted' \in Nat
    BY <1>0, <1>3, LuaTakesType DEF EvalResent
  <2>2. TypeOK'
    BY <1>0, <1>3, <2>1 DEF EvalResent, TypeOK, readVars
  <2>3. Locking'
    BY <1>0, <1>3 DEF EvalResent, Locking
  <2>4. QED  BY <2>2, <2>3 DEF IInv
<1>4. QED  BY <1>1, <1>2, <1>3

LEMMA BeginIInv ==
  ASSUME IInv, NEW c \in Clients, BeginTransaction(c)
  PROVE  IInv'
<1> USE DEF dbVars, redisVars, bootVars, readVars
<1>1. TypeOK'
  BY DEF IInv, TypeOK, BeginTransaction, Goto
<1>2. Locking'
  BY DEF IInv, TypeOK, Locking, BeginTransaction, Goto
<1>3. QED  BY <1>1, <1>2 DEF IInv

LEMMA SelectIInv ==
  ASSUME IInv, NEW c \in Clients, SelectForUpdate(c)
  PROVE  IInv'
<1> USE DEF redisVars, bootVars
<1>0. TypeOK /\ Locking /\ pc[c] = "select"
  BY DEF IInv, SelectForUpdate
<1>1. CASE Answer(c, 404, 0) /\ UNCHANGED rowLock
  <2>1. 404 \in Nat /\ 0 \in Int
    OBVIOUS
  <2>2. TypeOK'
    <3>1. SharedType'
      BY <1>0, <1>1 DEF SelectForUpdate, TypeOK, SharedType
    <3>2. QED  BY <1>0, <1>1, <2>1, <3>1, AnswerKeepsType
  <2>3. Locking'
    BY <1>1, AnswerLocking DEF SelectForUpdate
  <2>4. QED  BY <2>2, <2>3 DEF IInv
<1>2. CASE /\ RowIsFree
           /\ rowLock' = c /\ txStock' = [txStock EXCEPT ![c] = stock]
           /\ Goto(c, "write") /\ UNCHANGED <<todo, reply>>
  <2>1. TypeOK'
    BY <1>0, <1>2 DEF SelectForUpdate, TypeOK, Goto
  <2>2. Locking'
    BY <1>0, <1>2 DEF SelectForUpdate, TypeOK, Goto, Locking, RowIsFree
  <2>3. QED  BY <2>1, <2>2 DEF IInv
<1>3. QED  BY <1>1, <1>2 DEF SelectForUpdate

LEMMA WriteIInv ==
  ASSUME IInv, NEW c \in Clients, WriteRows(c)
  PROVE  IInv'
<1> USE DEF redisVars, bootVars
<1>0. TypeOK /\ Locking /\ pc[c] = "write"
  BY DEF IInv, WriteRows
<1>1. CASE Release(c) /\ BeginReads(c, ReadsFor("db"))
  <2>1. TypeOK'
    BY <1>0, <1>1, BeginReadsType DEF WriteRows, TypeOK, Release
  <2>2. Locking'
    BY <1>0, <1>1 DEF WriteRows, TypeOK, Release, Locking, BeginReads, Goto
  <2>3. QED  BY <2>1, <2>2 DEF IInv
<1>2. CASE /\ txStock[c] >= req[c].qty
           /\ Goto(c, "commit") /\ UNCHANGED <<rowLock, todo>>
  <2>1. TypeOK'
    BY <1>0, <1>2 DEF WriteRows, TypeOK, Goto
  <2>2. req[c].qty \in Int /\ txStock[c] \in Int
    BY <1>0 DEF TypeOK, Request
  <2>3. Locking'
    BY <1>0, <1>2, <2>2 DEF WriteRows, TypeOK, Goto, Locking
  <2>4. QED  BY <2>1, <2>3 DEF IInv
<1>3. QED  BY <1>1, <1>2 DEF WriteRows

\* A commit sells at least one unit and no more than the committed stock.
LEMMA CommitStep ==
  ASSUME IInv, NEW c \in Clients, pc[c] = "commit", CommitApplies(c)
  PROVE  /\ req[c].qty \in 1 .. stock
         /\ stock' = stock - req[c].qty
         /\ ledger' = Append(ledger, [delta |-> -req[c].qty, remaining |-> stock'])
         /\ stock' \in 0 .. Seed
         /\ ledger' \in Seq(LedgerRow)
<1>1. req[c].qty \in Int /\ txStock[c] \in Int /\ ledger \in Seq(LedgerRow) /\ stock \in 0 .. Seed
  BY DEF IInv, TypeOK, Request
<1>2. req[c].qty > 0 /\ req[c].qty <= txStock[c] /\ txStock[c] = stock
  BY DEF IInv, Locking
<1>3. /\ stock' = stock - req[c].qty
      /\ ledger' = Append(ledger, [delta |-> -req[c].qty, remaining |-> stock'])
  BY <1>2 DEF CommitApplies, NewLedgerRow
<1>4. [delta |-> -req[c].qty, remaining |-> stock'] \in LedgerRow
  BY <1>1, <1>3 DEF LedgerRow
<1>5. QED  BY <1>1, <1>2, <1>3, <1>4

\* The holder of the lock gives it up as its handler returns; nobody else is
\* between SELECT and COMMIT, so the stock may change under nobody.
LEMMA ReleaseLocking ==
  ASSUME IInv, NEW c \in Clients, NEW code, NEW remaining,
         Answer(c, code, remaining), Release(c), UNCHANGED req,
         UNCHANGED stock \/ pc[c] = "commit"
  PROVE  Locking'
  BY DEF IInv, TypeOK, Locking, Answer, Goto, Release

LEMMA CommitIInv ==
  ASSUME IInv, NEW c \in Clients, Commit(c) \/ DbFails(c)
  PROVE  IInv'
<1> USE DEF redisVars, bootVars
<1>0. TypeOK
  BY DEF IInv
<1>1. CASE Commit(c)
  <2>1. /\ pc[c] = "commit" /\ CommitApplies(c) /\ Release(c)
        /\ Answer(c, 200, txStock[c] - req[c].qty)
    BY <1>1 DEF Commit
  <2>2. 200 \in Nat /\ txStock[c] - req[c].qty \in Int
    BY <1>0 DEF TypeOK, Request
  <2>3. stock' \in 0 .. Seed /\ ledger' \in Seq(LedgerRow)
    BY <2>1, CommitStep
  <2>4. rowLock' \in Clients \cup {Nobody}
    BY <1>0, <2>1 DEF TypeOK, Release
  <2>5. UNCHANGED <<impl, counter, granted, service, warmStock, boots, faults, req, snap>>
    BY <1>1 DEF Commit
  <2>6. TypeOK'
    <3>1. SharedType'
      BY <1>0, <2>2, <2>3, <2>4, <2>5 DEF TypeOK, SharedType
    <3>2. QED  BY <1>0, <2>1, <2>2, <2>3, <2>4, <3>1, AnswerKeepsType
  <2>7. Locking'
    BY <1>1, <2>1, ReleaseLocking DEF Commit
  <2>8. QED  BY <2>6, <2>7 DEF IInv
<1>2. CASE DbFails(c)
  <2>1. Release(c) /\ Answer(c, 500, 0) /\ 500 \in Nat /\ 0 \in Int
    BY <1>2 DEF DbFails
  <2>2. stock' \in 0 .. Seed /\ ledger' \in Seq(LedgerRow)
    BY <1>0, <1>2, CommitStep DEF DbFails, RolledBack, TypeOK
  <2>3. rowLock' \in Clients \cup {Nobody}
    BY <1>0, <2>1 DEF TypeOK, Release
  <2>4. UNCHANGED <<impl, counter, granted, service, warmStock, boots, faults, req, snap>>
    BY <1>2 DEF DbFails
  <2>5. TypeOK'
    <3>1. SharedType'
      BY <1>0, <2>2, <2>3, <2>4 DEF TypeOK, SharedType
    <3>2. QED  BY <1>0, <2>1, <3>1, AnswerKeepsType
  <2>6. Locking'
    BY <1>2, <2>1, ReleaseLocking DEF DbFails, RolledBack
  <2>7. QED  BY <2>5, <2>6 DEF IInv
<1>3. QED  BY <1>1, <1>2

\* A read changes nothing but the snapshot and what is left to read.
LEMMA ReadIInv ==
  ASSUME IInv, NEW c \in Clients, NEW seen \in Snapshot,
         NEW left \in Seq({"db", "redis", "ledger"}), Read(c, seen, left)
  PROVE  IInv'
  BY DEF IInv, TypeOK, Locking, Read, dbVars, redisVars, bootVars

LEMMA TailType ==
  ASSUME TypeOK, NEW c \in Clients, todo[c] # <<>>
  PROVE  Tail(todo[c]) \in Seq({"db", "redis", "ledger"})
<1>1. todo[c] \in Seq({"db", "redis", "ledger"})
  BY DEF TypeOK
<1>2. QED  BY <1>1

\* A read replaces one field of the snapshot by a value of its type.
LEMMA SnapshotUpdates ==
  ASSUME NEW s \in Snapshot
  PROVE  /\ \A value \in Int : [s EXCEPT !.db = value] \in Snapshot
         /\ \A value \in Int : [s EXCEPT !.redis = value] \in Snapshot
         /\ \A rows \in Seq(LedgerRow) : [s EXCEPT !.ledger = rows] \in Snapshot
  BY DEF Snapshot

LEMMA SnapshotReadsIInv ==
  ASSUME IInv, NEW c \in Clients,
         ReadDb(c) \/ ReadRedis(c) \/ ReadLedger(c) \/ ReadLedgerCutShortGo(c) \/ ReadRedisFailsGo(c)
  PROVE  IInv'
<1>0. TypeOK /\ todo[c] # <<>> /\ snap[c] \in Snapshot /\ ledger \in Seq(LedgerRow)
  BY DEF IInv, TypeOK, ReadDb, ReadRedis, ReadLedger, ReadLedgerCutShortGo, ReadRedisFailsGo, Reading
<1>1. Tail(todo[c]) \in Seq({"db", "redis", "ledger"}) /\ <<>> \in Seq({"db", "redis", "ledger"})
  BY <1>0, TailType
<1>2. CASE ReadDb(c)
  <2>1. RowSeen(c) \in Int
    BY <1>0 DEF TypeOK, RowSeen
  <2>2. [snap[c] EXCEPT !.db = RowSeen(c)] \in Snapshot
    BY <1>0, <2>1, SnapshotUpdates
  <2>3. QED  BY <1>1, <1>2, <2>2, ReadIInv DEF ReadDb
<1>3. CASE ReadRedis(c)
  <2>1. CounterOf(c) \in Int
    BY <1>0 DEF TypeOK, CounterOf, NoCounter
  <2>2. [snap[c] EXCEPT !.redis = CounterOf(c)] \in Snapshot
    BY <1>0, <2>1, SnapshotUpdates
  <2>3. QED  BY <1>1, <1>3, <2>2, ReadIInv DEF ReadRedis
<1>4. CASE ReadLedger(c)
  <2>1. (IF InConflict(c) THEN <<>> ELSE ledger) \in Seq(LedgerRow)
    BY <1>0
  <2>2. [snap[c] EXCEPT !.ledger = IF InConflict(c) THEN <<>> ELSE ledger] \in Snapshot
    BY <1>0, <2>1, SnapshotUpdates
  <2>3. QED  BY <1>1, <1>4, <2>2, ReadIInv DEF ReadLedger
<1>5. CASE ReadLedgerCutShortGo(c)
  <2>1. PICK n \in 0 .. Len(ledger) - 1 :
          Read(c, [snap[c] EXCEPT !.ledger = SubSeq(ledger, 1, n)], Tail(todo[c]))
    BY <1>5 DEF ReadLedgerCutShortGo
  <2>2. \A i \in 1 .. n : ledger[i] \in LedgerRow
    BY <1>0, <2>1
  <2>3. SubSeq(ledger, 1, n) \in Seq(LedgerRow)
    BY <2>1, <2>2, SubSeqProperties
  <2>4. [snap[c] EXCEPT !.ledger = SubSeq(ledger, 1, n)] \in Snapshot
    BY <1>0, <2>3, SnapshotUpdates
  <2>5. QED  BY <1>1, <2>1, <2>4, ReadIInv
<1>6. CASE ReadRedisFailsGo(c)
  <2>1. NoCounter \in Int
    BY DEF NoCounter
  <2>2. [snap[c] EXCEPT !.redis = NoCounter] \in Snapshot
    BY <1>0, <2>1, SnapshotUpdates
  <2>3. QED  BY <1>1, <1>6, <2>2, ReadIInv DEF ReadRedisFailsGo
<1>7. QED  BY <1>2, <1>3, <1>4, <1>5, <1>6

LEMMA SnapshotAnswersIInv ==
  ASSUME IInv, NEW c \in Clients, ReadDbUnknown(c) \/ ReadFails(c) \/ AnswerFromSnapshot(c)
  PROVE  IInv'
<1>0. TypeOK /\ snap \in [Clients -> Snapshot]
  BY DEF IInv, TypeOK
<1>a. NoSnapshot \in Snapshot
  BY DEF NoSnapshot, Snapshot, NoCounter
<1>1. CASE ReadDbUnknown(c)
  <2>1. 404 \in Nat /\ 0 \in Int
    OBVIOUS
  <2>2. QED  BY <1>0, <1>1, <2>1, AnswerIInv DEF ReadDbUnknown
<1>2. CASE ReadFails(c)
  <2>1. Answer(c, 409, 0) \/ Answer(c, 500, 0)
    BY <1>2 DEF ReadFails
  <2>2. snap' \in [Clients -> Snapshot]
    BY <1>0, <1>a, <1>2 DEF ReadFails
  <2>3. 409 \in Nat /\ 500 \in Nat /\ 0 \in Int
    OBVIOUS
  <2>4. QED  BY <1>2, <2>1, <2>2, <2>3, AnswerIInv DEF ReadFails
<1>3. CASE AnswerFromSnapshot(c)
  <2>1. RemainingFor(snap[c]) \in Int /\ snap[c].db \in Int
    BY <1>0 DEF Snapshot, RemainingFor
  <2>2. Answer(c, 409, RemainingFor(snap[c])) \/ Answer(c, 200, snap[c].db)
    BY <1>3 DEF AnswerFromSnapshot
  <2>3. 409 \in Nat /\ 200 \in Nat /\ snap' \in [Clients -> Snapshot]
    BY <1>0, <1>3 DEF AnswerFromSnapshot
  <2>4. QED  BY <1>3, <2>1, <2>2, <2>3, AnswerIInv DEF AnswerFromSnapshot
<1>4. QED  BY <1>1, <1>2, <1>3

\* Every step keeps the inductive invariant.
LEMMA NextIInv == IInv /\ [Next]_vars => IInv'
<1> SUFFICES ASSUME IInv, [Next]_vars PROVE IInv'
  OBVIOUS
<1>1. CASE Boot  BY <1>1, BootIInv
<1>2. CASE Crash \/ RedisLoss  BY <1>2, EnvironmentIInv
<1>3. ASSUME NEW c \in Clients, Refuse(c) \/ Submit(c) \/ SubmitGet(c)
      PROVE  IInv'
  BY <1>3, SubmitIInv
<1>4. ASSUME NEW c \in Clients, Progress(c) \/ Failure(c)
      PROVE  IInv'
  BY <1>4, RedisPathIInv, BeginIInv, SelectIInv, WriteIInv, CommitIInv, SnapshotReadsIInv,
     SnapshotAnswersIInv DEF Progress, Failure
<1>5. CASE UNCHANGED vars  BY <1>5, StutterIInv
<1>6. QED  BY <1>1, <1>2, <1>3, <1>4, <1>5 DEF Next

LEMMA AlwaysIInv == Spec => []IInv
  BY InitIInv, NextIInv, PTL DEF Spec

\* The durable stock never leaves 0 .. Seed: the CHECK of seed.sql is never
\* what stops a decrement, because the row lock has stopped it before.
THEOREM TypeCorrect == Spec => []TypeOK
<1>1. IInv => TypeOK  BY DEF IInv
<1>2. QED  BY <1>1, AlwaysIInv, PTL

-----------------------------------------------------------------------------
(* Only a commit, applied with or without its answer, touches the durable  *)
(* tables.                                                                 *)

DurableUnchanged == UNCHANGED <<stock, ledger>>

LEMMA DurableStep ==
  ASSUME IInv, [Next]_vars
  PROVE  \/ DurableUnchanged
         \/ \E c \in Clients : pc[c] = "commit" /\ CommitApplies(c)
<1> USE DEF DurableUnchanged, dbVars
<1>1. CASE Boot
  BY <1>1 DEF Boot, WarmRead, WarmSet, WarmSkippedGo, Listen
<1>2. CASE Crash \/ RedisLoss
  BY <1>2 DEF Crash, RedisLoss
<1>3. CASE UNCHANGED vars
  BY <1>3 DEF vars
<1>4. ASSUME NEW c \in Clients, Refuse(c) \/ Submit(c) \/ SubmitGet(c)
      PROVE  DurableUnchanged
  BY <1>4 DEF Refuse, Submit, SubmitGet, Call
<1>5. ASSUME NEW c \in Clients, Progress(c)
      PROVE  DurableUnchanged \/ (pc[c] = "commit" /\ CommitApplies(c))
  BY <1>5 DEF Progress, EvalLua, BeginTransaction, SelectForUpdate, WriteRows, Commit, ReadDb, ReadDbUnknown,
     ReadRedis, ReadLedger, AnswerFromSnapshot, Read
<1>6. ASSUME NEW c \in Clients, Failure(c)
      PROVE  DurableUnchanged \/ (pc[c] = "commit" /\ CommitApplies(c))
  BY <1>6 DEF Failure, EvalFails, EvalResent, DbFails, RolledBack, ReadFails, ReadRedisFailsGo, ReadLedgerCutShortGo, Read
<1>7. QED  BY <1>1, <1>2, <1>3, <1>4, <1>5, <1>6 DEF Next

\* The chain of the ledger is extended by a commit, never broken.
LEMMA NextLedger ==
  ASSUME IInv, LedgerExplainsStock, [Next]_vars
  PROVE  LedgerExplainsStock'
<1>1. CASE DurableUnchanged
  BY <1>1 DEF LedgerExplainsStock, Balance, DurableUnchanged
<1>2. ASSUME NEW c \in Clients, pc[c] = "commit", CommitApplies(c)
      PROVE  LedgerExplainsStock'
  <2>1. /\ req[c].qty \in 1 .. stock /\ stock \in 0 .. Seed
        /\ stock' = stock - req[c].qty
        /\ ledger' = Append(ledger, [delta |-> -req[c].qty, remaining |-> stock'])
        /\ ledger \in Seq(LedgerRow)
    BY <1>2, CommitStep DEF IInv, TypeOK
  <2> DEFINE n == Len(ledger)
  <2>2. n \in Nat /\ Len(ledger') = n + 1
    BY <2>1
  <2>3. \A i \in 1 .. n : ledger'[i] = ledger[i]
    BY <2>1
  <2>4. ledger'[n + 1] = [delta |-> -req[c].qty, remaining |-> stock']
    BY <2>1
  <2>5. \A i \in 0 .. n : Balance(ledger', i) = Balance(ledger, i)
    BY <2>2, <2>3 DEF Balance
  <2>6. stock = Balance(ledger, n)
    BY DEF LedgerExplainsStock
  <2>7. ASSUME NEW i \in 1 .. n + 1
        PROVE  ledger'[i].delta < 0 /\ ledger'[i].remaining = Balance(ledger', i - 1) + ledger'[i].delta
    <3>1. CASE i <= n
      <4>1. i \in 1 .. n /\ i - 1 \in 0 .. n
        BY <2>2, <3>1
      <4>2. ledger[i].delta < 0 /\ ledger[i].remaining = Balance(ledger, i - 1) + ledger[i].delta
        BY <4>1 DEF LedgerExplainsStock
      <4>3. QED  BY <2>3, <2>5, <4>1, <4>2
    <3>2. CASE i = n + 1
      <4>1. ledger'[i].delta = -req[c].qty /\ ledger'[i].remaining = stock'
        BY <2>4, <3>2
      <4>2. Balance(ledger', i - 1) = stock
        BY <2>2, <2>5, <2>6, <3>2
      <4>3. req[c].qty \in Int /\ req[c].qty > 0 /\ stock \in Int /\ stock' = stock - req[c].qty
        BY <2>1 DEF IInv, TypeOK
      <4>4. QED  BY <4>1, <4>2, <4>3
    <3>3. QED  BY <2>2, <3>1, <3>2
  <2>8. stock' = Balance(ledger', n + 1)
    BY <2>2, <2>4 DEF Balance
  <2>9. QED  BY <2>2, <2>7, <2>8 DEF LedgerExplainsStock
<1>3. QED  BY <1>1, <1>2, DurableStep

\* In every reachable state the ledger explains the committed stock.
THEOREM LedgerCorrect == Spec => []LedgerExplainsStock
<1>1. Init => LedgerExplainsStock
  BY DEF Init, LedgerExplainsStock, Balance
<1>2. IInv /\ LedgerExplainsStock /\ [Next]_vars => LedgerExplainsStock'
  BY NextLedger
<1>3. QED  BY <1>1, <1>2, AlwaysIInv, PTL DEF Spec

\* Seen from the two tables, the service only makes the indivisible sales of
\* AtomicStock: transactions, retries, failures and crashes are stuttering.
THEOREM SalesRefine == Spec => SalesAreAtomic
<1>1. Init => Durable!Init
  BY DEF Init, Durable!Init
<1>2. IInv /\ [Next]_vars => [Durable!Next]_<<stock, ledger>>
  <2> SUFFICES ASSUME IInv, [Next]_vars PROVE [Durable!Next]_<<stock, ledger>>
    OBVIOUS
  <2>1. CASE DurableUnchanged
    BY <2>1 DEF DurableUnchanged
  <2>2. ASSUME NEW c \in Clients, pc[c] = "commit", CommitApplies(c)
        PROVE  Durable!Next
    BY <2>2, CommitStep DEF Durable!Next, Durable!Sell
  <2>3. QED  BY <2>1, <2>2, DurableStep
<1>3. QED  BY <1>1, <1>2, AlwaysIInv, PTL DEF Spec, SalesAreAtomic, Durable!Spec

-----------------------------------------------------------------------------
(* The Redis path.                                                         *)

\* What a boot read is no more than the seed, so each warming adds at most a
\* seed's worth to what the counter can give away.
LEMMA NextOversell ==
  ASSUME IInv, OversellBound, [Next]_vars
  PROVE  OversellBound'
<1> DEFINE Counted == <<counter, granted, boots>>
<1> USE DEF dbVars, redisVars, bootVars
<1>0. /\ counter \in Nat \cup {NoCounter} /\ granted \in Nat /\ boots \in Nat
      /\ warmStock \in 0 .. Seed
      /\ granted + CounterLeft <= Seed * boots
  BY DEF IInv, TypeOK, OversellBound
<1>1. CASE UNCHANGED Counted
  BY <1>1 DEF OversellBound, CounterLeft
<1>2. CASE WarmSet
  <2>1. counter' = warmStock /\ granted' = granted /\ boots' = boots + 1
    BY <1>2 DEF WarmSet
  <2>2. Seed * boots' = Seed * boots + Seed
    BY <1>0, <2>1
  <2>3. granted <= Seed * boots
    BY <1>0 DEF CounterLeft, NoCounter
  <2>4. granted' + CounterLeft' <= Seed * boots + Seed
    BY <1>0, <2>1, <2>3 DEF CounterLeft, NoCounter
  <2>5. QED  BY <2>2, <2>4 DEF OversellBound
<1>3. CASE RedisLoss
  BY <1>0, <1>3 DEF RedisLoss, OversellBound, CounterLeft, NoCounter
<1>4. ASSUME NEW c \in Clients, pc[c] = "eval", LuaTakes(c), UNCHANGED boots
      PROVE  OversellBound'
  <2>1. counter' \in Nat /\ granted' \in Nat
    BY <1>4, LuaTakesType
  <2>2. req[c].qty \in Int /\ counter # NoCounter
    BY <1>4 DEF IInv, TypeOK, Request, LuaTakes, LuaAllows, CounterOf
  <2>3. counter' = counter - req[c].qty /\ granted' = granted + req[c].qty
    BY <1>4 DEF LuaTakes
  <2>4. granted' + CounterLeft' = granted + CounterLeft
    BY <1>0, <2>1, <2>2, <2>3 DEF CounterLeft, NoCounter
  <2>5. QED  BY <1>0, <1>4, <2>4 DEF OversellBound
<1>5. CASE Boot \/ Crash \/ UNCHANGED vars
  BY <1>1, <1>2, <1>5 DEF Boot, WarmRead, WarmSkippedGo, Listen, Crash, vars
<1>6. ASSUME NEW c \in Clients, Refuse(c) \/ Submit(c) \/ SubmitGet(c)
      PROVE  UNCHANGED Counted
  BY <1>6 DEF Refuse, Submit, SubmitGet, Call
<1>7. ASSUME NEW c \in Clients, Progress(c)
      PROVE  UNCHANGED Counted \/ (pc[c] = "eval" /\ LuaTakes(c) /\ UNCHANGED boots)
  BY <1>7 DEF Progress, EvalLua, BeginTransaction, SelectForUpdate, WriteRows, Commit, ReadDb, ReadDbUnknown,
     ReadRedis, ReadLedger, AnswerFromSnapshot, Read
<1>8. ASSUME NEW c \in Clients, Failure(c)
      PROVE  UNCHANGED Counted \/ (pc[c] = "eval" /\ LuaTakes(c) /\ UNCHANGED boots)
  BY <1>8 DEF Failure, EvalFails, EvalResent, DbFails, ReadFails, ReadRedisFailsGo, ReadLedgerCutShortGo, Read
<1>9. QED
  BY <1>1, <1>3, <1>4, <1>5, <1>6, <1>7, <1>8 DEF Next

\* The Redis path sells at most one seed's worth per warming.
THEOREM OversellBounded == Spec => []OversellBound
<1>1. Init => OversellBound
  BY DEF Init, OversellBound, CounterLeft
<1>2. IInv /\ OversellBound /\ [Next]_vars => OversellBound'
  BY NextOversell
<1>3. QED  BY <1>1, <1>2, AlwaysIInv, PTL DEF Spec

-----------------------------------------------------------------------------
(* A 409 of the Redis path.                                                *)

\* Why a counter read after the refusal is still too little: a handler that
\* was refused reads while the process serves, and while it serves nothing
\* raises the counter; no answer is pending from before.
ShortageOf(c) ==
  /\ service # "serving" => pc[c] = "idle"
  /\ snap[c].redis \in Nat \cup {NoCounter}
  /\ pc[c] # "idle" => reply[c].code = 0
  /\ pc[c] = "eval" => req[c].path = "redis" /\ snap[c].redis = NoCounter
  /\ pc[c] \in {"begin", "select", "write", "commit"} => req[c].path = "db"
  /\ pc[c] = "read" /\ req[c].path = "redis" =>
       /\ CounterOf(c) < req[c].qty
       /\ snap[c].redis < req[c].qty
       /\ req[c].qty > 0
  /\ req[c].path = "redis" /\ reply[c].code = 409 /\ snap[c].redis # NoCounter
       => reply[c].remaining < req[c].qty

SInv == \A c \in Clients : ShortageOf(c)

LEMMA InitSInv == Init => SInv
<1> SUFFICES ASSUME Init, NEW c \in Clients PROVE ShortageOf(c)
  BY DEF SInv
<1>1. /\ pc[c] = "idle" /\ req[c].path = "get"
      /\ snap[c].redis = NoCounter
      /\ reply[c].code = 0
  BY DEF Init, NoRequest, NoSnapshot, NoReply
<1>2. QED  BY <1>1 DEF ShortageOf

\* A step of another kind than the Redis path that leaves requests, snapshots
\* and places of the callers alone keeps the property if the counter does not
\* grow while somebody is served.
LEMMA BootSInv ==
  ASSUME IInv, SInv, Boot \/ Crash \/ RedisLoss \/ UNCHANGED vars
  PROVE  SInv'
<1> USE DEF SInv, ShortageOf, dbVars, redisVars, bootVars, readVars
<1>0. counter \in Nat \cup {NoCounter} /\ req \in [Clients -> Request]
  BY DEF IInv, TypeOK
<1>1. CASE Boot
  <2>1. service # "serving" /\ UNCHANGED <<pc, req, snap, reply>>
    BY <1>1 DEF Boot, WarmRead, WarmSet, WarmSkippedGo, Listen
  <2>2. \A c \in Clients : pc[c] = "idle"
    BY <2>1
  <2>3. QED  BY <2>1, <2>2
<1>2. CASE Crash
  BY <1>2 DEF Crash, NoSnapshot, NoCounter, NoRequest
<1>3. CASE RedisLoss
  <2>1. \A c \in Clients : CounterOf(c)' = NoCounter
    BY <1>3 DEF RedisLoss, CounterOf
  <2>2. \A c \in Clients : req[c].qty > 0 => NoCounter < req[c].qty
    BY <1>0 DEF Request, NoCounter
  <2>3. QED  BY <1>3, <2>1, <2>2 DEF RedisLoss
<1>4. CASE UNCHANGED vars
  BY <1>4 DEF vars, CounterOf
<1>5. QED  BY <1>1, <1>2, <1>3, <1>4

\* What one caller does keeps the property of the others, as long as it does
\* not raise the counter.
LEMMA OthersSInv ==
  ASSUME IInv, SInv, NEW c \in Clients, NEW d \in Clients \ {c},
         UNCHANGED <<service, pc[d], req[d], snap[d], reply[d]>>,
         UNCHANGED counter \/ (counter # NoCounter /\ counter' \in Int /\ counter' <= counter)
  PROVE  ShortageOf(d)'
<1>1. ShortageOf(d) /\ req[d].qty \in Int /\ counter \in Int
  BY DEF SInv, IInv, TypeOK, Request, NoCounter
<1>2. CounterOf(d)' \in Int /\ CounterOf(d)' <= CounterOf(d) /\ CounterOf(d) \in Int
  BY <1>1 DEF CounterOf, NoCounter
<1>3. pc[d] = "read" /\ req[d].path = "redis" => CounterOf(d)' < req[d].qty
  BY <1>1, <1>2 DEF ShortageOf
<1>4. QED  BY <1>1, <1>3 DEF ShortageOf

\* A step of one caller keeps the property of all when it keeps its own.
LEMMA CallerSInv ==
  ASSUME IInv, SInv, NEW c \in Clients, ShortageOf(c)', UNCHANGED service,
         \A d \in Clients \ {c} : UNCHANGED <<pc[d], req[d], snap[d], reply[d]>>,
         UNCHANGED counter \/ (counter # NoCounter /\ counter' \in Int /\ counter' <= counter)
  PROVE  SInv'
  BY OthersSInv DEF SInv

LEMMA SubmitSInv ==
  ASSUME IInv, SInv, NEW c \in Clients, Refuse(c) \/ Submit(c) \/ SubmitGet(c)
  PROVE  SInv'
<1> USE DEF dbVars, redisVars, bootVars
<1>0. TypeOK /\ ShortageOf(c)
  BY DEF IInv, SInv
<1>1. /\ UNCHANGED service /\ UNCHANGED counter
      /\ \A d \in Clients \ {c} : UNCHANGED <<pc[d], req[d], snap[d], reply[d]>>
  <2>1. CASE Refuse(c)
    BY <1>0, <2>1 DEF Refuse, Answer, Goto, TypeOK
  <2>2. CASE Submit(c)
    BY <1>0, <2>2 DEF Submit, Call, Goto, TypeOK
  <2>3. CASE SubmitGet(c)
    BY <1>0, <2>3 DEF SubmitGet, Call, BeginReads, Goto, TypeOK
  <2>4. QED  BY <2>1, <2>2, <2>3
<1>2. ShortageOf(c)'
  <2>1. CASE Refuse(c)
    BY <1>0, <2>1 DEF Refuse, Answer, Goto, ShortageOf, TypeOK
  <2>2. CASE Submit(c)
    BY <1>0, <2>2 DEF Submit, Call, Goto, ShortageOf, TypeOK, NoSnapshot, NoReply, NoCounter
  <2>3. CASE SubmitGet(c)
    BY <1>0, <2>3 DEF SubmitGet, Call, BeginReads, Goto, ShortageOf, TypeOK, NoSnapshot, NoReply,
       NoCounter
  <2>4. QED  BY <2>1, <2>2, <2>3
<1>3. QED  BY <1>1, <1>2, CallerSInv

\* An answer that is no conflict leaves nothing to report.
LEMMA AnswerShortage ==
  ASSUME IInv, SInv, NEW c \in Clients, NEW code, NEW remaining, code # 409,
         Answer(c, code, remaining), UNCHANGED req, UNCHANGED snap \/ snap'[c] = NoSnapshot
  PROVE  ShortageOf(c)'
  BY DEF IInv, TypeOK, SInv, ShortageOf, Answer, Goto, NoSnapshot

LEMMA EvalSInv ==
  ASSUME IInv, SInv, NEW c \in Clients, EvalLua(c) \/ EvalFails(c) \/ EvalResent(c)
  PROVE  SInv'
<1> USE DEF dbVars, redisVars, bootVars
<1>0. TypeOK /\ ShortageOf(c) /\ pc[c] = "eval" /\ req[c].qty \in Int /\ counter \in Int
  <2>1. TypeOK /\ ShortageOf(c)
    BY DEF IInv, SInv
  <2>2. pc[c] = "eval"
    BY DEF EvalLua, EvalFails, EvalResent
  <2>3. req[c].qty \in Int /\ counter \in Int
    BY <2>1 DEF TypeOK, Request, NoCounter
  <2>4. QED  BY <2>1, <2>2, <2>3
<1>1. /\ UNCHANGED service
      /\ \A d \in Clients \ {c} : UNCHANGED <<pc[d], req[d], snap[d], reply[d]>>
  <2>1. CASE EvalLua(c)
    BY <1>0, <2>1 DEF EvalLua, Answer, BeginReads, Goto, TypeOK
  <2>2. CASE EvalFails(c)
    BY <1>0, <2>2 DEF EvalFails, Answer, Goto, TypeOK
  <2>3. CASE EvalResent(c)
    BY <2>3 DEF EvalResent, readVars
  <2>4. QED  BY <2>1, <2>2, <2>3
<1>2. UNCHANGED counter \/ (counter # NoCounter /\ counter' \in Int /\ counter' <= counter)
  <2>1. CASE LuaTakes(c)
    <3>1. counter # NoCounter /\ counter' = counter - req[c].qty
      BY <2>1 DEF LuaTakes, LuaAllows, CounterOf
    <3>2. req[c].qty > 0
      BY <1>0 DEF IInv, Locking
    <3>3. QED  BY <1>0, <3>1, <3>2
  <2>2. CASE UNCHANGED redisVars
    BY <2>2
  <2>3. QED  BY <2>1, <2>2 DEF EvalLua, EvalFails, EvalResent
<1>3. ShortageOf(c)'
  <2>1. CASE EvalFails(c)
    BY <2>1, AnswerShortage DEF EvalFails
  <2>2. CASE EvalLua(c) /\ ((LuaTakes(c) /\ Answer(c, 200, counter')) \/ Answer(c, 404, 0))
    BY <2>2, AnswerShortage DEF EvalLua
  <2>3. CASE /\ EvalLua(c) /\ ~LuaAllows(CounterOf(c), req[c].qty) /\ UNCHANGED redisVars
             /\ CounterOf(c) # NoCounter /\ BeginReads(c, ReadsFor("redis"))
             /\ UNCHANGED <<txStock, reply>>
    <3>1. UNCHANGED <<req, snap, service>> /\ CounterOf(c)' = CounterOf(c)
      BY <2>3 DEF EvalLua, CounterOf
    <3>2. CounterOf(c) < req[c].qty
      BY <1>0, <2>3 DEF LuaAllows, CounterOf
    <3>3. req[c].qty > 0 /\ snap[c].redis = NoCounter /\ req[c].path = "redis"
      BY <1>0 DEF IInv, Locking, ShortageOf
    <3>4. snap[c].redis < req[c].qty
      BY <1>0, <3>3 DEF NoCounter
    <3>5. pc' = [pc EXCEPT ![c] = "read"]
      BY <2>3 DEF BeginReads, Goto
    <3>6. QED
      BY <1>0, <2>3, <3>1, <3>2, <3>3, <3>4, <3>5 DEF ShortageOf, TypeOK, EvalLua
  <2>4. CASE EvalResent(c)
    BY <1>0, <2>4 DEF EvalResent, ShortageOf, readVars
  <2>5. QED  BY <2>1, <2>2, <2>3, <2>4 DEF EvalLua
<1>4. QED  BY <1>1, <1>2, <1>3, CallerSInv

LEMMA DatabasePathSInv ==
  ASSUME IInv, SInv, NEW c \in Clients,
         BeginTransaction(c) \/ SelectForUpdate(c) \/ WriteRows(c) \/ Commit(c) \/ DbFails(c)
  PROVE  SInv'
<1> USE DEF dbVars, redisVars, bootVars, readVars
<1>0. TypeOK /\ ShortageOf(c)
  BY DEF IInv, SInv
<1>1. /\ UNCHANGED <<service, counter, req, snap>>
      /\ \A d \in Clients \ {c} : UNCHANGED <<pc[d], reply[d]>>
  <2>1. CASE SelectForUpdate(c)
    BY <1>0, <2>1 DEF SelectForUpdate, Answer, Goto, TypeOK
  <2>2. CASE WriteRows(c)
    BY <1>0, <2>2 DEF WriteRows, BeginReads, Goto, TypeOK
  <2>3. CASE Commit(c)
    BY <1>0, <2>3 DEF Commit, Answer, Goto, TypeOK
  <2>4. CASE DbFails(c)
    BY <1>0, <2>4 DEF DbFails, Answer, Goto, TypeOK
  <2>5. CASE BeginTransaction(c)
    BY <1>0, <2>5 DEF BeginTransaction, Goto, TypeOK
  <2>6. QED  BY <2>1, <2>2, <2>3, <2>4, <2>5
<1>2. ShortageOf(c)'
  <2>1. CASE Answer(c, 404, 0) \/ Answer(c, 200, txStock[c] - req[c].qty) \/ Answer(c, 500, 0)
    BY <1>1, <2>1, AnswerShortage
  <2>2. CASE \/ BeginTransaction(c)
             \/ SelectForUpdate(c) /\ Goto(c, "write") /\ UNCHANGED reply
             \/ WriteRows(c) /\ Goto(c, "commit")
             \/ WriteRows(c) /\ Goto(c, "read")
    BY <1>0, <1>1, <2>2 DEF BeginTransaction, SelectForUpdate, WriteRows, Goto, ShortageOf, TypeOK
  <2>3. QED  BY <2>1, <2>2 DEF SelectForUpdate, WriteRows, Commit, DbFails, BeginReads
<1>3. QED  BY <1>1, <1>2, CallerSInv

LEMMA SnapshotSInv ==
  ASSUME IInv, SInv, NEW c \in Clients,
         \/ ReadDb(c) \/ ReadDbUnknown(c) \/ ReadRedis(c) \/ ReadLedger(c) \/ AnswerFromSnapshot(c)
         \/ ReadFails(c) \/ ReadRedisFailsGo(c) \/ ReadLedgerCutShortGo(c)
  PROVE  SInv'
<1> USE DEF dbVars, redisVars, bootVars
<1>0. TypeOK /\ ShortageOf(c) /\ pc[c] = "read"
  BY DEF IInv, SInv, ReadDb, ReadDbUnknown, ReadRedis, ReadLedger, AnswerFromSnapshot,
     ReadFails, ReadRedisFailsGo, ReadLedgerCutShortGo, Reading
<1>1. CASE \E seen, left : Read(c, seen, left) /\ seen.redis \in {snap[c].redis, NoCounter, CounterOf(c)}
  <2>1. PICK seen, left : Read(c, seen, left) /\ seen.redis \in {snap[c].redis, NoCounter, CounterOf(c)}
    BY <1>1
  <2>2. /\ UNCHANGED <<service, counter, pc, req, reply>> /\ snap'[c] = seen
        /\ \A d \in Clients \ {c} : UNCHANGED snap[d]
    BY <1>0, <2>1 DEF Read, TypeOK
  <2>3. CounterOf(c) \in Nat \cup {NoCounter} /\ req[c].qty \in Int
    BY <1>0 DEF TypeOK, CounterOf, Request
  <2>4. req[c].qty > 0 => NoCounter < req[c].qty
    BY <2>3 DEF NoCounter
  <2>5. CounterOf(c)' = CounterOf(c)
    BY <2>2 DEF CounterOf
  <2>6. ShortageOf(c)'
    BY <1>0, <2>1, <2>2, <2>3, <2>4, <2>5 DEF ShortageOf
  <2>7. QED  BY <2>2, <2>6, CallerSInv
<1>2. CASE /\ \E code, remaining : code # 409 /\ Answer(c, code, remaining)
           /\ UNCHANGED <<service, counter, req>>
           /\ UNCHANGED snap \/ snap' = [snap EXCEPT ![c] = NoSnapshot]
  <2>1. ShortageOf(c)'
    BY <1>0, <1>2, AnswerShortage DEF TypeOK
  <2>2. \A d \in Clients \ {c} : UNCHANGED <<pc[d], req[d], snap[d], reply[d]>>
    BY <1>0, <1>2 DEF TypeOK, Answer, Goto
  <2>3. QED  BY <1>2, <2>1, <2>2, CallerSInv
<1>3. CASE Answer(c, 409, 0) /\ ReadFails(c)
  <2>1. snap'[c] = NoSnapshot /\ NoSnapshot.redis = NoCounter
    BY <1>0, <1>3 DEF ReadFails, TypeOK, NoSnapshot
  <2>2. /\ UNCHANGED <<service, counter, req>>
        /\ \A d \in Clients \ {c} : UNCHANGED <<pc[d], snap[d], reply[d]>>
    BY <1>0, <1>3 DEF ReadFails, TypeOK, Answer, Goto
  <2>3. pc'[c] = "idle"
    BY <1>0, <1>3 DEF TypeOK, Answer, Goto
  <2>4. ShortageOf(c)'
    BY <2>1, <2>2, <2>3 DEF ShortageOf
  <2>5. QED  BY <2>2, <2>4, CallerSInv
<1>4. CASE AnswerFromSnapshot(c) /\ Answer(c, 409, RemainingFor(snap[c]))
  <2>1. /\ UNCHANGED <<service, counter, req, snap>>
        /\ \A d \in Clients \ {c} : UNCHANGED <<pc[d], reply[d]>>
    BY <1>0, <1>4 DEF AnswerFromSnapshot, TypeOK, Answer, Goto
  <2>2. pc'[c] = "idle" /\ reply'[c].remaining = RemainingFor(snap[c])
    BY <1>0, <1>4 DEF TypeOK, Answer, Goto
  <2>3. snap[c].redis # NoCounter => RemainingFor(snap[c]) = snap[c].redis
    BY <1>0 DEF ShortageOf, RemainingFor
  <2>4. ShortageOf(c)'
    BY <1>0, <2>1, <2>2, <2>3 DEF ShortageOf
  <2>5. QED  BY <2>1, <2>4, CallerSInv
<1>5. CASE ReadDb(c)
  <2>1. [snap[c] EXCEPT !.db = RowSeen(c)].redis = snap[c].redis
    BY <1>0 DEF TypeOK, Snapshot
  <2>2. QED  BY <1>1, <1>5, <2>1 DEF ReadDb
<1>6. CASE ReadRedis(c)
  <2>1. [snap[c] EXCEPT !.redis = CounterOf(c)].redis = CounterOf(c)
    BY <1>0 DEF TypeOK, Snapshot
  <2>2. QED  BY <1>1, <1>6, <2>1 DEF ReadRedis
<1>7. CASE ReadLedger(c)
  <2>1. [snap[c] EXCEPT !.ledger = IF InConflict(c) THEN <<>> ELSE ledger].redis = snap[c].redis
    BY <1>0 DEF TypeOK, Snapshot
  <2>2. QED  BY <1>1, <1>7, <2>1 DEF ReadLedger
<1>8. CASE ReadRedisFailsGo(c)
  <2>1. [snap[c] EXCEPT !.redis = NoCounter].redis = NoCounter
    BY <1>0 DEF TypeOK, Snapshot
  <2>2. QED  BY <1>1, <1>8, <2>1 DEF ReadRedisFailsGo
<1>9. CASE ReadLedgerCutShortGo(c)
  <2>1. \A n : [snap[c] EXCEPT !.ledger = SubSeq(ledger, 1, n)].redis = snap[c].redis
    BY <1>0 DEF TypeOK, Snapshot
  <2>2. QED  BY <1>1, <1>9, <2>1 DEF ReadLedgerCutShortGo
<1>10. CASE ReadDbUnknown(c)
  BY <1>2, <1>10 DEF ReadDbUnknown
<1>11. CASE ReadFails(c)
  BY <1>2, <1>3, <1>11 DEF ReadFails
<1>12. CASE AnswerFromSnapshot(c)
  BY <1>2, <1>4, <1>12 DEF AnswerFromSnapshot
<1>13. QED  BY <1>5, <1>6, <1>7, <1>8, <1>9, <1>10, <1>11, <1>12

LEMMA NextSInv == IInv /\ SInv /\ [Next]_vars => SInv'
<1> SUFFICES ASSUME IInv, SInv, [Next]_vars PROVE SInv'
  OBVIOUS
<1>1. CASE Boot \/ Crash \/ RedisLoss \/ UNCHANGED vars
  BY <1>1, BootSInv
<1>2. ASSUME NEW c \in Clients, Refuse(c) \/ Submit(c) \/ SubmitGet(c)
      PROVE  SInv'
  BY <1>2, SubmitSInv
<1>3. ASSUME NEW c \in Clients, Progress(c) \/ Failure(c)
      PROVE  SInv'
  BY <1>3, EvalSInv, DatabasePathSInv, SnapshotSInv DEF Progress, Failure
<1>4. QED  BY <1>1, <1>2, <1>3 DEF Next

LEMMA AlwaysSInv == Spec => []SInv
  BY InitSInv, NextSInv, AlwaysIInv, PTL DEF Spec

\* A refusal of the Redis path never reports enough stock, although it reads
\* the counter in a call of its own, after the script refused.
THEOREM ShortageReal == Spec => []RedisShortageIsReal
<1>1. SInv => RedisShortageIsReal
  BY DEF SInv, ShortageOf, RedisShortageIsReal
<1>2. QED  BY <1>1, AlwaysSInv, PTL

-----------------------------------------------------------------------------
(* What one caller's step and a growing ledger leave alone.                *)

CallerStep(c) ==
  \/ Refuse(c) \/ Submit(c) \/ SubmitGet(c)
  \/ Progress(c) \/ Failure(c)

Locals(c) == <<impl, pc[c], req[c], todo[c], snap[c], reply[c]>>

\* The handler of one caller touches no local of another.
LEMMA CallerFrame ==
  ASSUME TypeOK, NEW c \in Clients, CallerStep(c), NEW d \in Clients \ {c}
  PROVE  UNCHANGED Locals(d)
<1> USE DEF TypeOK, Locals, Goto, readVars
<1>1. CASE Refuse(c) \/ Submit(c) \/ SubmitGet(c)
  BY <1>1 DEF Refuse, Submit, SubmitGet, Call, Answer, BeginReads
<1>2. CASE EvalLua(c) \/ EvalFails(c) \/ EvalResent(c)
  BY <1>2 DEF EvalLua, EvalFails, EvalResent, Answer, BeginReads
<1>3. CASE BeginTransaction(c) \/ SelectForUpdate(c) \/ WriteRows(c)
  BY <1>3 DEF BeginTransaction, SelectForUpdate, WriteRows, Answer, BeginReads
<1>4. CASE Commit(c) \/ DbFails(c)
  BY <1>4 DEF Commit, DbFails, Answer
<1>5. CASE ReadDb(c) \/ ReadRedis(c) \/ ReadLedger(c) \/ ReadRedisFailsGo(c)
  BY <1>5 DEF ReadDb, ReadRedis, ReadLedger, ReadRedisFailsGo, Read
<1>6. CASE ReadLedgerCutShortGo(c)
  BY <1>6 DEF ReadLedgerCutShortGo, Read
<1>7. CASE ReadDbUnknown(c) \/ ReadFails(c)
  BY <1>7 DEF ReadDbUnknown, ReadFails, Answer
<1>8. CASE AnswerFromSnapshot(c)
  BY <1>8 DEF AnswerFromSnapshot, Answer
<1>9. QED  BY <1>1, <1>2, <1>3, <1>4, <1>5, <1>6, <1>7, <1>8 DEF CallerStep, Progress, Failure

\* Committed rows stay where they are, and with them every balance and every
\* first part of the ledger.
LEMMA LedgerGrows ==
  ASSUME IInv, [Next]_vars
  PROVE  /\ Len(ledger) \in Nat /\ Len(ledger') \in Nat /\ Len(ledger) <= Len(ledger')
         /\ \A i \in 1 .. Len(ledger) : ledger'[i] = ledger[i]
         /\ \A i \in 0 .. Len(ledger) : Balance(ledger', i) = Balance(ledger, i)
         /\ \A n \in 0 .. Len(ledger) : SubSeq(ledger', 1, n) = SubSeq(ledger, 1, n)
<1>1. ledger \in Seq(LedgerRow) /\ Len(ledger) \in Nat
  BY DEF IInv, TypeOK
<1>2. CASE DurableUnchanged
  BY <1>1, <1>2 DEF DurableUnchanged
<1>3. ASSUME NEW row, ledger' = Append(ledger, row)
      PROVE  /\ Len(ledger') = Len(ledger) + 1
             /\ \A i \in 1 .. Len(ledger) : ledger'[i] = ledger[i]
  BY <1>1, <1>3
<1>4. ASSUME NEW row, ledger' = Append(ledger, row), NEW n \in 0 .. Len(ledger)
      PROVE  SubSeq(ledger', 1, n) = SubSeq(ledger, 1, n)
  BY <1>1, <1>3, <1>4
<1>5. ASSUME NEW row, ledger' = Append(ledger, row), NEW i \in 0 .. Len(ledger)
      PROVE  Balance(ledger', i) = Balance(ledger, i)
  BY <1>1, <1>3, <1>5 DEF Balance
<1>6. DurableUnchanged \/ \E row : ledger' = Append(ledger, row)
  BY DurableStep DEF CommitApplies
<1>7. QED  BY <1>1, <1>2, <1>3, <1>4, <1>5, <1>6

-----------------------------------------------------------------------------
(* Sales told and sales recorded.                                          *)

\* The stock only falls, so a new row states less than every row before it:
\* that is why no two sales can claim the same unit.
JInv ==
  /\ \A i \in 1 .. Len(ledger) : ledger[i].remaining >= stock
  /\ GrantsAreJournaled

\* A caller becomes one that was sold by the database path in its commit only.
LEMMA GrantOrigin ==
  ASSUME IInv, SInv, [Next]_vars, NEW c \in Clients, GrantedByDb(c)'
  PROVE  (GrantedByDb(c) /\ UNCHANGED <<req[c], reply[c]>>) \/ Commit(c)
<1> USE DEF GrantedByDb, Granted
<1>0. TypeOK /\ ShortageOf(c)
  BY DEF IInv, SInv
<1>1. CASE Boot \/ RedisLoss \/ UNCHANGED vars
  BY <1>1 DEF Boot, WarmRead, WarmSet, WarmSkippedGo, Listen, RedisLoss, vars
<1>2. CASE Crash
  BY <1>0, <1>2 DEF Crash, NoRequest
<1>3. ASSUME NEW d \in Clients, CallerStep(d), c # d
      PROVE  GrantedByDb(c) /\ UNCHANGED <<req[c], reply[c]>>
  BY <1>0, <1>3, CallerFrame DEF Locals
<1>4. CASE CallerStep(c)
  <2>1. CASE Refuse(c) \/ Submit(c) \/ SubmitGet(c)
    BY <1>0, <2>1 DEF Refuse, Submit, SubmitGet, Call, Answer, Goto, TypeOK, NoReply
  <2>2. CASE EvalLua(c) \/ EvalFails(c) \/ EvalResent(c)
    BY <1>0, <2>2 DEF EvalLua, EvalFails, EvalResent, ShortageOf, TypeOK
  <2>3. CASE BeginTransaction(c) \/ SelectForUpdate(c) \/ WriteRows(c) \/ DbFails(c)
    BY <1>0, <2>3 DEF BeginTransaction, SelectForUpdate, WriteRows, DbFails, Answer, TypeOK
  <2>4. CASE \/ ReadDb(c) \/ ReadRedis(c) \/ ReadLedger(c) \/ ReadRedisFailsGo(c)
             \/ ReadLedgerCutShortGo(c)
    BY <2>4 DEF ReadDb, ReadRedis, ReadLedger, ReadRedisFailsGo, ReadLedgerCutShortGo, Read
  <2>5. CASE ReadDbUnknown(c) \/ ReadFails(c)
    BY <1>0, <2>5 DEF ReadDbUnknown, ReadFails, Answer, TypeOK
  <2>6. CASE AnswerFromSnapshot(c)
    BY <1>0, <2>6 DEF AnswerFromSnapshot, InConflict, Answer, TypeOK
  <2>7. QED  BY <1>4, <2>1, <2>2, <2>3, <2>4, <2>5, <2>6 DEF CallerStep, Progress, Failure
<1>5. QED  BY <1>1, <1>2, <1>3, <1>4 DEF Next, CallerStep

\* The rows of the ledger carry numbers.
LEMMA RowType ==
  ASSUME ledger \in Seq(LedgerRow), NEW i \in 1 .. Len(ledger)
  PROVE  ledger[i].remaining \in Int
<1>1. ledger[i] \in LedgerRow
  OBVIOUS
<1>2. QED  BY <1>1 DEF LedgerRow

LEMMA NextJournal ==
  ASSUME IInv, SInv, JInv, [Next]_vars
  PROVE  JInv'
<1>0. /\ stock \in Int /\ Len(ledger) \in Nat /\ Len(ledger') \in Nat
      /\ Len(ledger) <= Len(ledger')
      /\ \A i \in 1 .. Len(ledger) :
           ledger[i].remaining \in Int /\ ledger[i].remaining >= stock /\ ledger'[i] = ledger[i]
  <2>1. stock \in Int /\ ledger \in Seq(LedgerRow)
    BY DEF IInv, TypeOK
  <2>2. \A i \in 1 .. Len(ledger) : ledger[i].remaining \in Int
    BY <2>1, RowType
  <2>3. \A i \in 1 .. Len(ledger) : ledger[i].remaining >= stock
    BY DEF JInv
  <2>4. /\ Len(ledger) \in Nat /\ Len(ledger') \in Nat /\ Len(ledger) <= Len(ledger')
        /\ \A i \in 1 .. Len(ledger) : ledger'[i] = ledger[i]
    BY LedgerGrows
  <2>5. QED  BY <2>1, <2>2, <2>3, <2>4
<1>1. ASSUME NEW c \in Clients, pc[c] = "commit", CommitApplies(c)
      PROVE  /\ stock' \in Int /\ stock' < stock
             /\ Len(ledger') = Len(ledger) + 1
             /\ ledger'[Len(ledger) + 1] = [delta |-> -req[c].qty, remaining |-> stock']
  <2>1. /\ req[c].qty \in 1 .. stock /\ stock' = stock - req[c].qty
        /\ ledger' = Append(ledger, [delta |-> -req[c].qty, remaining |-> stock'])
    BY <1>1, CommitStep
  <2>2. ledger \in Seq(LedgerRow)
    BY DEF IInv, TypeOK
  <2>3. QED  BY <1>0, <2>1, <2>2
<1>2. \A i \in 1 .. Len(ledger') : ledger'[i].remaining >= stock'
  <2>1. CASE DurableUnchanged
    BY <1>0, <2>1 DEF DurableUnchanged
  <2>2. ASSUME NEW c \in Clients, pc[c] = "commit", CommitApplies(c)
        PROVE  \A i \in 1 .. Len(ledger') : ledger'[i].remaining >= stock'
    <3>1. /\ stock' \in Int /\ stock' < stock /\ Len(ledger') = Len(ledger) + 1
          /\ ledger'[Len(ledger) + 1] = [delta |-> -req[c].qty, remaining |-> stock']
      BY <1>1, <2>2
    <3>2. ASSUME NEW i \in 1 .. Len(ledger')
          PROVE  ledger'[i].remaining >= stock'
      <4>1. CASE i \in 1 .. Len(ledger)
        <5>1. ledger'[i].remaining \in Int /\ ledger'[i].remaining >= stock
          BY <1>0, <4>1
        <5>2. QED  BY <1>0, <3>1, <5>1
      <4>2. CASE i = Len(ledger) + 1
        <5>1. ledger'[i].remaining = stock'
          BY <3>1, <4>2
        <5>2. QED  BY <3>1, <5>1
      <4>3. i \in 1 .. Len(ledger) + 1
        BY <3>1
      <4>4. QED  BY <1>0, <4>1, <4>2, <4>3
    <3>3. QED  BY <3>2
  <2>3. QED  BY <2>1, <2>2, DurableStep
<1>3. ASSUME NEW c \in Clients, Commit(c)
      PROVE  /\ reply'[c].remaining = stock' /\ req'[c] = req[c] /\ stock' < stock /\ stock' \in Int
             /\ req[c].qty \in Int /\ stock' + req[c].qty = stock
             /\ Len(ledger') = Len(ledger) + 1
             /\ ledger'[Len(ledger) + 1] = [delta |-> -req[c].qty, remaining |-> stock']
  <2>1. reply'[c].remaining = stock' /\ req'[c] = req[c]
    BY <1>3 DEF Commit, CommitApplies, Answer, IInv, TypeOK
  <2>2. req[c].qty \in 1 .. stock /\ stock' = stock - req[c].qty
    BY <1>3, CommitStep DEF Commit
  <2>3. QED  BY <1>0, <1>1, <1>3, <2>1, <2>2 DEF Commit
<1>4. ASSUME NEW c \in Clients, GrantedByDb(c), UNCHANGED <<req[c], reply[c]>>
      PROVE  \E i \in 1 .. Len(ledger) :
               ledger[i] = [delta |-> -req'[c].qty, remaining |-> reply'[c].remaining]
  BY <1>4 DEF JInv, GrantsAreJournaled
<1>5. ASSUME NEW c \in Clients, GrantedByDb(c)'
      PROVE  \E i \in 1 .. Len(ledger') :
               ledger'[i] = [delta |-> -req'[c].qty, remaining |-> reply'[c].remaining]
  <2>1. CASE GrantedByDb(c) /\ UNCHANGED <<req[c], reply[c]>>
    BY <1>0, <1>4, <2>1
  <2>2. CASE Commit(c)
    <3>1. Len(ledger') = Len(ledger) + 1
      BY <1>3, <2>2
    <3>2. Len(ledger) + 1 \in 1 .. Len(ledger')
      BY <1>0, <3>1
    <3>3. QED  BY <1>3, <2>2, <3>2
  <2>3. QED  BY <1>5, <2>1, <2>2, GrantOrigin
<1>6. ASSUME NEW c \in Clients, NEW d \in Clients \ {c}, Commit(c), GrantedByDb(d)'
      PROVE  SoldApart(c, d)' /\ SoldApart(d, c)'
  <2>1. ~Commit(d)
    BY <1>6 DEF Commit, Answer, Goto, IInv, TypeOK
  <2>2. GrantedByDb(d) /\ UNCHANGED <<req[d], reply[d]>>
    BY <1>6, <2>1, GrantOrigin
  <2>3. PICK i \in 1 .. Len(ledger) :
          ledger[i] = [delta |-> -req'[d].qty, remaining |-> reply'[d].remaining]
    BY <1>4, <2>2
  <2>4. reply'[d].remaining >= stock /\ reply'[d].remaining \in Int
    BY <1>0, <2>3
  <2>5. Units(c)' = stock' + 1 .. stock
    BY <1>3, <1>6 DEF Units
  <2>6. \A unit \in Units(d)' : unit > stock
    BY <1>0, <2>4 DEF Units
  <2>7. stock' \in Int
    BY <1>3, <1>6
  <2>8. QED  BY <1>0, <2>5, <2>6, <2>7 DEF SoldApart
<1>7. ASSUME NEW c \in Clients, NEW d \in Clients \ {c}, GrantedByDb(c)', GrantedByDb(d)'
      PROVE  SoldApart(c, d)'
  <2>1. CASE Commit(c) \/ Commit(d)
    BY <1>6, <1>7, <2>1
  <2>2. CASE ~Commit(c) /\ ~Commit(d)
    <3>1. /\ GrantedByDb(c) /\ UNCHANGED <<req[c], reply[c]>>
          /\ GrantedByDb(d) /\ UNCHANGED <<req[d], reply[d]>>
      BY <1>7, <2>2, GrantOrigin
    <3>2. SoldApart(c, d)
      BY <3>1 DEF JInv, GrantsAreJournaled
    <3>3. QED  BY <3>1, <3>2 DEF SoldApart, Units
  <2>3. QED  BY <2>1, <2>2
<1>8. GrantsAreJournaled'
  BY <1>5, <1>7 DEF GrantsAreJournaled
<1>9. QED  BY <1>2, <1>8 DEF JInv

\* Whoever was told 200 by the database path has a ledger row of its own.
THEOREM GrantsJournaled == Spec => []GrantsAreJournaled
<1>1. Init => JInv
  BY DEF Init, JInv, GrantsAreJournaled, GrantedByDb, Granted, NoReply
<1>2. JInv => GrantsAreJournaled
  BY DEF JInv
<1>3. IInv /\ SInv /\ JInv /\ [Next]_vars => JInv'
  BY NextJournal
<1>4. QED  BY <1>1, <1>2, <1>3, AlwaysIInv, AlwaysSInv, PTL DEF Spec

-----------------------------------------------------------------------------
(* Units the Redis path sold.                                              *)

\* As long as the counter was warmed at most once it only falls, and every unit
\* sold lies above it; before it was ever warmed nothing could be sold.
CInv ==
  /\ boots = 0 => counter = NoCounter /\ \A c \in Clients : ~Granted(c, "redis")
  /\ boots <= 1 => \A c \in Clients : Granted(c, "redis") => counter <= reply[c].remaining
  /\ RedisUnitsSoldOnce

RedisSale(c) == pc[c] = "eval" /\ LuaTakes(c) /\ Answer(c, 200, counter') /\ UNCHANGED <<req, boots>>

\* A caller becomes one that was sold by the Redis path only as the answer of
\* its script arrives.
LEMMA RedisGrantOrigin ==
  ASSUME IInv, SInv, [Next]_vars, NEW c \in Clients, Granted(c, "redis")'
  PROVE  (Granted(c, "redis") /\ UNCHANGED <<req[c], reply[c]>>) \/ RedisSale(c)
<1> USE DEF Granted, RedisSale
<1>0. TypeOK /\ ShortageOf(c)
  BY DEF IInv, SInv
<1>1. CASE Boot \/ RedisLoss \/ UNCHANGED vars
  BY <1>1 DEF Boot, WarmRead, WarmSet, WarmSkippedGo, Listen, RedisLoss, vars
<1>2. CASE Crash
  BY <1>0, <1>2 DEF Crash, NoRequest
<1>3. ASSUME NEW d \in Clients, CallerStep(d), c # d
      PROVE  Granted(c, "redis") /\ UNCHANGED <<req[c], reply[c]>>
  BY <1>0, <1>3, CallerFrame DEF Locals
<1>4. ASSUME NEW code, NEW remaining, code # 200, Answer(c, code, remaining)
      PROVE  FALSE
  <2>1. reply \in [Clients -> [code : Nat, remaining : Int]]
    BY <1>0 DEF TypeOK
  <2>2. reply'[c].code = code
    BY <1>4, <2>1 DEF Answer
  <2>3. QED  BY <1>4, <2>2
<1>5. CASE CallerStep(c)
  <2>0. 400 # 200 /\ 404 # 200 /\ 409 # 200 /\ 500 # 200
    OBVIOUS
  <2>1. CASE Refuse(c)
    BY <1>4, <2>0, <2>1 DEF Refuse
  <2>2. CASE Submit(c) \/ SubmitGet(c)
    <3>1. reply' = [reply EXCEPT ![c] = NoReply]
      BY <2>2 DEF Submit, SubmitGet, Call
    <3>2. reply'[c].code # 200
      BY <1>0, <3>1 DEF TypeOK, NoReply
    <3>3. QED  BY <3>2
  <2>3. CASE EvalLua(c)
    <3>1. CASE LuaTakes(c) /\ Answer(c, 200, counter')
      BY <2>3, <3>1 DEF EvalLua, bootVars
    <3>2. CASE Answer(c, 404, 0)
      BY <1>4, <2>0, <3>2
    <3>3. CASE UNCHANGED reply
      BY <2>3, <3>3 DEF EvalLua
    <3>4. QED  BY <2>3, <3>1, <3>2, <3>3 DEF EvalLua
  <2>4. CASE EvalFails(c) \/ DbFails(c)
    BY <1>4, <2>0, <2>4 DEF EvalFails, DbFails
  <2>5. CASE EvalResent(c)
    BY <2>5 DEF EvalResent
  <2>6. CASE Commit(c)
    <3>1. req'[c].path # "redis"
      BY <1>0, <2>6 DEF Commit, ShortageOf, TypeOK
    <3>2. QED  BY <3>1
  <2>7. CASE BeginTransaction(c) \/ SelectForUpdate(c) \/ WriteRows(c)
    <3>1. UNCHANGED <<req, reply>> \/ Answer(c, 404, 0)
      BY <2>7 DEF BeginTransaction, SelectForUpdate, WriteRows
    <3>2. QED  BY <1>4, <2>0, <3>1
  <2>8. CASE \/ ReadDb(c) \/ ReadRedis(c) \/ ReadLedger(c) \/ ReadRedisFailsGo(c)
             \/ ReadLedgerCutShortGo(c)
    BY <2>8 DEF ReadDb, ReadRedis, ReadLedger, ReadRedisFailsGo, ReadLedgerCutShortGo, Read
  <2>9. CASE ReadDbUnknown(c) \/ ReadFails(c)
    BY <1>4, <2>0, <2>9 DEF ReadDbUnknown, ReadFails
  <2>10. CASE AnswerFromSnapshot(c)
    BY <1>0, <2>10 DEF AnswerFromSnapshot, InConflict, Answer, TypeOK
  <2>11. QED
    BY <1>5, <2>1, <2>2, <2>3, <2>4, <2>5, <2>6, <2>7, <2>8, <2>9, <2>10
    DEF CallerStep, Progress, Failure
<1>6. QED  BY <1>1, <1>2, <1>3, <1>5 DEF Next, CallerStep

\* The script finds a counter, and lowers it by what it sells.
LEMMA ScriptTakes ==
  ASSUME IInv, NEW c \in Clients, pc[c] = "eval", LuaTakes(c)
  PROVE  /\ counter # NoCounter /\ counter \in Nat /\ counter' \in Nat
         /\ req[c].qty \in Int /\ req[c].qty > 0
         /\ counter' = counter - req[c].qty
<1>1. counter # NoCounter /\ counter' = counter - req[c].qty
  BY DEF LuaTakes, LuaAllows, CounterOf
<1>2. counter \in Nat \cup {NoCounter} /\ req[c].qty \in Int /\ req[c].qty > 0
  BY DEF IInv, TypeOK, Locking, Request
<1>3. counter' \in Nat
  BY LuaTakesType
<1>4. QED  BY <1>1, <1>2, <1>3

\* What a step may do to the counter.
LEMMA CounterStep ==
  ASSUME IInv, [Next]_vars
  PROVE  \/ UNCHANGED <<counter, boots>>
         \/ counter' = NoCounter /\ UNCHANGED boots
         \/ boots' = boots + 1 /\ UNCHANGED reply /\ UNCHANGED req
         \/ \E c \in Clients : pc[c] = "eval" /\ LuaTakes(c) /\ UNCHANGED boots
<1> USE DEF redisVars, bootVars
<1>1. CASE Boot \/ Crash \/ RedisLoss \/ UNCHANGED vars
  BY <1>1 DEF Boot, WarmRead, WarmSet, WarmSkippedGo, Listen, Crash, RedisLoss, vars
<1>2. ASSUME NEW c \in Clients, Refuse(c) \/ Submit(c) \/ SubmitGet(c)
      PROVE  UNCHANGED <<counter, boots>>
  BY <1>2 DEF Refuse, Submit, SubmitGet, Call
<1>3. ASSUME NEW c \in Clients, Progress(c)
      PROVE  UNCHANGED <<counter, boots>> \/ (pc[c] = "eval" /\ LuaTakes(c) /\ UNCHANGED boots)
  BY <1>3 DEF Progress, EvalLua, BeginTransaction, SelectForUpdate, WriteRows, Commit, ReadDb,
     ReadDbUnknown, ReadRedis, ReadLedger, AnswerFromSnapshot, Read
<1>4. ASSUME NEW c \in Clients, Failure(c)
      PROVE  UNCHANGED <<counter, boots>> \/ (pc[c] = "eval" /\ LuaTakes(c) /\ UNCHANGED boots)
  BY <1>4 DEF Failure, EvalFails, EvalResent, DbFails, ReadFails, ReadRedisFailsGo,
     ReadLedgerCutShortGo, Read
<1>5. QED  BY <1>1, <1>2, <1>3, <1>4 DEF Next

LEMMA NextRedisUnits ==
  ASSUME IInv, SInv, CInv, [Next]_vars
  PROVE  CInv'
<1>0. /\ boots \in Nat /\ boots' \in Nat /\ counter \in Nat \cup {NoCounter}
      /\ counter' \in Nat \cup {NoCounter}
      /\ \A c \in Clients : /\ reply[c].remaining \in Int /\ req[c].qty \in Int
                            /\ reply'[c].remaining \in Int /\ req'[c].qty \in Int
  BY NextIInv DEF IInv, TypeOK, Request
<1>1. boots <= boots'
  BY <1>0, CounterStep
<1>2. ASSUME NEW c \in Clients, RedisSale(c)
      PROVE  /\ boots # 0 /\ boots' = boots /\ counter \in Nat /\ counter' < counter
             /\ reply'[c].remaining = counter' /\ Units(c)' = counter' + 1 .. counter
  <2>1. /\ counter # NoCounter /\ counter \in Nat /\ counter' \in Nat
        /\ req[c].qty \in Int /\ req[c].qty > 0 /\ counter' = counter - req[c].qty
    BY <1>2, ScriptTakes DEF RedisSale
  <2>2. reply'[c].remaining = counter' /\ UNCHANGED <<req, boots>>
    BY <1>2 DEF RedisSale, Answer, IInv, TypeOK
  <2>3. counter' + req[c].qty = counter
    BY <2>1
  <2>4. QED  BY <2>1, <2>2, <2>3 DEF CInv, Units
<1>3. boots' = 0 => counter' = NoCounter /\ \A c \in Clients : ~Granted(c, "redis")'
  <2>1. SUFFICES ASSUME boots' = 0
                 PROVE  counter' = NoCounter /\ \A c \in Clients : ~Granted(c, "redis")'
    OBVIOUS
  <2>2. boots = 0 /\ counter = NoCounter /\ \A c \in Clients : ~Granted(c, "redis")
    BY <1>0, <1>1, <2>1 DEF CInv
  <2>3. counter' = NoCounter
    BY <1>0, <2>1, <2>2, CounterStep, ScriptTakes
  <2>4. QED  BY <1>2, <2>2, <2>3, RedisGrantOrigin
<1>4. ASSUME boots' <= 1, NEW c \in Clients, Granted(c, "redis"), UNCHANGED <<req[c], reply[c]>>
      PROVE  counter' <= counter /\ counter <= reply'[c].remaining
  <2>1. boots <= 1 /\ boots # 0
    BY <1>0, <1>1, <1>4 DEF CInv
  <2>2. counter <= reply[c].remaining
    BY <1>4, <2>1 DEF CInv
  <2>3. boots' = boots
    BY <1>0, <1>1, <1>4, <2>1
  <2>4. counter' <= counter
    <3>1. CASE UNCHANGED counter \/ counter' = NoCounter
      BY <1>0, <3>1 DEF NoCounter
    <3>2. ASSUME NEW d \in Clients, pc[d] = "eval", LuaTakes(d)
          PROVE  counter' <= counter
      BY <3>2, ScriptTakes
    <3>3. QED  BY <1>0, <2>3, <3>1, <3>2, CounterStep
  <2>5. QED  BY <1>4, <2>2, <2>4
<1>5. boots' <= 1 =>
        \A c \in Clients : Granted(c, "redis")' => counter' <= reply'[c].remaining
  <2>1. SUFFICES ASSUME boots' <= 1, NEW c \in Clients, Granted(c, "redis")'
                 PROVE  counter' <= reply'[c].remaining
    OBVIOUS
  <2>2. CASE RedisSale(c)
    BY <1>0, <1>2, <2>2
  <2>3. CASE Granted(c, "redis") /\ UNCHANGED <<req[c], reply[c]>>
    <3>1. counter' <= counter /\ counter <= reply'[c].remaining
      BY <1>4, <2>1, <2>3
    <3>2. QED  BY <1>0, <3>1 DEF NoCounter
  <2>4. QED  BY <2>1, <2>2, <2>3, RedisGrantOrigin
<1>6. ASSUME boots' <= 1, NEW c \in Clients, NEW d \in Clients, c # d,
             RedisSale(c), Granted(d, "redis")'
      PROVE  SoldApart(c, d)' /\ SoldApart(d, c)'
  <2>1. ~RedisSale(d)
    BY <1>6 DEF RedisSale, Answer, Goto, IInv, TypeOK
  <2>2. Granted(d, "redis") /\ UNCHANGED <<req[d], reply[d]>>
    BY <1>6, <2>1, RedisGrantOrigin
  <2>3. counter <= reply'[d].remaining
    BY <1>4, <1>6, <2>2
  <2>4. \A unit \in Units(d)' : unit > counter
    BY <1>0, <2>3 DEF Units, NoCounter
  <2>5. \A unit \in Units(c)' : unit <= counter /\ unit \in Int
    BY <1>0, <1>2, <1>6
  <2>6. \A unit \in Units(c)' : unit \notin Units(d)'
    BY <1>0, <2>4, <2>5 DEF NoCounter
  <2>7. QED  BY <2>6 DEF SoldApart
<1>7. ASSUME boots' <= 1, NEW c \in Clients, NEW d \in Clients, c # d,
             Granted(c, "redis")', Granted(d, "redis")'
      PROVE  SoldApart(c, d)'
  <2>1. CASE RedisSale(c) \/ RedisSale(d)
    BY <1>6, <1>7, <2>1
  <2>2. CASE ~RedisSale(c) /\ ~RedisSale(d)
    <3>1. /\ Granted(c, "redis") /\ UNCHANGED <<req[c], reply[c]>>
          /\ Granted(d, "redis") /\ UNCHANGED <<req[d], reply[d]>>
      BY <1>7, <2>2, RedisGrantOrigin
    <3>2. boots <= 1
      BY <1>0, <1>1, <1>7
    <3>3. SoldApart(c, d)
      BY <1>7, <3>1, <3>2 DEF CInv, RedisUnitsSoldOnce
    <3>4. QED  BY <3>1, <3>3 DEF SoldApart, Units
  <2>3. QED  BY <2>1, <2>2
<1>8. RedisUnitsSoldOnce'
  BY <1>7 DEF RedisUnitsSoldOnce
<1>9. QED  BY <1>3, <1>5, <1>8 DEF CInv

\* However often a script is sent again, its reply is lost, the process dies or
\* Redis loses its data: without a second warming no unit is sold to two callers.
THEOREM RedisSoldOnce == Spec => []RedisUnitsSoldOnce
<1>1. Init => CInv
  BY DEF Init, CInv, RedisUnitsSoldOnce, Granted, NoReply
<1>2. CInv => RedisUnitsSoldOnce
  BY DEF CInv
<1>3. IInv /\ SInv /\ CInv /\ [Next]_vars => CInv'
  BY NextRedisUnits
<1>4. QED  BY <1>1, <1>2, <1>3, AlwaysIInv, AlwaysSInv, PTL DEF Spec

-----------------------------------------------------------------------------
(* The snapshot of GET /stock.                                             *)

\* What the answer will say of stock and rows is true of the ledger.
Reported(c) ==
  \E i, n \in 0 .. Len(ledger) :
    /\ snap[c].db = Balance(ledger, i) /\ snap[c].ledger = SubSeq(ledger, 1, n)
    /\ impl # "go" => i <= n

StockOnce(c) == \E i \in 0 .. Len(ledger) : snap[c].db = Balance(ledger, i)

\* The stock is read first in all four orders, and the rows after it: the rows
\* reach at least as far as the stock did.
SnapshotOf(c) ==
  /\ pc[c] = "read" /\ req[c].path = "get" =>
       \/ todo[c] = ReadsFor("get")
       \/ todo[c] \in {<<"redis", "ledger">>, <<"ledger">>, <<"ledger", "redis">>} /\ StockOnce(c)
       \/ todo[c] \in {<<"redis">>, <<>>} /\ Reported(c)
  /\ req[c].path = "get" /\ reply[c].code = 200 => Reported(c)

KInv == \A c \in Clients : SnapshotOf(c)

\* What was true of a ledger stays true of a longer one.
LEMMA LocalsKeep ==
  ASSUME IInv, [Next]_vars, NEW c \in Clients, SnapshotOf(c), UNCHANGED Locals(c)
  PROVE  SnapshotOf(c)'
<1>1. StockOnce(c) => StockOnce(c)'
  BY LedgerGrows DEF StockOnce, Locals
<1>2. Reported(c) => Reported(c)'
  <2> SUFFICES ASSUME Reported(c) PROVE Reported(c)'
    OBVIOUS
  <2>1. PICK i, n \in 0 .. Len(ledger) :
          /\ snap[c].db = Balance(ledger, i) /\ snap[c].ledger = SubSeq(ledger, 1, n)
          /\ impl # "go" => i <= n
    BY DEF Reported
  <2>2. i \in 0 .. Len(ledger') /\ n \in 0 .. Len(ledger')
    BY LedgerGrows
  <2>3. Balance(ledger', i) = Balance(ledger, i) /\ SubSeq(ledger', 1, n) = SubSeq(ledger, 1, n)
    BY LedgerGrows
  <2>4. QED  BY <2>1, <2>2, <2>3 DEF Reported, Locals
<1>3. ReadsFor("get")' = ReadsFor("get")
  BY DEF ReadsFor, Locals
<1>4. QED  BY <1>1, <1>2, <1>3 DEF SnapshotOf, Locals

\* The first parts of what remains to be read, and what is left after them.
LEMMA ReadOrder ==
  /\ Head(<<"redis", "ledger">>) = "redis" /\ Tail(<<"redis", "ledger">>) = <<"ledger">>
  /\ Head(<<"ledger">>) = "ledger" /\ Tail(<<"ledger">>) = <<>>
  /\ Head(<<"ledger", "redis">>) = "ledger" /\ Tail(<<"ledger", "redis">>) = <<"redis">>
  /\ Head(<<"redis">>) = "redis" /\ Tail(<<"redis">>) = <<>>
  /\ Head(ReadsFor("get")) = "db" /\ ReadsFor("get") # <<>>
  /\ Tail(ReadsFor("get")) \in {<<"redis", "ledger">>, <<"ledger", "redis">>}
  /\ <<"redis", "ledger">> # <<>> /\ <<"ledger">> # <<>> /\ <<"ledger", "redis">> # <<>>
<1>1. Head(StockReads) = "db" /\ Tail(StockReads) = <<"redis", "ledger">> /\ StockReads # <<>>
  BY DEF StockReads
<1>2. /\ Head(StockReadsCSharp) = "db" /\ Tail(StockReadsCSharp) = <<"ledger", "redis">>
      /\ StockReadsCSharp # <<>>
  BY DEF StockReadsCSharp
<1>3. ReadsFor("get") \in {StockReads, StockReadsCSharp}
  BY DEF ReadsFor
<1>4. QED  BY <1>1, <1>2, <1>3

\* An answer other than 200, or to another request, reports nothing.
LEMMA SilentAnswer ==
  ASSUME TypeOK, NEW c \in Clients, NEW code, NEW remaining, Answer(c, code, remaining),
         UNCHANGED req, code # 200 \/ req[c].path # "get"
  PROVE  SnapshotOf(c)'
  BY DEF SnapshotOf, Answer, Goto, TypeOK

\* A read of the snapshot by a GET.
LEMMA GetReads ==
  ASSUME IInv, SInv, LedgerExplainsStock, NEW c \in Clients, SnapshotOf(c), req[c].path = "get",
         ReadDb(c) \/ ReadRedis(c) \/ ReadLedger(c) \/ ReadLedgerCutShortGo(c) \/ ReadRedisFailsGo(c)
  PROVE  SnapshotOf(c)'
<1> USE DEF dbVars, redisVars, bootVars
<1>0. /\ TypeOK /\ pc[c] = "read" /\ reply[c].code = 0 /\ todo[c] # <<>>
      /\ snap[c] \in Snapshot /\ Len(ledger) \in Nat /\ ledger \in Seq(LedgerRow)
  <2>1. pc[c] = "read" /\ todo[c] # <<>>
    BY DEF ReadDb, ReadRedis, ReadLedger, ReadLedgerCutShortGo, ReadRedisFailsGo, Reading
  <2>2. reply[c].code = 0
    BY <2>1 DEF SInv, ShortageOf
  <2>3. QED  BY <2>1, <2>2 DEF IInv, TypeOK
<1>1. ASSUME NEW seen, Read(c, seen, Tail(todo[c]))
      PROVE  /\ UNCHANGED <<impl, ledger, pc, req, reply>>
             /\ snap'[c] = seen /\ todo'[c] = Tail(todo[c])
  BY <1>0, <1>1 DEF Read, TypeOK
<1>2. CASE ReadDb(c)
  <2>1. todo[c] = ReadsFor("get")
    BY <1>0, <1>2, ReadOrder DEF SnapshotOf, ReadDb, Reading
  <2>2. RowSeen(c) = Balance(ledger, Len(ledger))
    BY DEF RowSeen, LedgerExplainsStock
  <2>3. [snap[c] EXCEPT !.db = RowSeen(c)].db = RowSeen(c)
    BY <1>0 DEF Snapshot
  <2>4. /\ UNCHANGED <<impl, ledger, pc, req, reply>>
        /\ snap'[c].db = RowSeen(c) /\ todo'[c] = Tail(todo[c])
    BY <1>1, <1>2, <2>3 DEF ReadDb
  <2>5. StockOnce(c)'
    BY <1>0, <2>2, <2>4 DEF StockOnce
  <2>6. QED  BY <1>0, <2>1, <2>4, <2>5, ReadOrder DEF SnapshotOf
<1>3. CASE ReadRedis(c) \/ ReadRedisFailsGo(c)
  <2>1. PICK value : Read(c, [snap[c] EXCEPT !.redis = value], Tail(todo[c]))
    BY <1>3 DEF ReadRedis, ReadRedisFailsGo, InConflict
  <2>2. /\ [snap[c] EXCEPT !.redis = value].db = snap[c].db
        /\ [snap[c] EXCEPT !.redis = value].ledger = snap[c].ledger
    BY <1>0 DEF Snapshot
  <2>3. /\ UNCHANGED <<impl, ledger, pc, req, reply>> /\ todo'[c] = Tail(todo[c])
        /\ snap'[c].db = snap[c].db /\ snap'[c].ledger = snap[c].ledger
    BY <1>1, <2>1, <2>2
  <2>4. \/ todo[c] = <<"redis", "ledger">> /\ StockOnce(c)
        \/ todo[c] = <<"redis">> /\ Reported(c)
    BY <1>0, <1>3, ReadOrder DEF SnapshotOf, ReadRedis, ReadRedisFailsGo, Reading
  <2>5. (StockOnce(c) => StockOnce(c)') /\ (Reported(c) => Reported(c)')
    BY <2>3 DEF StockOnce, Reported
  <2>6. QED  BY <1>0, <2>3, <2>4, <2>5, ReadOrder DEF SnapshotOf
<1>4. CASE ReadLedger(c) \/ ReadLedgerCutShortGo(c)
  <2>1. PICK n \in 0 .. Len(ledger) :
          /\ Read(c, [snap[c] EXCEPT !.ledger = SubSeq(ledger, 1, n)], Tail(todo[c]))
          /\ impl # "go" => n = Len(ledger)
    <3>1. SubSeq(ledger, 1, Len(ledger)) = ledger
      BY <1>0
    <3>2. CASE ReadLedger(c)
      <4>1. (IF InConflict(c) THEN <<>> ELSE ledger) = SubSeq(ledger, 1, Len(ledger))
        BY <3>1 DEF InConflict
      <4>2. Read(c, [snap[c] EXCEPT !.ledger = SubSeq(ledger, 1, Len(ledger))], Tail(todo[c]))
        BY <3>2, <4>1 DEF ReadLedger
      <4>3. Len(ledger) \in 0 .. Len(ledger)
        BY <1>0
      <4>4. QED  BY <4>2, <4>3
    <3>3. CASE ReadLedgerCutShortGo(c)
      <4>1. PICK n \in 0 .. Len(ledger) - 1 :
              impl = "go" /\ Read(c, [snap[c] EXCEPT !.ledger = SubSeq(ledger, 1, n)], Tail(todo[c]))
        BY <3>3 DEF ReadLedgerCutShortGo
      <4>2. n \in 0 .. Len(ledger)
        BY <1>0, <4>1
      <4>3. QED  BY <4>1, <4>2
    <3>4. QED  BY <1>4, <3>2, <3>3
  <2>2. /\ [snap[c] EXCEPT !.ledger = SubSeq(ledger, 1, n)].db = snap[c].db
        /\ [snap[c] EXCEPT !.ledger = SubSeq(ledger, 1, n)].ledger = SubSeq(ledger, 1, n)
    BY <1>0 DEF Snapshot
  <2>3. /\ UNCHANGED <<impl, ledger, pc, req, reply>> /\ todo'[c] = Tail(todo[c])
        /\ snap'[c].db = snap[c].db /\ snap'[c].ledger = SubSeq(ledger, 1, n)
    BY <1>1, <2>1, <2>2
  <2>4. todo[c] \in {<<"ledger">>, <<"ledger", "redis">>} /\ StockOnce(c)
    BY <1>0, <1>4, ReadOrder DEF SnapshotOf, ReadLedger, ReadLedgerCutShortGo, Reading
  <2>5. Reported(c)'
    BY <1>0, <2>1, <2>3, <2>4 DEF StockOnce, Reported
  <2>6. QED  BY <1>0, <2>3, <2>4, <2>5, ReadOrder DEF SnapshotOf
<1>5. QED  BY <1>2, <1>3, <1>4

\* A handler's own step keeps what its snapshot says.
LEMMA CallerSnapshot ==
  ASSUME IInv, SInv, LedgerExplainsStock, NEW c \in Clients, SnapshotOf(c), CallerStep(c)
  PROVE  SnapshotOf(c)'
<1> USE DEF dbVars, redisVars, bootVars, readVars
<1>0. TypeOK /\ ShortageOf(c)
  BY DEF IInv, SInv
<1>1. CASE Refuse(c)
  BY <1>0, <1>1, SilentAnswer DEF Refuse
<1>2. CASE Submit(c)
  BY <1>0, <1>2 DEF Submit, Call, Goto, SnapshotOf, TypeOK, NoReply
<1>3. CASE SubmitGet(c)
  <2>1. /\ pc' = [pc EXCEPT ![c] = "read"] /\ todo' = [todo EXCEPT ![c] = ReadsFor("get")]
        /\ reply' = [reply EXCEPT ![c] = NoReply] /\ impl' = impl
    BY <1>3 DEF SubmitGet, Call, BeginReads, Goto
  <2>2. todo'[c] = ReadsFor("get") /\ ReadsFor("get")' = ReadsFor("get") /\ reply'[c].code = 0
    BY <1>0, <2>1 DEF TypeOK, NoReply, ReadsFor
  <2>3. QED  BY <2>2 DEF SnapshotOf
<1>4. CASE EvalLua(c) \/ EvalFails(c) \/ EvalResent(c)
  <2>1. pc[c] = "eval" /\ req[c].path = "redis" /\ UNCHANGED req
    BY <1>0, <1>4 DEF EvalLua, EvalFails, EvalResent, ShortageOf
  <2>2. QED  BY <2>1 DEF SnapshotOf
<1>5. CASE BeginTransaction(c) \/ SelectForUpdate(c) \/ WriteRows(c) \/ Commit(c) \/ DbFails(c)
  <2>1. req[c].path = "db" /\ UNCHANGED req
    BY <1>0, <1>5 DEF BeginTransaction, SelectForUpdate, WriteRows, Commit, DbFails, ShortageOf
  <2>2. QED  BY <2>1 DEF SnapshotOf
<1>6. CASE /\ \/ ReadDb(c) \/ ReadRedis(c) \/ ReadLedger(c)
              \/ ReadLedgerCutShortGo(c) \/ ReadRedisFailsGo(c)
           /\ req[c].path # "get"
  <2>1. UNCHANGED req
    BY <1>6 DEF ReadDb, ReadRedis, ReadLedger, ReadLedgerCutShortGo, ReadRedisFailsGo, Read
  <2>2. QED  BY <1>6, <2>1 DEF SnapshotOf
<1>7. CASE ReadDbUnknown(c) \/ ReadFails(c)
  BY <1>0, <1>7, SilentAnswer DEF ReadDbUnknown, ReadFails
<1>8. CASE AnswerFromSnapshot(c)
  <2>1. CASE InConflict(c)
    BY <1>0, <1>8, <2>1, SilentAnswer DEF AnswerFromSnapshot, InConflict
  <2>2. CASE ~InConflict(c)
    <3>1. Reported(c)
      BY <1>8, <2>2, ReadOrder DEF AnswerFromSnapshot, SnapshotOf, InConflict
    <3>2. pc'[c] = "idle" /\ UNCHANGED <<impl, ledger, snap>>
      BY <1>0, <1>8 DEF AnswerFromSnapshot, Answer, Goto, TypeOK
    <3>3. Reported(c)'
      BY <3>1, <3>2 DEF Reported
    <3>4. QED  BY <3>2, <3>3 DEF SnapshotOf
  <2>3. QED  BY <2>1, <2>2
<1>9. QED
  BY <1>1, <1>2, <1>3, <1>4, <1>5, <1>6, <1>7, <1>8, GetReads DEF CallerStep, Progress, Failure

LEMMA NextSnapshots ==
  ASSUME IInv, SInv, LedgerExplainsStock, KInv, [Next]_vars
  PROVE  KInv'
<1> SUFFICES ASSUME NEW c \in Clients PROVE SnapshotOf(c)'
  BY DEF KInv
<1>0. TypeOK /\ SnapshotOf(c) /\ ShortageOf(c)
  BY DEF IInv, SInv, KInv
<1>1. CASE Boot \/ RedisLoss \/ UNCHANGED vars
  <2>1. UNCHANGED Locals(c)
    BY <1>1 DEF Boot, WarmRead, WarmSet, WarmSkippedGo, Listen, RedisLoss, vars, readVars, Locals
  <2>2. QED  BY <1>0, <2>1, LocalsKeep
<1>2. CASE Crash
  <2>1. CASE pc[c] = "idle"
    <3>1. /\ pc'[c] = "idle"
          /\ UNCHANGED <<impl, ledger, req[c], snap[c], reply[c]>>
      BY <1>0, <1>2, <2>1 DEF Crash, TypeOK
    <3>2. Reported(c) => Reported(c)'
      BY <3>1 DEF Reported
    <3>3. QED  BY <1>0, <3>1, <3>2 DEF SnapshotOf
  <2>2. CASE pc[c] # "idle"
    <3>1. pc'[c] = "idle" /\ reply'[c].code = 0
      BY <1>0, <1>2, <2>2 DEF Crash, ShortageOf
    <3>2. QED  BY <3>1 DEF SnapshotOf
  <2>3. QED  BY <2>1, <2>2
<1>3. ASSUME NEW d \in Clients, CallerStep(d)
      PROVE  SnapshotOf(c)'
  <2>1. CASE c = d
    BY <1>0, <1>3, <2>1, CallerSnapshot
  <2>2. CASE c # d
    BY <1>0, <1>3, <2>2, CallerFrame, LocalsKeep
  <2>3. QED  BY <2>1, <2>2
<1>4. QED  BY <1>1, <1>2, <1>3 DEF Next, CallerStep

\* Every answer to GET /stock is true of the ledger, although it is put
\* together from three reads with sales between them.
THEOREM SnapshotsTrue == Spec => []SnapshotConsistent
<1>1. Init => KInv
  BY DEF Init, KInv, SnapshotOf, NoReply
<1>2. KInv => SnapshotConsistent
  BY DEF KInv, SnapshotOf, Reported, SnapshotConsistent
<1>3. IInv /\ SInv /\ LedgerExplainsStock /\ KInv /\ [Next]_vars => KInv'
  BY NextSnapshots
<1>4. QED  BY <1>1, <1>2, <1>3, AlwaysIInv, AlwaysSInv, LedgerCorrect, PTL DEF Spec
=============================================================================
