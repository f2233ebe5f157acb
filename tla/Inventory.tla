----------------------------- MODULE Inventory -----------------------------
(***************************************************************************)
(* The inventory service: one process in front of a PostgreSQL row (the    *)
(* durable stock and its ledger) and a Redis counter (the hot copy warmed  *)
(* from that row at boot).  Requests of many clients interleave at every   *)
(* await of the handlers; the process may die between any two of them.     *)
(* The four implementations share the steps and differ in the order of     *)
(* their reads and in what they do when a read fails; impl says which one  *)
(* is deployed.  Line references are to the TypeScript service unless an   *)
(* operator names another language.                                        *)
(***************************************************************************)
EXTENDS Integers, Sequences, FiniteSets

CONSTANTS Clients,      \* concurrent HTTP callers
          Nobody,       \* the row lock's owner when it is free
          Quantities,   \* quantities a caller may put in the body
          Seed,         \* seeded stock of the SKU
          PoolSize,     \* database connections a process of each implementation has
          Impls,        \* implementations considered
          MaxFaults     \* bound on process crashes plus losses of Redis data

Implementations == {"typescript", "java", "csharp", "go"}

ASSUME InventoryAssumption ==
  /\ Nobody \notin Clients
  /\ Quantities \subseteq Int
  /\ Seed \in Nat
  /\ PoolSize \in [Implementations -> Nat \ {0}]
  /\ Impls \subseteq Implementations
  /\ MaxFaults \in Nat

VARIABLES
  impl,       \* the deployed implementation, fixed at the start
  stock,      \* inventories.stock, committed
  ledger,     \* inventory_ledgers in id order, committed
  rowLock,    \* the transaction that holds the row FOR UPDATE
  counter,    \* the Redis key stock:<sku>, NoCounter when absent
  granted,    \* history: units the Redis path has taken off the counter
  service,    \* "booting", "warming", "warmed" or "serving"
  warmStock,  \* the stock the boot read, not yet written to Redis
  boots,      \* history: times the counter has been warmed
  faults,     \* faults so far, at most MaxFaults
  pc,         \* where each caller's handler stands
  req,        \* the request each handler works on
  txStock,    \* the stock a transaction read under the row lock
  todo,       \* the reads a stock snapshot still has to make
  snap,       \* the snapshot read so far
  reply       \* the last answer each caller got

dbVars    == <<stock, ledger, rowLock>>
redisVars == <<counter, granted>>
bootVars  == <<service, warmStock, boots, faults>>
readVars  == <<todo, snap>>
vars == <<impl, dbVars, redisVars, bootVars, pc, req, txStock, readVars, reply>>

NoCounter  == -1
NoReply    == [code |-> 0, remaining |-> 0]
NoSnapshot == [db |-> 0, redis |-> NoCounter, ledger |-> <<>>]
NoRequest  == [path |-> "get", known |-> FALSE, qty |-> 0]

LedgerRow == [delta : Int, remaining : Int]
Snapshot  == [db : Int, redis : Int, ledger : Seq(LedgerRow)]
Request   == [path : {"redis", "db", "get"}, known : BOOLEAN, qty : Int]

Init ==
  /\ impl \in Impls
  /\ stock = Seed /\ ledger = <<>> /\ rowLock = Nobody
  /\ counter = NoCounter /\ granted = 0
  /\ service = "booting" /\ warmStock = 0 /\ boots = 0 /\ faults = 0
  /\ pc = [c \in Clients |-> "idle"]
  /\ req = [c \in Clients |-> NoRequest]
  /\ txStock = [c \in Clients |-> 0]
  /\ todo = [c \in Clients |-> <<>>]
  /\ snap = [c \in Clients |-> NoSnapshot]
  /\ reply = [c \in Clients |-> NoReply]

-----------------------------------------------------------------------------
(* Boot: onModuleInit runs before the port opens, so no request of this    *)
(* process is in flight while the counter is warmed.                       *)

WarmRead ==
  /\ service = "booting"
  /\ service' = "warming" /\ warmStock' = stock
  /\ UNCHANGED <<impl, dbVars, redisVars, boots, faults, pc, req, txStock, readVars, reply>>

\* SET, not a compare: whatever the counter held is overwritten.
WarmSet ==
  /\ service = "warming"
  /\ service' = "warmed" /\ counter' = warmStock /\ boots' = boots + 1
  /\ warmStock' = 0
  /\ UNCHANGED <<impl, dbVars, granted, faults, pc, req, txStock, readVars, reply>>

\* Go ignores a failed read and a failed SET, and serves all the same; in the
\* other three the error ends the boot, which is no step at all.
WarmSkippedGo ==
  /\ impl = "go" /\ service \in {"booting", "warming"}
  /\ service' = "warmed" /\ warmStock' = 0
  /\ UNCHANGED <<impl, dbVars, redisVars, boots, faults, pc, req, txStock, readVars, reply>>

\* app.listen opens the port when every onModuleInit has returned.
Listen ==
  /\ service = "warmed" /\ service' = "serving"
  /\ UNCHANGED <<impl, dbVars, redisVars, warmStock, boots, faults, pc, req, txStock, readVars, reply>>

-----------------------------------------------------------------------------
(* Steps every handler is made of.                                         *)

Goto(c, label) == pc' = [pc EXCEPT ![c] = label]

\* The handler returns: its caller gets an answer and its locals are gone.
\* What a snapshot had read stays, as part of the answer.
Answer(c, code, remaining) ==
  /\ Goto(c, "idle")
  /\ reply' = [reply EXCEPT ![c] = [code |-> code, remaining |-> remaining]]
  /\ txStock' = [txStock EXCEPT ![c] = 0]
  /\ todo' = [todo EXCEPT ![c] = <<>>]

BeginReads(c, reads) ==
  /\ Goto(c, "read")
  /\ todo' = [todo EXCEPT ![c] = reads]

\* A caller that answers 409 reads the stock again to fill the envelope.
InConflict(c) == req[c].path # "get"

\* The reads of GET /stock/:sku, in the order the code awaits them.
AnyQuantity(q) == TRUE
Accepts(q) == q > 0

LedgerFirstReads == <<"ledger", "db", "redis">>
StockReads == <<"db", "redis", "ledger">>
StockReadsCSharp == <<"db", "ledger", "redis">>
\* RemainingFor: the row is read only when the counter is absent.
ConflictReadsCSharp == <<"redis", "db">>

ReadsFor(path) ==
  CASE impl # "csharp" -> StockReads
    [] path = "get"    -> StockReadsCSharp
    [] OTHER           -> ConflictReadsCSharp

\* A body that fails the validation is answered at once.
Refuse(c) ==
  /\ service = "serving" /\ pc[c] = "idle"
  /\ \E q \in Quantities : ~Accepts(q)
  /\ Answer(c, 400, 0)
  /\ UNCHANGED <<impl, dbVars, redisVars, bootVars, req, snap>>

Call(c, request) ==
  /\ service = "serving" /\ pc[c] = "idle"
  /\ req' = [req EXCEPT ![c] = request]
  /\ reply' = [reply EXCEPT ![c] = NoReply]
  /\ snap' = [snap EXCEPT ![c] = NoSnapshot]
  /\ UNCHANGED <<impl, dbVars, redisVars, bootVars, txStock>>

Submit(c) ==
  \E path \in {"redis", "db"}, known \in BOOLEAN, q \in Quantities :
    /\ Accepts(q)
    /\ Call(c, [path |-> path, known |-> known, qty |-> q])
    /\ Goto(c, IF path = "redis" THEN "eval" ELSE "begin")
    /\ UNCHANGED todo

SubmitGet(c) ==
  \E known \in BOOLEAN :
    /\ Call(c, [path |-> "get", known |-> known, qty |-> 0])
    /\ BeginReads(c, ReadsFor("get"))

-----------------------------------------------------------------------------
(* The Redis path: one EVAL, atomic on Redis's single thread.  The key of  *)
(* a SKU that was never warmed is absent.                                  *)

CounterOf(c) == IF req[c].known THEN counter ELSE NoCounter

LuaAllowsShort(value, q) == value # NoCounter /\ value + 1 >= q
LuaAllowsNotLast(value, q) == value # NoCounter /\ value > q
LuaAllows(value, q) == value # NoCounter /\ value >= q

LuaKeeps(c) ==
  /\ LuaAllows(CounterOf(c), req[c].qty)
  /\ UNCHANGED counter
  /\ granted' = granted + req[c].qty
LuaTakes(c) ==
  /\ LuaAllows(CounterOf(c), req[c].qty)
  /\ counter' = counter - req[c].qty
  /\ granted' = granted + req[c].qty

EvalLua(c) ==
  /\ pc[c] = "eval"
  /\ \/ /\ LuaTakes(c)
        /\ Answer(c, 200, counter')
     \/ /\ ~LuaAllows(CounterOf(c), req[c].qty)
        /\ UNCHANGED redisVars
        /\ \/ CounterOf(c) = NoCounter /\ Answer(c, 404, 0)
           \/ /\ CounterOf(c) # NoCounter /\ BeginReads(c, ReadsFor("redis"))
              /\ UNCHANGED <<txStock, reply>>
  /\ UNCHANGED <<impl, dbVars, bootVars, req, snap>>

\* Redis is unreachable, or its answer is lost after the script ran.
EvalFails(c) ==
  /\ pc[c] = "eval"
  /\ LuaTakes(c) \/ UNCHANGED redisVars
  /\ Answer(c, 500, 0)
  /\ UNCHANGED <<impl, dbVars, bootVars, req, snap>>

\* The client libraries of TypeScript, Java and Go, all built with their default
\* options, send a command again when its connection breaks before the reply.
Resends == impl # "csharp"

\* The script has run, its reply is lost, and the same call is sent again: it
\* may take its units a second time, or be refused for what it took itself.
EvalResent(c) ==
  /\ Resends /\ pc[c] = "eval"
  /\ LuaTakes(c)
  /\ UNCHANGED <<impl, dbVars, bootVars, pc, req, txStock, readVars, reply>>

-----------------------------------------------------------------------------
(* The connection pool.  A transaction keeps its connection from BEGIN to  *)
(* its end, also while it waits for the row lock; a single statement gives *)
(* its connection back with its result.                                    *)

HoldsWhileReading(c) ==
  pc[c] \in {"select", "write", "commit"} \/ (pc[c] = "read" /\ req[c].path = "db")
InTransaction(c) == pc[c] \in {"select", "write", "commit"}

PoolFree == Cardinality({c \in Clients : InTransaction(c)}) < PoolSize[impl]

BeginTransaction(c) ==
  /\ pc[c] = "begin" /\ PoolFree
  /\ Goto(c, "select")
  /\ UNCHANGED <<impl, dbVars, redisVars, bootVars, req, txStock, readVars, reply>>

-----------------------------------------------------------------------------
(* The database path: BEGIN; SELECT ... FOR UPDATE; check; UPDATE; INSERT  *)
(* into the ledger; COMMIT.  Nothing another session can see changes       *)
(* before the commit, so the two writes are one local step.                *)

LockIgnored == TRUE
RowIsFree == rowLock = Nobody

Release(c) == rowLock' = IF rowLock = c THEN Nobody ELSE rowLock

SelectForUpdate(c) ==
  /\ pc[c] = "select"
  /\ \/ /\ ~req[c].known
        /\ Answer(c, 404, 0) /\ UNCHANGED rowLock
     \/ /\ req[c].known /\ RowIsFree
        /\ rowLock' = c /\ txStock' = [txStock EXCEPT ![c] = stock]
        /\ Goto(c, "write") /\ UNCHANGED <<todo, reply>>
  /\ UNCHANGED <<impl, stock, ledger, redisVars, bootVars, req, snap>>

WriteRows(c) ==
  /\ pc[c] = "write"
  /\ \/ /\ txStock[c] < req[c].qty
        /\ Release(c) /\ BeginReads(c, ReadsFor("db"))
     \/ /\ txStock[c] >= req[c].qty
        /\ Goto(c, "commit") /\ UNCHANGED <<rowLock, todo>>
  /\ UNCHANGED <<impl, stock, ledger, redisVars, bootVars, req, txStock, snap, reply>>

LedgerRowBefore(c) == [delta |-> -req[c].qty, remaining |-> txStock[c]]
NewLedgerRow(c) == [delta |-> -req[c].qty, remaining |-> txStock[c] - req[c].qty]

CommitApplies(c) ==
  /\ stock' = txStock[c] - req[c].qty
  /\ ledger' = Append(ledger, NewLedgerRow(c))

Commit(c) ==
  /\ pc[c] = "commit"
  /\ CommitApplies(c) /\ Release(c)
  /\ Answer(c, 200, txStock[c] - req[c].qty)
  /\ UNCHANGED <<impl, redisVars, bootVars, req, snap>>

\* A transaction that does not commit leaves neither write behind.
UpdateStays(c) == pc[c] = "commit" /\ stock' = txStock[c] - req[c].qty /\ UNCHANGED ledger
RolledBack(c) == UNCHANGED <<stock, ledger>>

\* No connection comes in time, a statement fails and the transaction rolls
\* back, or the COMMIT is applied and its acknowledgement is lost; the caller
\* sees 500 each time.
DbFails(c) ==
  /\ pc[c] \in {"begin", "select", "write", "commit"}
  /\ \/ RolledBack(c)
     \/ pc[c] = "commit" /\ CommitApplies(c)
  /\ Release(c)
  /\ Answer(c, 500, 0)
  /\ UNCHANGED <<impl, redisVars, bootVars, req, snap>>

-----------------------------------------------------------------------------
(* Reading a snapshot, for GET and for the 409 envelope.                   *)

Reading(c, what) == pc[c] = "read" /\ todo[c] # <<>> /\ Head(todo[c]) = what

\* EF Core hands back the entity the same request already tracks, so C#'s
\* conflict path sees the stock its transaction read, not today's.
RowSeen(c) ==
  IF impl = "csharp" /\ req[c].path = "db" THEN txStock[c] ELSE stock

ReadAgain(c, seen, left) ==
  /\ snap' = [snap EXCEPT ![c] = seen]
  /\ todo' = [todo EXCEPT ![c] =
                IF left = <<>> /\ seen.redis = NoCounter THEN ReadsFor(req[c].path) ELSE left]
  /\ UNCHANGED <<impl, dbVars, redisVars, bootVars, pc, req, txStock, reply>>
Read(c, seen, left) ==
  /\ snap' = [snap EXCEPT ![c] = seen]
  /\ todo' = [todo EXCEPT ![c] = left]
  /\ UNCHANGED <<impl, dbVars, redisVars, bootVars, pc, req, txStock, reply>>

ReadDb(c) ==
  /\ Reading(c, "db") /\ PoolFree /\ req[c].known
  /\ Read(c, [snap[c] EXCEPT !.db = RowSeen(c)], Tail(todo[c]))

ReadDbUnknown(c) ==
  /\ Reading(c, "db") /\ PoolFree /\ ~req[c].known
  /\ Answer(c, 404, 0)
  /\ UNCHANGED <<impl, dbVars, redisVars, bootVars, req, snap>>

ReadRedis(c) ==
  /\ Reading(c, "redis")
  /\ Read(c, [snap[c] EXCEPT !.redis = CounterOf(c)],
          IF impl = "csharp" /\ InConflict(c) /\ CounterOf(c) # NoCounter
          THEN <<>> ELSE Tail(todo[c]))

\* The envelope of a 409 reads the ledger too and has no use for it.
ReadLedger(c) ==
  /\ Reading(c, "ledger") /\ PoolFree
  /\ Read(c, [snap[c] EXCEPT !.ledger = IF InConflict(c) THEN <<>> ELSE ledger],
          Tail(todo[c]))

\* Go leaves the row loop when Next is false and never asks rows.Err(), so a
\* connection that breaks in the middle yields a shorter ledger and no error.
ReadLedgerCutShortGo(c) ==
  /\ impl = "go" /\ Reading(c, "ledger") /\ PoolFree /\ ~InConflict(c)
  /\ \E n \in 0 .. Len(ledger) - 1 :
       Read(c, [snap[c] EXCEPT !.ledger = SubSeq(ledger, 1, n)], Tail(todo[c]))

\* Go treats a failed GET of the counter as an absent counter.
ReadRedisFailsGo(c) ==
  /\ impl = "go" /\ Reading(c, "redis")
  /\ Read(c, [snap[c] EXCEPT !.redis = NoCounter], Tail(todo[c]))

\* Elsewhere a failed read fails the snapshot: a GET answers 500, and the
\* conflict filter falls back to remaining = 0.  C# catches nothing there.
ReadFails(c) ==
  /\ pc[c] = "read" /\ todo[c] # <<>>
  /\ impl = "go" => Head(todo[c]) # "redis"
  /\ IF InConflict(c) /\ impl # "csharp" THEN Answer(c, 409, 0) ELSE Answer(c, 500, 0)
  /\ snap' = [snap EXCEPT ![c] = NoSnapshot]
  /\ UNCHANGED <<impl, dbVars, redisVars, bootVars, req>>

RemainingFor(s) == IF s.redis >= 0 THEN s.redis ELSE s.db

AnswerFromSnapshot(c) ==
  /\ pc[c] = "read" /\ todo[c] = <<>>
  /\ IF InConflict(c) THEN Answer(c, 409, RemainingFor(snap[c]))
                      ELSE Answer(c, 200, snap[c].db)
  /\ UNCHANGED <<impl, dbVars, redisVars, bootVars, req, snap>>

-----------------------------------------------------------------------------
(* The environment.                                                        *)

\* The process dies: open transactions roll back, the callers in flight get no
\* answer, and the next process boots.  Redis keeps its counter.
Crash ==
  /\ service # "booting" /\ faults < MaxFaults
  /\ faults' = faults + 1 /\ service' = "booting"
  /\ rowLock' = Nobody
  /\ pc' = [c \in Clients |-> "idle"]
  /\ req' = [c \in Clients |-> IF pc[c] = "idle" THEN req[c] ELSE NoRequest]
  /\ snap' = [c \in Clients |-> IF pc[c] = "idle" THEN snap[c] ELSE NoSnapshot]
  /\ txStock' = [c \in Clients |-> 0]
  /\ todo' = [c \in Clients |-> <<>>]
  /\ warmStock' = 0
  /\ UNCHANGED <<impl, stock, ledger, redisVars, boots, reply>>

\* Redis comes back without its data (no volume is mounted for it).
RedisLoss ==
  /\ faults < MaxFaults /\ counter # NoCounter
  /\ faults' = faults + 1 /\ counter' = NoCounter
  /\ UNCHANGED <<impl, dbVars, granted, service, warmStock, boots, pc, req, txStock, readVars, reply>>

-----------------------------------------------------------------------------
\* The steps a handler takes by itself once it has been called.
Progress(c) ==
  \/ EvalLua(c) \/ BeginTransaction(c) \/ SelectForUpdate(c) \/ WriteRows(c) \/ Commit(c)
  \/ ReadDb(c) \/ ReadDbUnknown(c) \/ ReadRedis(c) \/ ReadLedger(c) \/ AnswerFromSnapshot(c)

Failure(c) ==
  \/ EvalFails(c) \/ EvalResent(c) \/ DbFails(c) \/ ReadFails(c)
  \/ ReadRedisFailsGo(c) \/ ReadLedgerCutShortGo(c)

Boot == WarmRead \/ WarmSet \/ WarmSkippedGo \/ Listen

Next ==
  \/ Boot \/ Crash \/ RedisLoss
  \/ \E c \in Clients : Refuse(c) \/ Submit(c) \/ SubmitGet(c) \/ Progress(c) \/ Failure(c)

Spec == Init /\ [][Next]_vars

(* The event loop keeps running a handler whose awaited call has returned. *)
(* The pool queues those who wait for a connection and PostgreSQL queues   *)
(* the waiters of a row lock, so nobody is overtaken for ever: that is     *)
(* strong fairness.  Nothing obliges a client to call, a process to boot,  *)
(* or a fault to happen.                                                   *)
Fairness == \A c \in Clients : SF_vars(Progress(c))

FairSpec == Spec /\ Fairness

-----------------------------------------------------------------------------
(* What makes the service correct.                                         *)

\* Every variable has its type; the durable stock stays between 0, the CHECK
\* of seed.sql, and the seeded value, because no request can give units back.
TypeOK ==
  /\ impl \in Impls
  /\ stock \in 0 .. Seed
  /\ ledger \in Seq(LedgerRow)
  /\ rowLock \in Clients \cup {Nobody}
  /\ counter \in Nat \cup {NoCounter}
  /\ granted \in Nat
  /\ service \in {"booting", "warming", "warmed", "serving"}
  /\ warmStock \in 0 .. Seed
  /\ boots \in Nat
  /\ faults \in 0 .. MaxFaults
  /\ pc \in [Clients -> {"idle", "eval", "begin", "select", "write", "commit", "read"}]
  /\ req \in [Clients -> Request]
  /\ txStock \in [Clients -> Int]
  /\ todo \in [Clients -> Seq({"db", "redis", "ledger"})]
  /\ snap \in [Clients -> Snapshot]
  /\ reply \in [Clients -> [code : Nat, remaining : Int]]

\* The stock after the first i rows of a ledger.
Balance(rows, i) == IF i = 0 THEN Seed ELSE rows[i].remaining

\* The audit trail explains the stock: starting from the seed, every row
\* follows from the one before it by its delta, and the last one states the
\* committed stock.  A lost update, a row outside the transaction or a commit
\* of half of it breaks the chain.
LedgerExplainsStock ==
  /\ \A i \in 1 .. Len(ledger) :
       ledger[i].delta < 0 /\ ledger[i].remaining = Balance(ledger, i - 1) + ledger[i].delta
  /\ stock = Balance(ledger, Len(ledger))

Granted(c, path) == req[c].path = path /\ reply[c].code = 200
GrantedByDb(c) == Granted(c, "db")

\* The units a caller was sold, numbered from the last of the stock upwards.
Units(c) == reply[c].remaining + 1 .. reply[c].remaining + req[c].qty
SoldApart(c, d) == Units(c) \cap Units(d) = {}

\* A caller told 200 by the database path owns a ledger row of its own: the
\* row is there, and two callers were never sold the same unit.
GrantsAreJournaled ==
  \A c \in Clients : GrantedByDb(c) =>
    /\ \E i \in 1 .. Len(ledger) :
         ledger[i] = [delta |-> -req[c].qty, remaining |-> reply[c].remaining]
    /\ \A d \in Clients \ {c} : GrantedByDb(d) => SoldApart(c, d)

\* Nor did the Redis path sell a unit to two callers, as long as the counter was
\* not warmed again: neither replies that are lost, scripts that are sent twice,
\* crashes nor a lost counter make it hand out what it handed out before.
RedisUnitsSoldOnce ==
  boots <= 1 =>
    \A c, d \in Clients :
      c # d /\ Granted(c, "redis") /\ Granted(d, "redis") => SoldApart(c, d)

\* An answer to GET /stock is built from three separate reads while sales
\* commit: the rows it lists are the first rows of the ledger, and the stock it
\* reports is one the ledger passes through, outside Go among the listed rows.
\* Go may list fewer (ReadLedgerCutShortGo), but never a row that is not there.
SnapshotConsistent ==
  \A c \in Clients : req[c].path = "get" /\ reply[c].code = 200 =>
    \E i, n \in 0 .. Len(ledger) :
      /\ snap[c].db = Balance(ledger, i) /\ snap[c].ledger = SubSeq(ledger, 1, n)
      /\ impl # "go" => i <= n

\* A 409 of the Redis path that found the counter reports less than the
\* caller asked for, although the counter is read again, later, to fill it.
RedisShortageIsReal ==
  \A c \in Clients :
    req[c].path = "redis" /\ reply[c].code = 409 /\ snap[c].redis # NoCounter
      => reply[c].remaining < req[c].qty

CounterLeft == IF counter = NoCounter THEN 0 ELSE counter

\* However requests, crashes and losses interleave, the Redis path sells at
\* most one seed's worth for each time the counter was warmed.
OversellBound == granted + CounterLeft <= Seed * boots

\* Redis never sells more than the stock there ever was.
RedisSalesWithinSeed == granted <= Seed

WaitsForConnection(c) ==
  \/ pc[c] = "begin" /\ ~PoolFree
  \/ pc[c] = "read" /\ todo[c] # <<>> /\ Head(todo[c]) # "redis" /\ ~PoolFree
WaitsForRow(c) == pc[c] = "select" /\ req[c].known /\ ~RowIsFree
Waits(c) == WaitsForConnection(c) \/ WaitsForRow(c)

\* Whoever waits, waits for a handler that can go on: a full pool has a
\* transaction that waits for nothing, and so has a locked row.  No handler
\* keeps a connection or the row while it waits for what another one keeps.
NoStandstill ==
  \A c \in Clients :
    /\ WaitsForConnection(c) => \E d \in Clients : InTransaction(d) /\ ~Waits(d)
    /\ WaitsForRow(c) => rowLock \in Clients /\ InTransaction(rowLock) /\ ~Waits(rowLock)

\* The calls a handler makes before it answers, at most.
Steps == [begin |-> 7, select |-> 6, write |-> 5, eval |-> 5, commit |-> 1, idle |-> 0]
StepsLeft(c) == IF pc[c] = "read" THEN Len(todo[c]) + 1 ELSE Steps[pc[c]]

\* A handler never returns to a call it has made: each of its own steps brings
\* it nearer to its answer, also when a read fails or finds nothing.
HandlersAdvance ==
  [][\A c \in Clients : pc[c] # "idle" =>
       StepsLeft(c)' < StepsLeft(c) \/ UNCHANGED <<pc[c], todo[c]>>]_vars

\* A handler that was called answers, or dies with the process: no caller
\* waits for ever for a connection of the pool or for the row lock.
EveryRequestAnswered == \A c \in Clients : pc[c] # "idle" ~> pc[c] = "idle"

\* The durable stock and its ledger, seen from outside, only ever make the
\* indivisible sales of AtomicStock.
Durable == INSTANCE AtomicStock WITH available <- stock, journal <- ledger
SalesAreAtomic == Durable!Spec
=============================================================================
