---------------------- MODULE InventoryProgressProofs ----------------------
(***************************************************************************)
(* The part of "every request is answered" that needs no fairness, for     *)
(* every number of clients and every pool: no state is a standstill, and   *)
(* no handler goes round in circles.                                       *)
(***************************************************************************)
EXTENDS InventoryProofs, FiniteSetTheorems

-----------------------------------------------------------------------------
(* Who keeps what, and what he waits for.                                  *)

\* The row lock belongs to nobody, or to a handler between its SELECT and its
\* COMMIT: it is never left behind by one that is gone, nor kept by one that
\* waits for a connection.
Owned == rowLock \in Clients => pc[rowLock] \in {"write", "commit"}

LEMMA InitOwned == Init => Owned
  BY InventoryAssumption DEF Init, Owned

\* A handler whose step takes it to or from the states in which it owns the
\* row takes or gives up the row in that step.
LEMMA CallerOwned ==
  ASSUME IInv, Owned, NEW c \in Clients, CallerStep(c)
  PROVE  Owned'
<1>0. TypeOK /\ Locking
  BY DEF IInv
<1>1. ASSUME UNCHANGED rowLock, rowLock # c
      PROVE  Owned'
  <2>1. CASE rowLock \in Clients
    <3>1. UNCHANGED Locals(rowLock)
      BY <1>0, <1>1, <2>1, CallerFrame
    <3>2. QED  BY <1>1, <2>1, <3>1 DEF Owned, Locals
  <2>2. CASE rowLock \notin Clients
    BY <1>1, <2>2 DEF Owned
  <2>3. QED  BY <2>1, <2>2
<1>2. CASE SelectForUpdate(c)
  <2>1. rowLock # c
    BY <1>2 DEF Owned, SelectForUpdate
  <2>2. CASE UNCHANGED rowLock
    BY <1>1, <2>1, <2>2
  <2>3. CASE rowLock' = c /\ Goto(c, "write")
    BY <1>0, <2>3 DEF Owned, Goto, TypeOK
  <2>4. QED  BY <1>2, <2>2, <2>3 DEF SelectForUpdate
<1>3. CASE Commit(c) \/ DbFails(c) \/ (WriteRows(c) /\ Release(c))
  <2>1. CASE rowLock = c
    BY <1>3, <2>1, InventoryAssumption DEF Commit, DbFails, Release, Owned
  <2>2. CASE rowLock # c
    BY <1>1, <1>3, <2>2 DEF Commit, DbFails, Release
  <2>3. QED  BY <2>1, <2>2
<1>4. CASE WriteRows(c) /\ Goto(c, "commit") /\ UNCHANGED rowLock
  <2>1. CASE rowLock = c
    BY <1>0, <1>4, <2>1 DEF Owned, Goto, TypeOK
  <2>2. QED  BY <1>1, <1>4, <2>1
<1>5. CASE pc[c] \notin {"write", "commit"} /\ UNCHANGED rowLock
  BY <1>1, <1>5 DEF Owned
<1>6. CASE \/ Refuse(c) \/ Submit(c) \/ SubmitGet(c)
           \/ EvalLua(c) \/ EvalFails(c) \/ EvalResent(c) \/ BeginTransaction(c)
  BY <1>5, <1>6 DEF Refuse, Submit, SubmitGet, Call, EvalLua, EvalFails, EvalResent, BeginTransaction,
     dbVars
<1>7. CASE \/ ReadDb(c) \/ ReadDbUnknown(c) \/ ReadRedis(c) \/ ReadLedger(c) \/ AnswerFromSnapshot(c)
           \/ ReadFails(c) \/ ReadRedisFailsGo(c) \/ ReadLedgerCutShortGo(c)
  BY <1>5, <1>7 DEF ReadDb, ReadDbUnknown, ReadRedis, ReadLedger, AnswerFromSnapshot, ReadFails,
     ReadRedisFailsGo, ReadLedgerCutShortGo, Reading, Read, dbVars
<1>8. QED
  BY <1>2, <1>3, <1>4, <1>6, <1>7 DEF CallerStep, Progress, Failure, WriteRows

LEMMA NextOwned == IInv /\ Owned /\ [Next]_vars => Owned'
<1> SUFFICES ASSUME IInv, Owned, [Next]_vars PROVE Owned'
  OBVIOUS
<1>1. CASE Boot \/ RedisLoss \/ UNCHANGED vars
  BY <1>1 DEF Boot, WarmRead, WarmSet, WarmSkippedGo, Listen, RedisLoss, vars, dbVars, Owned
<1>2. CASE Crash
  BY <1>2, InventoryAssumption DEF Crash, Owned
<1>3. QED  BY <1>1, <1>2, CallerOwned DEF Next, CallerStep

LEMMA AlwaysOwned == Spec => []Owned
  BY InitOwned, NextOwned, AlwaysIInv, PTL DEF Spec

-----------------------------------------------------------------------------
(* No standstill.                                                          *)

\* A pool without a free connection has a transaction on it.
LEMMA FullPoolIsUsed ==
  ASSUME TypeOK, ~PoolFree
  PROVE  \E c \in Clients : InTransaction(c)
<1>1. PoolSize[impl] \in Nat \ {0}
  BY InventoryAssumption DEF TypeOK
<1>2. SUFFICES ASSUME \A c \in Clients : ~InTransaction(c)
               PROVE  FALSE
  OBVIOUS
<1>3. {c \in Clients : InTransaction(c)} = {}
  BY <1>2
<1>4. Cardinality({c \in Clients : InTransaction(c)}) = 0
  BY <1>3, FS_EmptySet
<1>5. QED  BY <1>1, <1>4 DEF PoolFree

\* A transaction waits for the row only, and the row's owner for nothing.
LEMMA TransactionWaits ==
  ASSUME NEW c \in Clients, InTransaction(c), Waits(c)
  PROVE  WaitsForRow(c)
  BY DEF InTransaction, Waits, WaitsForConnection

LEMMA OwnerGoesOn ==
  ASSUME TypeOK, Owned, ~RowIsFree
  PROVE  rowLock \in Clients /\ InTransaction(rowLock) /\ ~Waits(rowLock)
<1>1. rowLock \in Clients /\ pc[rowLock] \in {"write", "commit"}
  BY DEF TypeOK, Owned, RowIsFree
<1>2. QED  BY <1>1 DEF InTransaction, Waits, WaitsForConnection, WaitsForRow

LEMMA OwnedNoStandstill ==
  ASSUME TypeOK, Owned
  PROVE  NoStandstill
<1>1. ASSUME NEW c \in Clients, WaitsForConnection(c)
      PROVE  \E d \in Clients : InTransaction(d) /\ ~Waits(d)
  <2>1. PICK d \in Clients : InTransaction(d)
    BY <1>1, FullPoolIsUsed DEF WaitsForConnection
  <2>2. CASE Waits(d)
    BY <2>1, <2>2, TransactionWaits, OwnerGoesOn DEF WaitsForRow
  <2>3. QED  BY <2>1, <2>2
<1>2. ASSUME NEW c \in Clients, WaitsForRow(c)
      PROVE  rowLock \in Clients /\ InTransaction(rowLock) /\ ~Waits(rowLock)
  BY <1>2, OwnerGoesOn DEF WaitsForRow
<1>3. QED  BY <1>1, <1>2 DEF NoStandstill

\* Whoever waits for a connection or for the row waits for a handler that can
\* go on: the pool and the row lock never wait for each other.
THEOREM NeverStuck == Spec => []NoStandstill
<1>1. IInv => TypeOK
  BY DEF IInv
<1>2. TypeOK /\ Owned => NoStandstill
  BY OwnedNoStandstill
<1>3. QED  BY <1>1, <1>2, AlwaysIInv, AlwaysOwned, PTL

-----------------------------------------------------------------------------
(* No handler returns to a call it has made.                               *)

Advances(c) == StepsLeft(c)' < StepsLeft(c) \/ UNCHANGED <<pc[c], todo[c]>>

\* Every handler has calls to make until it has answered.
LEMMA StepsType ==
  ASSUME TypeOK, NEW c \in Clients
  PROVE  /\ StepsLeft(c) \in Nat
         /\ pc[c] # "idle" => StepsLeft(c) > 0
         /\ pc[c] = "read" => StepsLeft(c) = Len(todo[c]) + 1 /\ Len(todo[c]) \in Nat
<1>1. Len(todo[c]) \in Nat
  BY DEF TypeOK
<1>2. pc[c] \in {"idle", "eval", "begin", "select", "write", "commit", "read"}
  BY DEF TypeOK
<1>3. QED  BY <1>1, <1>2 DEF StepsLeft, Steps

LEMMA ReadsAreFew ==
  ASSUME NEW path
  PROVE  ReadsFor(path) \in Seq(Source) /\ Len(ReadsFor(path)) \in 0 .. 3
<1>1. Len(StockReads) = 3 /\ Len(StockReadsCSharp) = 3 /\ Len(ConflictReadsCSharp) = 2
  BY DEF StockReads, StockReadsCSharp, ConflictReadsCSharp
<1>2. Len(ReadsFor(path)) \in 0 .. 3
  BY <1>1 DEF ReadsFor
<1>3. QED  BY <1>2, ReadsType

\* An answer, the start of the reads, and one read less.
LEMMA AnswerAdvances ==
  ASSUME TypeOK, NEW c \in Clients, pc[c] # "idle", pc'[c] = "idle"
  PROVE  Advances(c)
<1>1. StepsLeft(c)' = 0
  BY DEF StepsLeft, Steps
<1>2. QED  BY <1>1, StepsType DEF Advances

LEMMA ReadsAdvance ==
  ASSUME TypeOK, NEW c \in Clients, pc[c] \in {"eval", "write"}, NEW path,
         BeginReads(c, ReadsFor(path))
  PROVE  Advances(c)
<1>1. pc'[c] = "read" /\ todo'[c] = ReadsFor(path)
  BY DEF TypeOK, BeginReads, Goto
<1>2. StepsLeft(c)' = Len(ReadsFor(path)) + 1
  BY <1>1 DEF StepsLeft
<1>3. StepsLeft(c) = 5
  BY DEF StepsLeft, Steps
<1>4. \A n \in 0 .. 3 : StepsLeft(c)' = n + 1 => StepsLeft(c)' < StepsLeft(c)
  BY <1>3
<1>5. StepsLeft(c)' < StepsLeft(c)
  BY <1>2, <1>4, ReadsAreFew, Zenon
<1>6. QED  BY <1>5 DEF Advances

LEMMA ReadAdvances ==
  ASSUME TypeOK, NEW c \in Clients, pc[c] = "read", todo[c] # <<>>, NEW seen,
         Read(c, seen, Tail(todo[c])) \/ Read(c, seen, <<>>)
  PROVE  Advances(c)
<1>1. todo[c] \in Seq(Source)
  BY DEF TypeOK, Source
<1>2. /\ Len(todo[c]) \in Nat /\ Len(todo[c]) > 0
      /\ Len(Tail(todo[c])) = Len(todo[c]) - 1 /\ Len(<<>>) = 0
  BY <1>1
<1>3. pc'[c] = "read" /\ (todo'[c] = Tail(todo[c]) \/ todo'[c] = <<>>)
  BY DEF TypeOK, Read
<1>4. StepsLeft(c)' = Len(todo'[c]) + 1
  BY <1>3 DEF StepsLeft
<1>5. StepsLeft(c) = Len(todo[c]) + 1
  BY StepsType
<1>6. StepsLeft(c)' = Len(todo[c]) \/ StepsLeft(c)' = 1
  <2>1. CASE todo'[c] = Tail(todo[c])
    BY <1>2, <1>4, <2>1
  <2>2. CASE todo'[c] = <<>>
    BY <1>2, <1>4, <2>2
  <2>3. QED  BY <1>3, <2>1, <2>2
<1>7. StepsLeft(c)' < StepsLeft(c)
  BY <1>2, <1>5, <1>6
<1>8. QED  BY <1>7 DEF Advances

LEMMA CallerAdvances ==
  ASSUME TypeOK, NEW c \in Clients, CallerStep(c), pc[c] # "idle"
  PROVE  Advances(c)
<1>0. ~Refuse(c) /\ ~Submit(c) /\ ~SubmitGet(c)
  BY DEF Refuse, Submit, SubmitGet, Call
<1>1. ASSUME NEW code, NEW remaining, Answer(c, code, remaining)
      PROVE  Advances(c)
  BY <1>1, AnswerAdvances DEF Answer, Goto, TypeOK
<1>2. CASE EvalLua(c) \/ EvalFails(c)
  BY <1>1, <1>2, ReadsAdvance DEF EvalLua, EvalFails
<1>3. CASE EvalResent(c)
  BY <1>3 DEF EvalResent, readVars, Advances
<1>4. CASE BeginTransaction(c)
  BY <1>4 DEF BeginTransaction, Goto, TypeOK, Advances, StepsLeft, Steps
<1>5. CASE SelectForUpdate(c)
  <2>1. CASE Goto(c, "write")
    BY <1>5, <2>1 DEF SelectForUpdate, Goto, TypeOK, Advances, StepsLeft, Steps
  <2>2. QED  BY <1>1, <1>5, <2>1 DEF SelectForUpdate
<1>6. CASE WriteRows(c)
  <2>1. CASE Goto(c, "commit")
    BY <1>6, <2>1 DEF WriteRows, Goto, TypeOK, Advances, StepsLeft, Steps
  <2>2. QED  BY <1>6, <2>1, ReadsAdvance DEF WriteRows
<1>7. CASE Commit(c) \/ DbFails(c)
  BY <1>1, <1>7 DEF Commit, DbFails
<1>8. CASE \/ ReadDb(c) \/ ReadRedis(c) \/ ReadLedger(c) \/ ReadRedisFailsGo(c)
           \/ ReadLedgerCutShortGo(c)
  BY <1>8, ReadAdvances DEF ReadDb, ReadRedis, ReadLedger, ReadRedisFailsGo, ReadLedgerCutShortGo, Reading
<1>9. CASE ReadDbUnknown(c) \/ ReadFails(c) \/ AnswerFromSnapshot(c)
  BY <1>1, <1>9 DEF ReadDbUnknown, ReadFails, AnswerFromSnapshot
<1>10. QED
  BY <1>0, <1>2, <1>3, <1>4, <1>5, <1>6, <1>7, <1>8, <1>9 DEF CallerStep, Progress, Failure

LEMMA NextAdvances ==
  ASSUME TypeOK, [Next]_vars
  PROVE  \A c \in Clients : pc[c] # "idle" => Advances(c)
<1> SUFFICES ASSUME NEW c \in Clients, pc[c] # "idle" PROVE Advances(c)
  OBVIOUS
<1>1. CASE Boot \/ RedisLoss \/ UNCHANGED vars
  BY <1>1 DEF Boot, WarmRead, WarmSet, WarmSkippedGo, Listen, RedisLoss, vars, readVars, Advances
<1>2. CASE Crash
  BY <1>2, AnswerAdvances DEF Crash
<1>3. ASSUME NEW d \in Clients, CallerStep(d)
      PROVE  Advances(c)
  <2>1. CASE d = c
    BY <1>3, <2>1, CallerAdvances
  <2>2. CASE d # c
    BY <1>3, <2>2, CallerFrame DEF Locals, Advances
  <2>3. QED  BY <2>1, <2>2
<1>4. QED  BY <1>1, <1>2, <1>3 DEF Next, CallerStep

\* Each step of a handler brings it nearer to its answer: with NeverStuck, all
\* that is left to fairness is that the next call returns.
THEOREM HandlersShorten == Spec => HandlersAdvance
<1>1. TypeOK /\ [Next]_vars =>
        [\A c \in Clients : pc[c] # "idle" =>
           StepsLeft(c)' < StepsLeft(c) \/ UNCHANGED <<pc[c], todo[c]>>]_vars
  BY NextAdvances DEF Advances
<1>2. QED  BY <1>1, TypeCorrect, PTL DEF Spec, HandlersAdvance

=============================================================================
