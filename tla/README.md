# Flash-sale services in TLA+

TLA+ models, model-checking configurations and machine-checked proofs for the
three services of this repository. Each service exists four times, in
TypeScript, Java, C# and Go; the four share their steps and differ in what they
do when a read finds nothing or a call fails. Every model therefore has a
variable `impl`, fixed at the start, and an operator named after a language
(`ReadLedgerCutShortGo`, `RecoveredAmountCSharp`, ...) wherever the code of that
language goes its own way.

## 1. The system

Three independent services; none calls another. Each is one process behind
HTTP, with state only in Redis and PostgreSQL. Handlers are sequences of single
Redis commands and SQL statements with an `await` (or a blocking call) between
them, and everything hard about them happens at those points: another request
runs, a key expires, a call fails before or after it was applied, the process
dies.

| Component | State | Operations | Model |
|---|---|---|---|
| Inventory | row `inventories.stock`, rows of `inventory_ledgers`, Redis counter `stock:<sku>`, connection pool | boot warm-up and listen, decrement through a Redis script, decrement through a locked row, stock snapshot, 409 envelope | `Inventory`, promises `AtomicStock` |
| Waiting room | Redis sorted set `waitingroom:queue`, Redis set `waitingroom:admitted` with one TTL | token, position, status, admit | `WaitingRoom`, promises `WaitingLine` |
| Checkout | Redis key `idempotency:<key>`, table `orders` with `UNIQUE(idempotency_key)` | one POST made idempotent by claim, insert, recover and cached result | `Checkout`, promises `IdempotentOrders` |
| Configuration and bootstrap | connection pool, client options | start: warm-up, then listen | what later behaviour depends on is part of the three models |
| Health endpoints, container files | none after start | - | not modelled |

What is hard, and what must hold all the same:

* **Inventory.** Two transactions race for a row; a snapshot is three reads at
  three moments; the 409 envelope reads the stock again after the check; the
  reply of a script or a commit can be lost, and a lost script is sent again; a
  transaction keeps its connection while it waits for the row; a restart
  overwrites the counter.
  The ledger must explain the stock, a unit must not be sold twice by one path,
  and what callers are told must be of one moment.
* **Waiting room.** Admission is ZPOPMIN, SADD, EXPIRE in three round trips, so
  tokens are for a moment in neither key; handing out a token is ZADD, ZRANK;
  the TTL belongs to the whole set; the score is a wall clock. A token must be in one place, be admitted
  once and in turn, and its holder must not be told nonsense.
* **Checkout.** The claim may lapse while its owner works, so two owners may
  work on a key, and the slower one writes its result last; a claim that is
  sent twice finds its own marker in the way. There must be one
  order per key and one answer for it.

The `hazards` of `PROJECT.json` list each of these at the line where it bites,
with the properties that would catch it.

## 2. Modules

| Module | What it is |
|---|---|
| `AtomicStock` | abstract: units leave the stock in indivisible sales, each with one journal row |
| `Inventory` | the inventory service, one action per awaited step |
| `InventoryProofs` | theorems about `Inventory` |
| `InventoryProgressProofs` | theorems about `Inventory`: no standstill, and handlers that only go forward |
| `IdempotentOrders` | abstract: at most one order per key, and callers are told only that one |
| `Checkout` | the checkout service |
| `CheckoutProofs` | theorems about `Checkout` |
| `WaitingLine` | abstract: tokens join once and are called once, never before an earlier stamp in the line |
| `WaitingRoom` | the waiting room |
| `WaitingRoomProofs` | theorems about `WaitingRoom` |
| `MCInventory`, `MCCheckout`, `MCWaitingRoom` | instances for TLC: symmetry, quantities, the amount column |

How the models correspond to the code:

* An action is the code between two awaits, named after the call it makes or
  the handler it belongs to (`SelectForUpdate`, `EvalLua`, `ZRank`, `SAdd`). The
  program counters `pc` (and `apc` for admit handlers) say which call comes
  next; a handler's locals are per-caller functions (`txStock`, `todo`, `snap`,
  `result`, `batch`).
* A Redis command or script is atomic, as Redis is. In `Inventory` a transaction
  is its lock step, its check and its commit: nothing another session can see
  changes before the commit, so the two writes are one step with it.
* A failed call is an action of its own (`EvalFails`, `DbFails`, `InsertFails`,
  `AdmitFails`, ...) with both outcomes, applied and not applied. A resent call
  (`EvalResent`, `ClaimResent`, `StoreResent`, `ZAddResent`, `AdmitResent`) is
  one that was applied, lost its reply and is sent again by the client library:
  the code builds the clients of TypeScript, Java and Go with their default
  options, which do that, and the one of C#, which does not (`Resends`).
* `RequestBehind` is a token request that reads a clock behind the one others
  have read: set back, or another host's. `Crash` ends
  every handler; what Redis and PostgreSQL hold stays. `RedisLoss`: the compose
  files mount no volume for Redis. In `Checkout` a lost cache entry is
  `ExpireResult`.
* The connection pool of `Inventory` is counted, not represented: a transaction
  holds a connection from `BeginTransaction` to its end, a single statement
  needs a free one when it is sent (`PoolFree`).
* A caller keeps the last answer it got (`reply`, `seen`), so properties can
  speak of what callers know. Variables marked "history" in a module are only
  there for properties and no guard reads them.
* Data: an amount is a string and `Numeric` says what `NUMERIC(12,2)` makes of
  it (padding "999" to "999.00", refusing "abc" and "1e12"), since what callers
  are told depends on that conversion. `Overflows` are the refused amounts that
  do parse: Java takes the column's refusal of those for a duplicate key. UUIDs are numbers, because Redis breaks ties by comparing them.
  There is one SKU that exists and one that does not. SKU and status of an order,
  and all wording of answers, are left out.

Composition: the services share no state, so no module composes two of them.
Each one is composed with its environment (callers, expiry, faults) in its own
`Next`.

## 3. Runs

Passing runs (distinct states as measured):

| Run | Question | Bounds | States |
|---|---|---|---|
| `InventorySafety` | typing, ledger, grants of both paths, snapshots, 409s, oversell bound, handlers only go forward, refinement of `AtomicStock` | 2 callers, seed 2, quantities -1, 1, 2, two connections, one crash or Redis loss, any failing or resent calls, TypeScript, C#, Go | 1 690 257 |
| `InventoryLiveness` | pool and row lock never wait for each other, every called handler returns | 2 callers, seed 1, one fault; one connection in Java, two in C# | 66 194 |
| `CheckoutSafety` | cache and answers name the committed order; callers share an order exactly when they share a key; amounts agree; recovery finds the order | 2 callers, keys: one, none, empty; five amounts; all four languages | 1 151 804 |
| `CheckoutRaces` | one order per key, one live claim, one creator, refinement of `IdempotentOrders` | 3 callers, 2 keys, one amount | 253 804 |
| `CheckoutLiveness` | every caller that keeps asking is told its order | 2 callers, 2 keys, two amounts, Java, C#, Go | 213 128 |
| `WaitingRoomSafety` | tokens are conserved and have holders, a fault loses only what is being moved, admits take their fill, what can cost the set its TTL, a grant lasts its term, polls never go back | 2 tokens, 2 admits with counts 0 and 2, 1 poller, TTL 2, 4 instants, one fault, TypeScript, Go | 3 700 519 |
| `WaitingRoomOrder` | order of the line, positions that only improve, refinement of `WaitingLine` | 3 tokens, 1 admit with counts 1 and 2, TTL 1, 3 instants, one fault, C# | 5 124 453 |
| `WaitingRoomLiveness` | every token in line is admitted, every grant ends, also after a fault | 2 tokens, 2 admits with count 0, TTL 2, 2 instants to request in, one fault, Java | 110 254 |

Why the bounds are enough: every property relates at most two callers or tokens
and a third that interferes. Seed 2 with quantities 1 and 2 reaches exact
depletion, shortage, and two sales in a row. Two stamps and a tie need two
instants, expiry between two steps a TTL of one tick, and refreshing a grant a
TTL of two. One fault suffices for every single-failure scenario of `Inventory`
and `WaitingRoom`; in `Checkout` faults are not counted, since its state is
finite without a bound. `WaitingRoomOrder` takes C#, whose client does not
resend: the order of the line is about stamps, and what a resent ZADD does to
places is checked in `WaitingRoomSafety` and proved for all. Java is left out
of `InventorySafety` and of `CheckoutRaces` because it takes the steps of
TypeScript or of Go there. In `WaitingRoomLiveness` the count is always 0, the
one that would stop the line if `AdmitCount` did not raise it. Bounds in
guards: `MaxFaults` (crashes, losses; in `WaitingRoom` every fault) and
`MaxClock` (ticks of the waiting room's clock; past it the clock only reaches
deadlines already set, so no grant is kept alive by the bound).

Violation runs show where the code does not do what a comment of the repository
says; each is a finding in `PROJECT.json`, with the line and the quotation:

| Run | What it shows |
|---|---|
| `InventoryRewarm` | a restart re-warms the counter from a stock the Redis sales never reached, and sells the seed again |
| `CheckoutEmptyReplay` | TypeScript answers 200 with no order when the key vanishes between SET and GET |
| `WaitingRoomUnknown` | a token that is being admitted is reported unknown |
| `WaitingRoomExpiry` | an abandoned grant lives as long as admissions go on |

The models contain further behaviour that a reader of the comments would not
expect. It is the reason for a condition in a passing property, or stays outside
what the properties promise:

* Go answers a ledger cut short by a broken connection as the whole ledger
  (`ReadLedgerCutShortGo`): of Go, `SnapshotConsistent` says that the rows are
  the first ones and the stock is one the ledger passes through, not that the
  stock is among the rows listed.
* A script that is sent again takes its units twice (`EvalResent`). The units
  are gone, and `OversellBound` holds because it counts what left the counter.
* A SET NX that is sent again leaves a marker nobody owns (`ClaimResent`): the
  caller is told 409 until it expires.
* A ZADD that is sent again after an admit popped the token puts it back in
  line, so it is admitted twice (`ZAddResent`; `TokensConserved` and `LineIsFair`
  speak of tokens whose command was sent once). What such a token may not do is
  checked with it in line: no answer is taken back while its grant lasts
  (`PollsNeverGoBack`), and nobody else loses a place or a grant
  (`OnlyTheMovedAreLost`).
* A handler that recovers an order after a unique violation answers 201 like
  the one that placed it, so two callers may be told 201 for one order after a
  claim lapsed (`Recover`, `Store`), where checkout.controller.ts:17 says "201 on
  first creation, 200 on replay". `CreatedOnce` bounds this: it takes a key that
  has run out in Redis.
* Java takes an amount too large for the column for a duplicate key, and answers
  another request's order when there is one (`LooksDuplicate`, `NoRowJava`).
* The 409 of the database path reports the Redis counter when there is one, so
  `remaining` can be more than was asked for (`RemainingFor`;
  `RedisShortageIsReal` speaks of the Redis path only).
* After a unique violation C# answers and caches the amount of the second
  request (`RecoveredAmountCSharp`). A collision needs a key that has run out in
  Redis: until then `AmountsAgree` holds in C# too, afterwards it says nothing.
* The first answer of a checkout echoes the amount of the body, "999", a
  recovered one that of the column, "999.00" (`Insert`, `Recover`);
  `AmountsAgree` compares what they are worth.
* A marker whose owner failed answers 409 until its TTL runs out
  (`InsertFails`); `EveryCallerServed` says that it does run out.
* Requests without a key share one key and so one order (`EffectiveKey`).
  `CallersAgree` draws the line: nobody who sent a key is told that order.
* A token popped between its ZADD and its ZRANK is handed out with position 1,
  and in Go answered 500 and admitted without a holder (`RankMissing`,
  `RankMissingGo`; `EveryTokenHasAHolder` excludes Go).
* Tokens of one millisecond are ordered by their random UUIDs, and a clock that
  is behind puts a later token first, so that ZPOPMIN does not pop "the longest
  waiters" of waitingroom.service.ts:52. `OvertakenOnlyOnTies` and `PositionsOnlyImprove` exempt only
  a token whose own request met such a clock: it does not disturb the order of
  the others.
* When the set expires between the SADD and the EXPIRE of an admit, its answer
  lists tokens that are not admitted (`Refresh`; `GrantsLast` speaks of grants
  the EXPIRE found). A crash between the two leaves the set without a TTL:
  `TtlBacked` says that nothing but a call that fails during an admit does, and
  `EveryGrantEnds` that the next admission repairs it; if there is none, the
  grants stay for ever.
* A token popped by an admit that fails before its SADD is lost (`AdmitFails`,
  `Crash`, `PopFails`). `OnlyTheMovedAreLost` bounds the loss to those tokens, and
  `EveryTokenAdmitted` says that everybody else is admitted all the same.
* A transaction that does not commit leaves neither of its writes behind
  (`RolledBack`): PostgreSQL's promise, on which the code rests.

Every property of a passing run has a mutant in `PROJECT.json`: an operator of
the model and a plausible bug in its place (`LockIgnored`, `SetAlways`,
`DeadlineSetOnce`, `HoldsWhileReading`, ...) under which TLC finds the property violated. The mutated
operators stand directly before the ones they mutate and nothing else uses them.

## 4. Fairness

* `SF(Progress)` in `Inventory`: a handler whose awaited call has returned is
  run on; connections and the row lock are taken and given back again and
  again, and the pool and PostgreSQL queue those who wait, so a waiter is not
  overtaken for ever.
* `WF(Progress)` in `Checkout`: a handler whose call has returned is run on; all
  four runtimes schedule ready handlers.
* `WF(ExpirePending)` in `Checkout`: the marker has a TTL of 30 s.
* `WF(~Told /\ Claim)` in `Checkout`: a caller that has not been told its order
  sends the request again. This is the client's side of an idempotency key, not
  code of the repository; `EveryCallerServed` is conditional on it.
* `WF(Admit)` in `WaitingRoom`: somebody keeps calling `/admit`. Nothing in the
  code does, so that anybody is admitted is a promise conditional on the
  operator. `WF(SAdd \/ Expire)`: an admit that has begun goes on. `WF(Tick)`: time
  passes, as far as the bound and the deadlines.

Nothing obliges a client to call first, a process to boot, or a fault to happen.
`CheckoutLiveness` leaves TypeScript out: there an empty 200 counts as an answer
to the caller, and whether it asks again is not for the model to say.

## 5. Proofs

Each theorem holds for any number of callers, keys, quantities and faults that
meet the module's named assumption; TLC evaluates the assumption on every run.

`InventoryProofs`, from `InventoryAssumption`:

| Theorem | States |
|---|---|
| `TypeCorrect` | `Spec => []TypeOK`, with the stock between 0 and the seed |
| `LedgerCorrect` | `Spec => []LedgerExplainsStock` |
| `SalesRefine` | `Spec => SalesAreAtomic`: every step is an `AtomicStock` sale or a stutter |
| `OversellBounded` | `Spec => []OversellBound` |
| `ShortageReal` | `Spec => []RedisShortageIsReal` |
| `GrantsJournaled` | `Spec => []GrantsAreJournaled` |
| `RedisSoldOnce` | `Spec => []RedisUnitsSoldOnce` |
| `SnapshotsTrue` | `Spec => []SnapshotConsistent` |

`InventoryProgressProofs`, from the same assumption:

| Theorem | States |
|---|---|
| `NeverStuck` | `Spec => []NoStandstill` |
| `HandlersShorten` | `Spec => HandlersAdvance` |

`TypeOK` alone is not inductive: that the stock stays in `0 .. Seed` needs the
row lock. The strengthening says that a handler between its lock and its commit
owns the lock and holds the committed stock, that no two handlers do, and that a
handler at the commit was found to have enough. With it a commit is an
`AtomicStock` sale. The ledger invariant follows by appending one row to a chain.
For `OversellBounded` the counter and what was granted are bounded together by
the seed for each warming. `ShortageReal` needs that the counter never rises
while a caller of this process fills its envelope: only a boot writes it, and a
boot has no callers in flight. `GrantsJournaled` rests on the ledger's
`remaining` never rising: a new row is below every row there is, so no caller
sold before was sold the same unit. `SnapshotsTrue` says for each point of the
read sequence what has been read so far: the stock first, in all four orders,
and a stock once in the chain stays in it, since the ledger only grows.
`RedisSoldOnce` is the same argument for the counter: `CInv` says that every
caller granted by the script was told a remaining count no smaller than the counter
is now, and that two of them hold disjoint intervals of units; the script takes
its units below both, and a script that is resent only lowers the counter.

`NeverStuck` needs `Owned`: the owner of the row lock stands at its write or its
commit, for which it needs neither a connection nor the row. A full pool has at
least one transaction on it, since every pool has a connection, and a transaction
waits for nothing but the row. `HandlersShorten` counts the calls a handler has
before it (`StepsLeft`), which every step of its own lowers. Together they are
`EveryRequestAnswered` without the fairness: with requests in flight some handler
can go on, and a handler can go on only finitely often. They hold for every
number of callers and every size of the pool; that fairness then carries each
handler to its answer is left to TLC.

`CheckoutProofs`, from `CheckoutAssumption`:

| Theorem | States |
|---|---|
| `TypeCorrect` | `Spec => []TypeOK` |
| `OneOrder` | `Spec => []OneOrderPerKey` |
| `CacheSound` | `Spec => []CacheNamesTheOrder` |
| `SuccessSound` | `Spec => []SuccessNamesTheOrder` |
| `RecoverySound` | `Spec => []RecoveryFindsTheOrder` |
| `SameAnswerForAll` | `Spec => []CallersAgree`: callers are told one order exactly when they sent one key, or both none |
| `ClaimsExclude` | `Spec => []OneLiveClaim` |
| `CreationOnce` | `Spec => []CreatedOnce` |
| `CacheKeeps` | `Spec => CacheKeepsItsOrder` |
| `AmountsSound` | `Spec => []AmountsAgree` |
| `PromiseKept` | `Spec => AnswersAreIdempotent`, the refinement of `IdempotentOrders` |

The strengthening ties the three places that name an order to the table: the
`result` a handler holds, the cache, and the answers. `OneLiveClaim` needs that a
working handler whose claim has not lapsed still finds its marker in Redis, so a
second `SET NX` cannot succeed. `CreationOnce` needs the same of everybody who
has claimed, also of those who have answered 201 already (`VInv`): as long as the
key has not run out, it is there, and one caller at most has claimed it.
`RecoverySound` rests on rows that are only added: the row that refused an INSERT
is still there for the SELECT. `SameAnswerForAll` follows from the invariant of the
table and the answers and from what the header makes of the key. `AmountsSound`
needs for C# that nobody collides while a key lives: a row whose key has not run
out keeps a marker or a result in Redis, so no handler of that key reaches its
insert (`RInv`). The last assumption about `Numeric` (the column's
own rendering of an amount is stored unchanged) is used by `AmountsSound`: a
recovered amount has passed through the column already.

`WaitingRoomProofs`, from `WaitingRoomAssumption`:

| Theorem | States |
|---|---|
| `TypeCorrect` | `Spec => []TypeOK` |
| `Conservation` | `Spec => []TokensConserved` |
| `LossesSound` | `Spec => OnlyTheMovedAreLost` |
| `TtlSound` | `Spec => TtlBacked` |
| `GrantsSound` | `Spec => []GrantsLast` |
| `HoldersKnown` | `Spec => []EveryTokenHasAHolder` |
| `AdmitsSound` | `Spec => AdmitsTakeTheirFill` |
| `AdmitsMoveTheLine` | an `Admit` that finds somebody in line shortens it, whatever count it was called with |
| `PollsSound` | `Spec => PollsNeverGoBack` |
| `OvertakingSound` | `Spec => OvertakenOnlyOnTies` |
| `PositionsSound` | `Spec => PositionsOnlyImprove` |
| `LineFair` | `Spec => LineIsFair`, the refinement of `WaitingLine` |

`TokensConserved` alone is not inductive: a ZADD could bring back a token that has
left. `JoinedOnce` adds that a token whose ZADD is still to come has never joined,
unless that ZADD was sent before. For `GrantsSound`, every grant in its term
keeps the deadline at or past the end of the term, and the deadline is never in
the past. `LossesSound` goes through the faults: a ZPOPMIN takes what stands
before all that stays, and an admit that ends leaves what it held or has
admitted it. For `PollsSound`, a holder told "unknown" is not in line and can never
get there, and one told "admitted" is in line only if its ZADD was sent twice, and
is then found admitted until the grant expires. `OvertakingSound` needs that the
token of whoever was ahead has the smaller stamp, unless the clock was late for
the other. `FrontFirst` is the fact about ZPOPMIN that both
order theorems rest on: what is popped is before everything that stays, by
counting ranks in a finite line. `FrontSize` is its companion about the number:
the ranks of a line are pairwise different and below its length, so each rank
below the count belongs to exactly one token, and ZPOPMIN takes the lesser of its
count and the length (`AdmitsSound`). `PositionsSound` compares the tokens before
one of the line in two successive states: if there are more, one has joined
that was not there, and it has no later stamp. `AdmitsMoveTheLine` is the part of
`EveryTokenAdmitted` that needs no fairness: without newcomers a line of any
length is empty after as many admits as it has tokens.

Only model-checked: the liveness properties (`EveryRequestAnswered`,
`EveryCallerServed`, `EveryTokenAdmitted`, `EveryGrantEnds`), which are out of the
prover's reach: the theorems above prove the steps such a property is made of,
for every value of the constants, and TLC checks that fairness joins them. Every other property of a passing run is a theorem. The violation runs are counterexamples
and need no proof.

## 6. What is left out, and why

* Several processes of one service at once. The compose files start one; a
  second `Inventory` process booting would re-warm the counter under the
  first, which `RedisShortageIsReal` assumes away.
* 32- and 64-bit overflow of quantities: the `INT` column bounds the stock, and
  a decrement only lowers it.
* Widths of text columns, id generation, JSON shape, logging, health endpoints.
* The TypeScript admit with a count that is not a number: Redis refuses the
  command and nothing changes.

## 7. Plan

Done: the three services, their abstract specifications, safety and liveness
runs, findings, and the theorems above.

What remains:

1. `Inventory` with two processes of one service (a rolling restart): the warm-up
   of the second under the requests of the first. `ShortageReal` and
   `SnapshotsTrue` would then need conditions of their own.
2. Two waiting-room hosts whose clocks differ throughout, where `RequestBehind`
   has one late request.
