# Vibranium order book: TLA+ models, checks and proofs

This directory specifies the core of the exchange in TLA+: the matching engine
and its in-memory Book; the path of an order event from the API through the
transactional outbox and the Redis stream to the matcher; the exchange as a
whole, with wallets, reservations and settlement, shown to implement an
abstract custodian of the users' assets; and the paged trade history. TLC checks the
models on small instances (`tlc -config X.cfg M`), and TLAPS proves the main
safety properties for every value of the constants (`tlapm M.tla`).
`PROJECT.json` maps every definition to the source lines it models, and lists
runs, mutants, hazards, findings and theorems. Paths below are relative to
`src/`.

## The system

| Component | State | Operations | Hard parts |
|---|---|---|---|
| Order domain (`internal/domain/order`) | id, side, type, price, quantity, filled, status | `Fill`, `Cancel` | status and filled must agree |
| Book and `Match` (`internal/domain/matching`) | two heaps of price levels, a FIFO list per level, `locations` map | `Match`, `AddResting`, `removeFront`, `Cancel` | several structures that must agree; ignored errors of `Fill`; integer division of funds |
| Wallet (`internal/domain/wallet`) | balance and reserved, BRL and Vibranium | reserve, release, settle | conservation, reservations backing orders, negative available funds |
| Place / Cancel (`internal/application/orders`) | none of their own; one transaction over orders, wallets, outbox | `Place`, `Cancel` | two API replicas, commit order differs from id order |
| Outbox publisher (`internal/application/outboxapp`) | fetched batch | `PublishOnce`: fetch, lock, XADD, mark, commit | XADD is outside the transaction; replicas |
| Matcher (`internal/application/matcherapp`) | Book, `bookDirty`, position in its loop | `Run`, `ReclaimPending`, `ProcessOnce`, `applyBatch`, `resyncBook` | memory outside the transaction; redelivery; crash and restart |
| Postgres (`internal/infra/postgres`) | orders, wallets, trades, outbox_events, processed_stream_events | repositories | row locks, rollback |
| Redis (`internal/infra/redisstream`) | stream, group cursor, Pending Entries List | XADD, XREADGROUP, XACK | lost replies, group creation |
| Trade history (`postgres/trade_repo.go`, `httpapi/trade_handler.go`) | trades table | keyset pagination | inserts between two pages |
| HTTP API, users, platform, telemetry, migrations | – | decoding, reads, configuration | no protocol state |

The API commits an order row, a wallet reservation and an outbox row in one
transaction. The publisher copies unpublished rows to the stream in id order,
one transaction per row. The matcher, the only consumer of the group, reads
micro-batches, and applies each batch in one Postgres transaction: the
idempotency mark, the change to its in-memory Book, the rows, the wallets.
It ACKs after the commit. Any failure goes through `recoverAfterFailure`:
rebuild the Book if it is dirty, then reclaim the pending entries.

What makes each part correct:

- engine: price-time priority, an uncrossed book, lists and locations that
  agree, fills that add up to trades, funds that cover trades, termination;
- pipeline: no event lost, none applied twice, stream order, nothing published
  that was not committed, every event processed in the end, no batch on a Book
  that a failed batch has changed;
- wallets: conservation of both assets, a reservation behind every resting
  order, no negative balance;
- the exchange: rows, Book, wallets and events that stay in step through
  batches, rollbacks and restarts; settlements that never fail; cancellations
  that find their order;
- trade history: a page sequence without gaps or repetitions, that ends.

## Modules

| Module | Models |
|---|---|
| `OrderDomain` | `order.go` as operators on records. A MARKET order's nil price is `NoPrice`. |
| `MatchingEngine` | `book.go` and `engine.go`. |
| `MatchingEngineProofs` | what the engine's operators on Book and orders preserve, for the proofs of both its users. |
| `OrderMatching` | the engine under the calls of its single writer; the properties of the engine and its inductive invariant. |
| `OrderMatchingProofs` | theorems about `OrderMatching`. |
| `EventPipeline` | API transactions, outbox, publishers, stream, consumer group, the matcher's loop with its resync of a dirty Book, and the failures of each. |
| `EventPipelineProofs` | theorems about `EventPipeline`. |
| `Wallet` | `wallet.go` as operators on records: the errors of an operation are its `Can...` condition. |
| `Custody` | abstract: users' holdings change only by trades both sides can pay for, made durable or undone together. |
| `Exchange` | `MatchingEngine`, `Wallet`, the API's transactions and the matcher's batches, composed; implements `Custody`. |
| `ExchangeInvariants` | the inductive invariants of `Exchange`, in named parts: the money, the Book and the rows (`ExchangeInv`), and the cancellations (`CancelInv`). |
| `ExchangeProofs` | theorems about `Exchange` in every state: types, conservation, the refinement of `Custody`. |
| `ExchangeBookProofs`, `ExchangeSettlementProofs` | theorems about `Exchange` while its Book agrees with Postgres: first the actions up to the end of `Match`, then settlement, commit and recovery, what follows from the invariant, and cancellations. |
| `Totals`, `TotalsProofs` | sums over finite sets of amounts, and the facts about them that the library does not prove. |
| `TradeHistory` | `trade_repo.go` and `trade_handler.go` against the matcher's inserts. |
| `TradeHistoryProofs` | theorems about `TradeHistory`. |
| `MCOrderMatching`, `MCEventPipeline`, `MCExchange`, `MCTradeHistory` | symmetry sets and small values for TLC. |

`EventPipeline` and `Exchange` look at the same processes from two sides. The
first has every step of the messaging, and events that are opaque: it knows
which entries took effect and in which order, not what they did. The second
has the effects (orders, matching, the Book, rows, money), and messaging
reduced to what the first guarantees: a committed request is in the stream, a
batch is a prefix of what was never delivered or of what is pending. Its
faults (`apply`, `commit`, `crash`) keep every order in which requests,
batches and failures can meet. Whatever depends on what an event does is
stated of `Exchange`.

### MatchingEngine and OrderMatching

`obj` is the heap of `*order.Order`, and the lists and locations hold
references into it, as the program's pointers do. `book[side][price]` is the
FIFO list of a level; an empty list is a level that does not exist. The level
heaps only answer which level is best, so they appear as `IsBest`. One
iteration of `Match`'s loop that trades is `MatchOne`; leaving the loop, and
what follows it, is `EndMatch`. `RestedOnBook` is left out of the result: only
logs and traces read it. Trades refer to orders by reference and so carry both
owners.

`OrderMatching` adds the callers: `Submit` passes any order that
`validatePlaceOrderInput` accepts, and, for a BUY MARKET order, any funds from
`Funds`; `Cancel` is `applyCancel`'s use of the Book. `traded`, `arrival` and
`clock` are history variables. Orders of one owner may trade with each other,
as in the code, so one user is enough.

### EventPipeline

An outbox row is `open` until its request's transaction commits or aborts; it
takes its id at insert, so rows become visible in any order. A publisher is
split at its I/O: `PFetch`; `PAdd` (lock, check again, XADD); `PCommit` (mark,
commit); `PSkip`. `Locked` is the row lock that lives from `PAdd` to `PCommit`.

The matcher's `mpc` is its place in `Run`, and `origin` tells which call is
running: reclaiming at boot, the main loop, or reclaiming after a failure.
That decides what an error leads to (`AfterError`): the process exits and the
container restarts it, `recoverAfterFailure` runs, or the error is only
logged. `txLog` is what the open transaction has applied; `dbLog` is a history
of what has taken effect, in order. `bookDirty` is the flag of the code: set
when a batch fails, cleared by a resync.

Two things are wider than in the code. `Cancel` takes any order that was
placed, since whether it is terminal is not known here, and waits for no row
lock of the matcher. `PFetch` is one step, and the row locks its transaction
holds while it lasts are `Free`: as long as another replica is idle, any
unpublished rows may be skipped because its fetch has them locked.

Failures have kinds (`FaultKinds`), a run names the kinds it allows, and
`MaxFaults` bounds their number. A lost XADD reply is the kind `mark` (the
entry is there, the transaction is not), a lost commit reply is `commit`, a
lost XREADGROUP or XACK reply is a branch of `MReadFail` or `MAckFail`. A
publisher that dies leaves the state of `PFail`. A failed resync is retried
and changes nothing. A graceful shutdown is a crash between two steps.
`retry` is any failure while entries are reclaimed after an earlier failure,
kept apart because the code survives less then (findings 2 and 3);
`late_group` starts the system before the consumer group exists (finding 5).

### Wallet, Exchange and Custody

`wallets` and `rows` are the tables as committed. The matcher's open
transaction is `cache` (`walletCache`: the wallets it has locked with
`GetForUpdate`) and `txRows` (the order rows it has updated); `View(u)` is a
wallet as the transaction sees it, and `Flush` is the write of the cache and
the commit. `Place` waits while its wallet is locked and `Cancel` while its row
is; each is one step, since its transaction locks one row and waits for no
second one. A request that is rejected leaves everything as it was.

Applying a NEW_ORDER is the sequence of the code: `ApplyNew` (lock the wallet
of a BUY MARKET order, read what is available), `MatchStep` for each iteration
of `Match`, `MatchDone`, `SettleTrade` for each trade (buyer, price
improvement, seller; one wallet changed twice when a user trades with
himself), `FinishOrder` (makers' rows, the release of a SELL remainder, the
order's row). `SettleReject` is any error a wallet returns; it fails the batch,
and what `Match` did to the Book stays. `ApplyCancel` has its three outcomes.
An order has up to two objects, one built from its event and one that
`RecoverBook` read from its row; `RecoverBook` fills the queues in any order,
because `created_at` comes from the clocks of the API replicas. `MCommit` is
the commit and the XACK that follows; a failure between them leaves what the
fault `commit` leaves, a committed batch that is still pending, and
`EventPipeline` has the two as separate steps.

`diverged` is a history flag, set when a rebuilt Book rests an order whose
event is still to be applied (finding 1), or a batch starts on a dirty Book
(finding 2). An order that rests twice can trade more than its quantity, and
the element that `locations` does not know can trade after a cancellation and
overwrite a CANCELLED row (`consumer_loop.go:406-410`). What those do to
reservations and rows is known to be wrong, so the properties that relate the
Book, the rows, the reservations and the cancellations are claimed while the
flag is false. `TypeOK`, `MoneyConserved` and `ImplementsCustody` are
claimed always: even then no asset is created, lost or overdrawn.

The refinement maps a user's `position` to what the committed wallet holds,
reserved or not, and `pending` to what the transaction's view of it holds.
Reserving, releasing, matching and cancelling are stuttering steps, a
settlement is a `Trade`, a commit is `Commit` (also one whose reply is lost),
and an error, a rejection or a crash is `Rollback`.

### TradeHistory

The matcher inserts trades in a transaction that commits or rolls back, with
any `executed_at` (trades of a batch can share one, and a restarted matcher
may run on another clock) and any id. A client fixes a filter and follows
`next_cursor`, with any limit at each request. A limit that is not given or
above `MaxLimit` becomes `DefaultLimit`; one below 1 is rejected by the
handler. The cursor is the pair of the last row: RFC 3339 with nanoseconds
keeps all the digits of the column, so its encoding loses nothing.

## Runs

| Run | Instance | Shows |
|---|---|---|
| `matching_safety` | 4 orders, 2 prices, quantities 1–2, funds 1 or 4; symmetry on orders; 325 k states | all safety properties of the engine |
| `matching_liveness` | 3 orders, no symmetry; 97 k states | `Match` returns |
| `pipeline_safety` | 2 orders, 3 outbox rows, 1 publisher, 2 failures of any kind but `retry` and `late_group`; no symmetry; 229 k states | the deployed topology loses, repeats and reorders nothing, starts no batch on a dirty Book, and processes every committed request |
| `pipeline_replicas` | 2 publishers (symmetric), 3 rows, `retry` included, `mark` not; 470 k states | what still holds with a second publisher and nested failures |
| `exchange_safety` | 2 users (symmetric) with 3 BRL and 3 units each, 3 orders, 3 requests, 2 prices, quantities 1–2, batches of 2, 1 failure of any kind; 1.6 M states | while no diverged Book was used: reservations, rows, Book, settlement, cancellations; always: types, conservation, custody |
| `trade_listing` | 4 trades, 2 times, 1 filter key, limits 1, default 2, maximum 3; 79 k states | pages are complete, ordered and finite |
| `recovery_rests_twice` | the exchange, 2 orders, 1 `apply` failure | violation: see findings |
| `dirty_book` | the pipeline, `apply`, then `retry` | violation |
| `stuck_pending` | as `dirty_book`, 1 row, with fairness | violation |
| `duplicate_publish` | 1 `mark` failure | violation |
| `late_group` | group created by the first start | violation |
| `market_order_funds` | as `exchange_safety`, without failures | violation |

Bounds. Four orders are enough for a level with two makers and a third
contender, a level that empties and comes back, and a taker that crosses two
levels; two prices and funds 1 and 4 make the funds cap bind on the first and
on a later trade. In the pipeline three rows give two placements and a
cancellation, or a placement and two cancellations, in flight, batches of two
make a batch partly applied or partly pending, and two failures allow a failure during the recovery from one. In the
exchange three requests give a taker that sweeps two makers, a partial fill
followed by a cancellation, a cancellation that comes after the last fill, and
two cancellations of one order; a deposit of 3
lets a user hold two small orders or one that leaves his available balance
negative; one failure is enough to rebuild the Book in the middle of any
batch, and a rejected settlement gives further failures without limit. Four
trades make two page boundaries, and two times make ties across them.
`CHECK_DEADLOCK FALSE` is set because a quiet system is legitimate: all orders
of the instance have arrived and nothing is left to do.

Fairness. `Match` is a loop in one goroutine, so its steps are weakly fair. A
request in progress ends (`CommitRow`), the publisher polls on a ticker
(`PublisherStep`), and the matcher loops forever and is restarted
(`restart: unless-stopped` in `build/docker-compose.yml`, `MatcherStep`).
Nothing forces a client to place orders or a failure to happen; at most
`MaxFaults` of them do, so that liveness is about the time after the last.
`EveryEventProcessed` is checked without `retry`, as the code does not keep
its promise then: `stuck_pending` checks the promise of its comment with it,
under the same fairness, and finds it broken. A client that
has read the first page of trades goes on to the last (`NextPage`): that is an
assumption about clients, without which no listing has to end. Symmetry is
used in safety runs only.

Every property of a passing run has a mutant: a plausible bug in one mapped
definition under which TLC finds the property violated.

## Findings

1. `RecoverBook` rests every OPEN LIMIT row, also those whose NEW_ORDER is yet
   to be processed. After one failed batch, `resyncBook` rests the batch's own
   orders and `ReclaimPending` rests them again: the order offers its quantity
   twice, and a cancellation removes one element and leaves the other. A start
   with an order placed and not yet processed does the same.
2. `recoverAfterFailure` logs a failure of `ReclaimPending` and returns, with
   `bookDirty` set: the main loop goes on against a diverged Book and ahead of
   the pending entries, which the comment above it rules out.
3. For the same reason pending entries can stay pending: the main loop reads
   `>`, which never returns them, and only another failure or a restart
   reclaims them. The comment of `ReclaimPending` says a stuck entry is
   reprocessed "instead of sitting in the PEL forever".
4. A failure between XADD and commit publishes an event twice under two ids,
   which the idempotency table cannot recognise, though `outbox_repo.go` says a
   mid-batch failure never re-publishes an event that already succeeded.
5. The consumer group starts at `$`: events published before the matcher first
   starts are never delivered.
6. `ReserveBRL` lowers the balance and raises reserved, and what is available
   is balance minus reserved: a reservation counts twice (`GET /wallets` in the
   repository's README shows a balance that a reservation has not lowered).
   Available funds can be negative when a BUY MARKET order is matched, whether
   it was placed before the reservation or after it, and it is then matched for
   a negative quantity: `Match` emits the trade, `SettleBuyMarketFill` rejects
   it, and the batch fails at every retry and every start, although
   `wallet.go:103` relies on the engine to guarantee the funds. With at least
   one unit the guarantee holds (`SettlementSucceeds`).

Each has a run whose counterexample is the shortest such history. They are
also the premises of the theorems below: what remains true is proved without
them, and what does not is proved under the assumption that excludes them.

Two more disagreements are harmless and have no run. `order_repo.go:78-82`
says the row lock keeps two cancellations of one order from both enqueueing an
event; it does not, as nothing in the row changes until the matcher applies
the first, and `Exchange` has both events. `ReservationsBacked` shows that the
second is a no-op. The API documentation says `limit` is clamped between 1 and
200; above 200 it becomes 50, and below 1 it is an error.

## Proofs

`OrderMatchingProofs`, for any sets of orders, prices and funds. The
assumptions are one heap object per order id (the matcher between two
restarts), positive prices with extrema (a heap has finitely many levels),
and funds that are not negative. `IInv` is inductive: the properties alone are
not, since `Uncrossed` needs that the incoming order is in no list, priority
needs queues sorted by arrival, and the fill of the two sides of a trade needs
that an id names its object (`Auxiliary`). One lemma per action, and below it
per conjunct, shows that the step preserves `IInv`. From it follow
`BookConsistent`, `Uncrossed`, `FilledMatchesTrades`, `FundsCoverTrades`, and
the action properties `PriceTimePriority` and `RemainderMeansExhausted`;
`TradesWithinLimits` has an induction of its own that uses `IInv`.

`EventPipelineProofs`, for any number of orders, publishers and failures.
`PipelineInv` adds to the properties what a batch in progress holds (`TxInv`),
what a publisher between XADD and commit holds (`AddedInv`, `OnceInv`), how
far the cursor may be ahead of what is processed at each place in the loop
(`OrderInv`), and where the Book may be dirty (`CleanInv`). Exactly once
effects and the fidelity of the stream hold under every failure;
`NoEntryIsLost` when the group exists first (finding 5); `PublishedOnce`
without `mark` (finding 4); `NeverAppliesToDirtyBook` without `retry`
(finding 2); `AppliedInStreamOrder` without `retry` and `late_group`.

`CancelFollowsNew` is proved for one publisher, the deployed number; it does
not hold for two, since a replica can skip a placement that the other has
locked and publish the cancellation behind it. The invariant behind it
(`NewFirstInv`) says that a publisher with a cancellation in its fetched batch
has the order's placement there too, if that is not published yet. What the
cancellation then does is a theorem about `Exchange`, below.

`TotalsProofs`. `Total` is a fold of the community modules. The induction
theorems of the library take an operator as a parameter, which the installed
provers cannot instantiate, so a fact about all finite sets is proved by a
least counterexample: among the subsets for which it fails one has the fewest
elements, and removing an element from it gives a contradiction
(`SubsetInduction`). What is proved: the recursion has a solution, any element
can be taken out of a total, two functions that agree on the set have the same
total, what a change at one argument does to it, the total of a constant, and
that a total of naturals is one and bounds each summand.

`ExchangeProofs`, for any finite sets of users and order ids and any prices,
quantities, deposits, batch sizes and failures. The sets are finite because
amounts are added up over them (`FiniteAssumption`). `BaseInv` holds in every
state, also after the Book has diverged: what the matcher holds at each point
of its loop (`PhaseInv`), objects and transaction rows that are versions of
one row (`RowInv`), references that lead to objects and unsettled trades that
are the end of the list of trades (`HeapInv`). Type correctness is part of it,
and with it that no balance or reservation goes below zero. From `BaseInv` the
refinement goes action by action: `NextHoldings` shows that a step leaves the
mapped holdings alone, or is a `Trade`, a `Commit` or a `Rollback` of
`Custody`; the hard case is a user who trades with himself, whose one wallet is
changed by both sides. `MoneyConserved` follows from the same lemma: a trade
moves an amount between two summands, or within one.

`ExchangeBookProofs` and `ExchangeSettlementProofs` prove `ExchangeInv`:
`BaseInv`, and `Sound` while `diverged` is false. `ReservationsBacked` speaks
of committed rows and wallets, and is far from inductive. Its strengthening
follows an amount through a batch:

- `JournalInv`: a row is as it was placed until its event is processed, and
  the transaction's version of it is a later one;
- `ObjectInv` and `BookInv`: an order has one object, equal to its row but for
  the changes of the `Match` being applied, and the Book holds the live LIMIT
  objects, each once, where its location says;
- `MatchInv`: what an object has lost against its row is what the trades of
  the match need from its reservation, plus the SELL remainder given up;
- `ClaimInv`: the reservation in a wallet, as the transaction sees it, is the
  sum over its owner's orders of what the row ties up minus the trades already
  settled. It holds between any two settlements, when rows, objects and
  wallets all disagree with each other;
- `TradeInv`: the trades are between the order applied and makers on the other
  side, at the maker's price and within the taker's limit, and those of a BUY
  MARKET order add up to at most what its locked wallet has left.

At commit the rows catch up with the objects and `ClaimInv` becomes
`ReservationsBacked`; at a rollback the committed state was never touched. All
of `RowsOnlyAdvance`, `SettlementSucceeds` (which also needs `RemainderInv`,
that a cancelled remainder is not negative) and `BookMatchesRows` follow. TLC
checked `ExchangeInv` on the instance of `exchange_safety` before it was
proved; as it takes three minutes alone and its consequences are in the run, it
is in no configuration. The proof found two gaps that TLC could not: the
wallet of a BUY MARKET taker has to be known to be in `cache` (`TradeInv`), and
a located order to be a LIMIT order (`BookInv`).

`CancelIsHonoured` says that a cancellation, once processed, has found its
order or come too late: the order is terminal. It needs the whole of
`ExchangeInv`, because the matcher treats an order it cannot find as a no-op:
that the order is then terminal follows from `BookInv`, provided its placement
was applied before. `CancelInv` adds that: the placement of an order precedes
its cancellations in the stream (`EventInv`), entries are applied in stream
order without gaps (`OrderInv`), and each cancellation, like each placement of
a MARKET order, left a terminal row in the transaction that applied it and in
Postgres after the commit (`FinalInv`). It too was checked by TLC first, on the
same instance.

`TradeHistoryProofs`, for any trade ids, times, filters and limits, and so
any number of trades and pages. `ListingInv` says that while a client is paging, the cursor is the last
trade given and each trade that was visible at the first request was given or
is below the cursor. A page is upward closed among the rows below the cursor
(`FirstUpward`), and one row more than the limit tells whether it is the last:
`PageStep` derives from both that the invariant survives a request. That the
newest-first order of a finite set of distinct trades exists is a lemma
(`OrderedExists`).

Model-checked only: `MatchTerminates`, `EveryEventProcessed` and `ListingEnds`,
since liveness under fairness is beyond the prover. The runs that expect a
violation are about what does not hold.

## Not modelled, and the plan

1. Proofs: every invariant and every action property of the passing runs has a
   theorem. What is left is to shorten them: the lemmas of `ExchangeBookProofs`
   treat each action in full, and several share arguments about one list of
   the Book.
2. The array heap of price levels with its back-indices (`book.go:14-56`)
   appears only as the question it answers, `IsBest`. Its sift steps are
   `container/heap`, a library; the part that is the repository's own is the
   comparison, the swap of back-indices and `peek`.
3. Time priority across a restart: `RecoverBook` orders by `created_at`, the
   live Book by the stream. `Exchange` rebuilds the queues in any order and
   claims nothing about priority; the engine's `PriceTimePriority` is about
   the time between two restarts.
4. `Exchange` takes the stream as delivering each committed request once. A
   duplicate (finding 4) is in `EventPipeline` only, and so is an entry that is
   never delivered (finding 5).

Left out for good: HTTP decoding and error mapping, user reads, configuration,
connection pools, logging and tracing. They keep no state that the properties
depend on. Users and wallets are seeded by migrations and never created by the
program.
