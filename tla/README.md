# Verification of the spot-relay arbitrage engine

TLA+ models, TLC runs and TLAPS proofs for `kimp_arb_cpp`: a trading bot that
holds spot on a Korean venue against a spot-margin short on a foreign one, and
must never leave one leg without the other.  Paths below are relative to
`src/kimp_arb_cpp/`.

Every definition is translated from the code; `PROJECT.json` maps each to its
lines, lists the runs, the mutants that show each property can fail, the
findings and the hazards.

## 1. Inventory

| Component | State | Operations | What is hard |
|---|---|---|---|
| Lifecycle functions, `execution/order_manager.cpp` | held amount, the two Orders of a split, latch | entry split, exit split, correction, rollback, sell retry, critical stop, shutdown; unwinding with re-entry | partial fills on two venues, one leg failing, fill reports late, missing or changing the order's status, rounding |
| Fill queries, adapters under `exchange/` | fill caches fed by private streams | wait for the cache, poll over REST | lost, partial and late events |
| Order transport: `bybit_trade_ws.cpp`, `okx_trade_ws.cpp`, `rest_client.cpp`, `connection_pool.hpp` | pending orders, promises, pooled connections | login, send, acknowledge, time out, erase, fall back, retry | duplicated and lost orders, shared connections, synchronous calls without a time limit |
| `network/websocket_client.*` | connection state, timer, write queue, writer's token | connect, read, write, reconnect | handlers on different executors, writes that outlive their stream |
| Market data, adapters under `exchange/` | order books, best prices, subscriptions, ticker cache | snapshot, delta, resync, subscribe, dispatch | three threads per book, truncated snapshots, sessions that come and go |
| Entry engine, `strategy/arbitrage_engine.*`, `entry_selection_bitmap.hpp`, `atomic_bitset.hpp` | per-symbol cache, two bitsets, suppression flag | ticker update, scan, select, emit | several IO threads over separate atomics |
| Slots, `main.cpp` | `g_active_loops`, suppression flag | claim, release, `LoopGuard` | counter and flag are two atomics |
| Executor, `lifecycle_executor.hpp` | queue, `running_`, `pending_`, workers | start, enqueue, worker loop, stop | missed notifications, stop against enqueue |
| Queues, `memory/ring_buffer.hpp` | cells with sequence numbers, two positions | try_push, try_pop, empty | lock-free hand-over of cells |
| Persistence and recovery, `main.cpp` | `active_position.json`, its `.tmp`, blacklist | save, delete, load, scan, prompt, resume | crash between order and save, file and venues that disagree |
| Tracker and price cache, `arbitrage_engine.hpp` | 16 tracker slots, sharded quotes | open, close, update, read | torn reads |
| Monitoring, configuration, scanner, dashboard | output only | - | not modelled |

**How they interact.**  WebSocket clients parse tickers on IO threads, the
adapters keep books and dispatch tickers to `ArbitrageEngine::on_ticker_update`.
It recomputes the symbol's entry state, scans for candidates and calls main's
entry callback, which claims a slot and enqueues a task.  A worker of the executor
runs `execute_spot_relay_entry` for that symbol until shutdown or a critical stop:
it opens and closes the position in splits, places the foreign orders over the
trade WebSocket with REST behind it and the Korean ones over REST, asks two fill
workers (a second executor) for the fills, writes the position to the tracker and
to `active_position.json`, and at the end its `LoopGuard` gives the slot back.  At
the next start main compares that file with the venues.

**What makes the components correct.**  Loop: the book is what the venues hold,
exposure is bounded and never silently left open, what is saved is what is held,
shutdown is obeyed.  Transport: an order is repeated only if it went unanswered,
and what is reported filled was executed; connections are not shared or leaked;
the client always finds its way back.  Market data: the engine's prices converge
to the venue's.  Slots: no more than `MAX_POSITIONS` loops, no slot leaked, entries
suppressed only while the slots are full.  Executor and queue: FIFO, nothing lost
or run twice, stop returns.  Recovery: a restarted loop knows what is open.

## 2. Modules

| Module | Models | Builds on |
|---|---|---|
| `RelayLifecycle` | the lifecycle loop, its fill workers and the venues | - |
| `RelayExit` | `execute_spot_relay_exit`, beside the loop | extends `RelayLifecycle` |
| `RelayLifecycle_proofs` | theorems about both lifecycle functions | `RelayExit` |
| `FillQueries` | fill caches, private sessions, REST polling of the four venues | - |
| `WebSocketClient` | connection, reconnection, write queue | - |
| `TradeWS` | Bybit's and OKX's trade WebSocket, REST fallback, the venue | extends `WebSocketClient` |
| `TradeWS_proofs` | theorems | `TradeWS` |
| `ConnectionPool` | borrowed keep-alive connections | - |
| `RestClient` | `do_request` and its retries | extends `ConnectionPool`, implements `RestPost` |
| `RestPost` | what a request promises | - |
| `RestClient_proofs` | theorems | `RestClient` |
| `BithumbBook`, `UpbitBook`, `ForeignTickers` | the adapters' market data | - |
| `MarketData` | the three, in one specification | extends and instantiates them |
| `VenueAdapters_proofs` | theorems | `FillQueries`, `MarketData` |
| `EntrySlots` | ticker update, scan, callback, slots, workers | - |
| `EntrySlots_proofs` | theorems | `EntrySlots` |
| `LifecycleExecutor` | the worker pool | - |
| `LifecycleExecutor_proofs` | theorems | `LifecycleExecutor` |
| `MPMCRingBuffer` | the lock-free queue | implements `BoundedFifo` |
| `BoundedFifo` | what the queue promises | - |
| `MPMCRingBuffer_proofs` | theorems | `MPMCRingBuffer` |
| `Recovery` | file, crash, restart, blacklist, prompt, resumed loop | - |
| `Recovery_proofs` | theorems | `Recovery` |
| `MCRelayVenues` | the loop on Bybit or on OKX, for TLC | extends and instantiates `RelayLifecycle` |
| `MCRestFills` | a request or fill queries, for TLC | `RestClient`, `FillQueries` |
| other `MC*` | constants, fault sets and symmetry for TLC | the module they name |

### RelayLifecycle
`pc` is the place in the loop body; the actions `EntryShort`, `KoreanBuy`,
`EntryLatch`, ... are the stretches of code between two calls that other threads
or the venues can interleave with.  `foreign_order` and `korean_order` are the
split's `Order` objects, with an extra field `done`: what the venue really
executed, which the code cannot see.  `krReal` and `frReal` sum it up.
`FillQuery` is a fill worker's task; `queries` is the latch.  `tracker` and
`file` are the two places a position is recorded in.

`KoreanExchange` and `ForeignExchange` choose one of the four pairs of venues that
`main.cpp` wires.  On Upbit `query_order_detail` replaces the whole `Order`
(`upbit.cpp:902`), so an order that was accepted as Filled can come back from the
latch as cancelled or waiting although it executed: fault *restated*.  The loop then
rolls back a buy that it made, or sells once more what it has sold.  A cover on Bybit
is rounded up to the lot; on OKX it is rounded down, refused when nothing is left of
it, and placed by quote value (`okx.cpp:592`), so that it executes up to `Slip` units
more or less than its quantity, lots or not.  OKX's fee in that value, and its raising
of a value to the minimum, are within `Slip`.

What the venues executed and what the loop was told are two things.  `krStray` and
`frStray` are history variables that add up the difference, at the step where it
arises: an order reported as failed that executes (*lost*, *restated*), and the part of
a rollback, of a retried sell or of a short below the Korean minimum, none of whose fills
is looked at, that filled otherwise.  `krTold` and `frTold` are the venues' holdings
without it.  A bounded check needs `MaxStray`; each stray execution is at most one order.

Quantities are natural numbers of the smallest Korean unit; the foreign venue
trades lots of `Step`.  Prices are constant (one dollar and `KoreanAsk` won per
unit) and P&L is left out, so "enter" and "exit" are free choices, limited by
position size, order size and minimum orders as in the code.  With prices
constant, `total_foreign_value` is `held_amount`, and is not a variable.

The venues are the environment.  `Faults` is a set of pairs (stage, fault):
*reject*, *uneven* (another quantity executed), *unknown* (fill query gives up),
*early* (fill query sees part of the fill), *lost* (executed, reported as
failed) and *restated*.  A run chooses which stages may show which fault.

### RelayExit
The function repeats most statements of the loop, so most of its actions are
those of `RelayLifecycle`; its covers and sells are stages of their own
(`unwind_cover`, `unwind_sell`), so that a run can give them other faults.  Its own are how it
begins, how it returns, how it sizes a re-entry and what it books.
`exiting` says which of the two functions a behaviour runs.  The module ends with the
hypotheses of the theorems about both (section 4).

### WebSocketClient, TradeWS
Handlers of the stream run on `strand_`; the timer and the resolver have executors
of their own, so `on_resolve` and `on_reconnect_timer` interleave with them.
`do_write` is one action per access to the queue and to `is_writing_`.  A write of
a stream that was replaced completes as aborted and its handler schedules a
reconnection: `inflight.doomed`.  In `TradeWS` a caller is a thread in `open_short`
or `close_short`; the venue executes or refuses what it receives in a logged-in
session, also after the connection is gone.  `executed` and `unanswered` are what
really happened.  Heartbeat pings are left out.

### ConnectionPool, RestClient, RestPost
`acquire()` holds `pool_mutex_` except while it opens a connection or waits;
`release()` notifies without it, so that the wake-up may be missed; `mark_failed()`
opens the replacement while it holds the mutex (places `"replacing"`).  Opening, write
and read are synchronous: `expires_after` (`rest_client.cpp:91`, `connection_pool.hpp:400`)
bounds asynchronous operations only, so a venue that stays silent keeps the thread, and
the model's fairness lets it.  A request that was written may be executed although its
connection breaks, and also later (`late`), after the error was returned.  `RestPost` is
what a caller relies on, `attempts` standing for the attempts without an answer.

### FillQueries
One venue per behaviour, chosen initially, since their code differs in which events
are cached and when a REST answer counts as final.  The venue fills in several
trades; a session that ends loses the events on their way.

### BithumbBook, UpbitBook, ForeignTickers, MarketData
Bithumb's levels are protected by a mutex, its best prices are two atomics, and
snapshots are older than the moment they are applied.  They hold the best levels only,
five or, in the resync loop, one (`ORDERBOOK_SNAPSHOT_DEPTH`, `ORDERBOOK_BBO_DEPTH`), and
replace the book: `Cut` is what the venue sends, and the history variable `reach` the
prices that the last snapshot could tell about.  `BithumbExact` says that the drained book
holds only levels of the venue, and all of them within `reach`.  Until the next
snapshot (every 500 ms) a side whose best level is taken may therefore be empty, or show a
worse price than the venue's.  Upbit's quotes are stored
without a lock, and its resync thread is joined when a session ends; Bybit and OKX
only subscribe, in batches.  A level is its price, a quote is a number whose two
halves can be torn apart.  The adapters share no state: `MarketData` lets a
behaviour follow one of them, so their states are added, not multiplied.

### EntrySlots
IO threads run `update_symbol_entry`, `fire_entry_from_cache` and the callback;
workers run a skeleton of the lifecycle loop that keeps only what the engine
sees: the tracked position (closed and re-opened by every `persist_snapshot`),
`running_` and the critical stop.  One action is one access to a shared atomic;
the exceptions are named in the module.  Which quotes qualify, edge order and
cooldowns are free choices.

### MPMCRingBuffer, BoundedFifo
One action is one atomic access or one access to a cell's payload.  Memory is
sequentially consistent in the model: the code's acquire/release pairs on
`sequence` are the only ordering the payload relies on.  The refinement mapping
puts the effect of a push and of a pop at the successful compare-and-swap.
`Capacity` must be at least 2: with one cell "published" and "free again" are the
same sequence number (the `static_assert` admits it, no instance uses it).

### LifecycleExecutor
The queue is a list of claimed places, each published or not, because
`try_pop` and `empty()` stop at an unpublished place.  Notifications are modelled
with the window in which they are missed.  With two workers `wake_mutex_` lets at
most one of them stand in that window, so a missed `notify_one` strands no task
even without the timeout; `stop()`, whose `notify_all` can be missed too, returns
only because the idle wait is bounded.  `pending_` is an unsigned counter
modulo `Wrap`.

### Recovery
The process may die between any two steps; what survives is `spot`, `short` and
`file`.  Loops are reduced to the order of their orders, bookings and saves.  A
save writes `.tmp` and renames it.  `apart` is a history variable: symbols whose
file says more than the venues hold, or that the user declined to resume; for
them the code promises nothing.  A recovered position whose launch comes after
another loop's critical stop starts no split: the loop looks at `running_` first
(`order_manager.cpp:500`).

## 3. Runs

| Run | Checks | Distinct states |
|---|---|---|
| `lifecycle` | `BookIsReal`, `StopSnapshotIsReal`, `NakedAtMostOneSplit`, `Accounting`, `ShutdownReturns`, `NakedLegResolved`; Upbit with Bybit or OKX | 587,651 |
| `lifecycle_persist` | `BoundedDrift`, `SavedBook`, `NeverBeyondOriginal`; both lifecycle functions, Upbit and Bybit, tolerance 1/3 | 1.2 million |
| `slots` | `SlotsOwned`, `SuppressedOnlyWhenFull`, `QueuedHasWorker` | 2.9 million |
| `ring` | `NoDataRace`, `ImplementsFifo` | 1.4 million |
| `executor` | `PendingBalance`, `QuietStopDrains`, `AcceptedIsHandled`, `StopReturns` | 344,467 |
| `trade_ws` | `OneWriter`, `QueueIsDrained`, `OneUnlessUnanswered`, `FilledIsExecuted` | 2.2 million |
| `trade_live` | `NeverStranded`, `PlacedReturns`, `EndsLoggedIn` | 225,000 |
| `rest_fills` | `Exclusive`, `NoneLeaked`, `PoolIsBounded`, `ImplementsPost`, `RequestReturns`; `ReportIsReal`, `ReportIsFinal`, `QueryReturns` | 458,227 |
| `book` | `BithumbExact`, `UpbitZeroed`, `ForeignSubscribed`, `TickerConverges` | 755,052 |
| `recovery` | `FileTracksVenues`, `BookIsCovered`, `NothingOverlooked` | 128,540 |
| `duplicate_loop` | `OneLoopPerSymbol`, two slots: violated | - |
| `upbit_buy` | `NoExposureLeft`: violated | - |

The last two are disagreements with what the repository says; all other runs find
their properties true.
- `duplicate_loop`: the callback rejects a second signal of a symbol by the tracked
  position, which exists only after the first booked split.
- `upbit_buy`: Upbit's query finds the executed buy cancelled, the loop takes it for
  a failed one, covers the short and goes on; the coins stay.  The README's table of
  failure modes says that no exposure is left when the cover succeeds.

**Bounds.** `lifecycle`: lots of 2 units, orders of 6, a position of 9 and exit-all below
7, so that a position takes two entry splits, of which the second, of 3 units and
lot-floored to 2, meets the minimum-order guard, and an exit may be a part of it.  Two
splits are an entry and an exit or two of one kind, with any order refused, filled
unevenly (the short too), executed unnoticed or restated, up to one whole order astray on
each venue (`MaxStray`), and two retries; what holds of longer sequences is proved
(section 4). A behaviour follows the loop on Bybit or on OKX.  The Korean venue is Upbit,
whose loop can do whatever Bithumb's can but for the quantity of a buy's `Order`, which is
looked at only when a fill stays unknown. Initial positions are none, a matched one and a
mismatched one, which the loop refuses.  `lifecycle_persist`: orders of 3 and a position
of 8 to unwind, in three splits, so that the unwinding function sells, re-enters with a
partial order and sells again; a re-entry of one unit is below the Korean minimum.
`slots`: two IO threads and two symbols race for one slot and with the worker that gives
it back.  `ring`: two cells and six pushes, three rounds of every cell.  `executor`: a
queue of two, three tasks, two producers and two workers, so that the queue is full, is
empty behind an unpublished place, and a worker sleeps while another works.  `trade_ws`:
two orders, one network failure and a queue that holds both and a login; `trade_live`: one
order and two failures, so that a reconnection fails too.  `rest_fills`, a request or fill
queries: two threads for a pool of one connection, and a third connection to replace a
broken one; two orders of two trades, one lost session, two REST attempts.  `book`: prices
1 to 3, snapshots of two levels and, in the resync loop, of one, two moves of the venue,
one ticker, and one lost session (two for the foreign venues, so that a resubscription is
interrupted).  `recovery`: one symbol of the bot, one that the user may also hold, four
splits of a full position and two stops: a position larger than the stops can explain, so
that a loop that knew nothing of it would show.

`CHECK_DEADLOCK FALSE` stands where a behaviour ends because its orders,
tasks, moves or stops are used up.

**Fairness.** Weak fairness of a thread's steps stands for the operating system scheduling
it.  `RelayLifecycle`: the loop and the fill workers run; that every order call and fill
query returns is assumed of the venues, since the synchronous REST requests behind them
have no time limit.  No fairness of `Shutdown`, nor of trading.  `LifecycleExecutor`:
threads inside `enqueue` or `worker_loop` go on (the bounded idle wait makes a sleeping
worker's step unconditional); a handler returns; `stop()` is never obliged to be called.
`TradeWS`: due handlers run, a started resolution, handshake or write ends, the venue
answers, a caller goes on or times out; its REST requests are assumed to return, as in
`FillQueries` and `MarketData`.  `RestClient`: a caller outside the network goes on and a
wait ends at its deadline; nothing is assumed of a caller inside an opening, a write or a
read (`OnNetwork`), and `RequestReturns` names the two ways in which that keeps a request:
its own call, or another caller's replacement under the mutex.  `FillQueries`: each query
goes on; the venue is not obliged to fill. `MarketData`: every thread runs on, the clients
reconnect; the network's faults are finite.

`EndsLoggedIn` has a premise, `Unhurried`: a reconnection does not for ever fall
exactly between a handshake and the end of the write of its login.  Without it
there is a livelock: the aborted login's `on_write` arms the timer, the next
connection is opened and torn down again in the same window.  The code does not
exclude it; a delay of a second or more between the two makes it improbable.

**What the properties do not say.** `OneUnlessUnanswered` leaves open that an order that
timed out at the client is executed twice, by WebSocket and by REST: the code has no
client order id that would prevent it.  `ReportIsFinal` speaks of the paths on which the
code waits for the end of an order; Bithumb caches a partial *trade* event as final, and
Bithumb, Bybit and OKX accept a partial quantity from REST. `PoolIsBounded` allows more
than `max_pool_size` connections when there are more threads than that.  `BookIsReal`,
`StopSnapshotIsReal` and `NakedAtMostOneSplit` are about what the loop was told: an
execution it was told had failed (every *lost* order, and on Upbit every *restated* one)
is a difference that nothing in the code finds again, and they add up; `upbit_buy` shows
one.  Where there is none `BookIsReal` is the equality of book and venues.  `SavedBook` is
the equality of file and book except after a retried sell, which is not saved (`unsaved`),
when the file may say more; it is about Bybit, since on OKX a cover that overshoots by its
slippage can leave an active position of size zero in the file.  `QueueIsDrained` is
checked with a queue that has room for the login (section 5, Transport).

## 4. Proofs

Every theorem holds for all values of the constants that satisfy the named
assumptions of the module: any number of threads, orders, symbols, connections,
trades, retries and failures, and any sizes.

| Theorem | States | Further assumes |
|---|---|---|
| `TypeCorrect` | `RelayLifecycle`'s `TypeOK`: the Korean balance never becomes negative, retries stay below `MaxRetry` | - |
| `AccountingHolds`, `BookReal`, `StopSnapshotReal` | `Accounting`, `BookIsReal`, `StopSnapshotIsReal` | `Benign` |
| `NakedBounded` | `NakedAtMostOneSplit` | `Benign`, `StartsWithin` |
| `DriftBounded` | `BoundedDrift`, of both functions, with any tolerance | `HonestVenues`, `ExactUnwind`, `StartsEven` |
| `UnwindNeverGrows` | `NeverBeyondOriginal` | `HonestVenues` |
| `CrashFindsBook` | `SavedBook`, of both functions | `HonestVenues`, `StartsEven`, `OrdersExceedLots` |
| `ConnectionsExclusive`, `ConnectionsKept`, `PoolStaysBounded` | `Exclusive`, `NoneLeaked`, `PoolIsBounded` | - |
| `RequestImplementsPost` | `ImplementsPost`, the refinement | - |
| `WriterUnique`, `AlwaysAWayBack` | `OneWriter`, `NeverStranded` | - |
| `AnsweredOrdersRunOnce`, `FilledOrdersRan` | `OneUnlessUnanswered`, `FilledIsExecuted` | - |
| `QueueWithRoomIsDrained` | `QueueIsDrained` whenever the queue has room | - |
| `ExecutionsAreBounded` | an order is executed at most `MaxRetries + 1` times | - |
| `ReportsAreReal`, `ReportsAreFinal` | `ReportIsReal`, `ReportIsFinal` | - |
| `EverySymbolStreams`, `PricesZeroedWhileDown`, `DrainedBookIsExact` | `ForeignSubscribed`, `UpbitZeroed`, `BithumbExact` | - |
| `SlotTypes`, `SlotsAreOwned`, `QueuedTasksHaveWorkers` | `TypeOK`, `SlotsOwned`, `QueuedHasWorker` | - |
| `SuppressionIsOwned` | suppressed entries have somebody who will lift the suppression | - |
| `SuppressedOnlyWhenSlotTaken` | `SuppressedOnlyWhenFull` | `MaxPositions = 1` |
| `RaceFree`, `RingImplementsFifo` | `NoDataRace`, `ImplementsFifo`, the refinement | - |
| `ExecutorTypes`, `PendingIsBalanced`, `QuietStopLosesNothing` | `TypeOK`, `PendingBalance`, `QuietStopDrains` | - |
| `BooksAreCovered`, `NothingIsOverlooked` | `BookIsCovered`, `NothingOverlooked` | - |
| `FileIsNear` | `FileTracksVenues` | `MaxPositions = 1` |

**Lifecycle loop.**  The theorems hold for each pair of venues.  `Benign`: matching is exact,
fill reports are final, and no retried sell is restated (section 5, Loop).
Refusals, uneven fills and unnoticed executions of every order, and restated buys and
sells, are all allowed.  `StartsWithin`: no position handed to the loop is further apart than
one split (the loop refuses such a position, and it stays as it is).  `MCRelayVenues` has
TLC evaluate both on its instance.

Every action is first reduced to its effect on what the loop was told (`Told`;
`ShortEffect`, `CoverEffect`, ..., each with a lemma `...HasEffect`), in which the
venues' rules and the history variables no longer occur.  `SplitStep` is the disjunction
of these effects; `NextCases` and `RelayCases` reduce a step of the loop, and of
either function, to it, a booking, a beginning or a step that changes nothing of this.
Types (`TypeCorrect`) and everything below are invariants of the effects, so that each
is proved once for both functions.

`BookIsReal` alone is not inductive: it says nothing inside a split.  `Legs` says what the
two Orders can be at each `pc`, and `InKr` and `InFr` what the split in flight has done on
each venue.  Then each step of a split leaves `krTold - InKr` and `frTold - InFr` alone, or
is a critical stop that writes down both, or books a retried sell (`Accounted`, with the
cases `Quiet`, `Stopped`, `RetryBooked`).  Under exact matching the two differences are the
book (`Booked`), and `Accounting` and its two corollaries read that off for every `pc`.
`NakedAtMostOneSplit` is the difference of `InKr` and `InFr`, which `Sizes` bounds: the
second leg is an order for the quantity of the first, one of the two may slip, and a
correction takes from the longer leg and can make the other one the longer by less than
the largest order (`CloseBound`).

**Both lifecycle functions, with a tolerance.**  With a tolerance a booked split may leave
the legs apart, so the two differences are no longer the book, but `Legs`, `Accounted` and
`Sizes` do not depend on that (`RelayBase`).  `Residue`, the difference between them,
changes only when a split is booked, by what matching lets pass: at most `DriftPerSplit`
(`MatchBound`), which is `Drift`; the unwinding function compares nothing and leaves no
residue as long as its orders fill (`UnwindEven`).  `NeverBeyondOriginal` adds
`ReentryFits` (a re-entry in flight is within what was sold) and `Within` (book and short
are within the original position and the residues).  `SavedBook` adds `Saved`: the
file covers the book (`FileCovers`), the tracker knows of it (`TrackerKnows`), and
the loop's orders in flight are whole lots that exceed the book by less than one
(`LoopLots`).

The hypotheses are in `RelayExit`, and `MCRelayExit` has TLC evaluate all four on the
instance of `lifecycle_persist`.  `HonestVenues`: fill reports are final; everything
else may go wrong, restated retries included.  `ExactUnwind`: covers and sells of the
unwinding function fill completely, since it does not compare them.  `StartsEven`: a
position that matches when a function is called has equal legs; otherwise its difference is
part of the drift from the start.  `OrdersExceedLots`: Bybit; and the tolerance is below
one and an order larger than two lots and the slippage, because an exit that is
rounded up may leave a book that is negative by part of a lot, which the next entry must
outweigh for the file to be right.

**REST.**  `Exclusive` speaks of borrowed connections only; its invariant `Ownership`
adds the connection that was opened outside the mutex and is not yet in the pool
(place `"append"`), that a caller has a connection exactly at the places of a borrower,
and that no two callers have the same.  For `PoolIsBounded`, `Room` counts the
connections and the callers that have seen room and not yet used it; `RoomForOneMore`:
when no connection is free each has a caller of its own, so one more opener does not
exceed the number of callers.  The refinement rests on `Attempts`: a request on the
wire belongs to a caller that is using a connection, a request under way has no
response and an attempt left, and executions, with the late ones still to come, are at most
one per attempt ended and one for the one on the wire or answered.

**Trade WebSocket.**  `OneWriter` counts holders of the writer's token; `Tokens` says the
same without arithmetic (`OneHolder`, one disjunct per holder) and adds that every
queued message is real, so that a write under way is told from none.
`QueueIsDrained` is inductive beside `Tokens` as long as it is asked of a queue with
room: the writer gives the token back with nothing queued or, after a failed write,
with the connection gone, and the login of the next one restarts it unless the queue is
full.  `NeverStranded` is inductive once `resolving` is known to be a natural number
(`Reachable`).  `OrderInv` follows an order's message: it exists at most once, in
`send()`, in `write_queue_`, in the write or at the venue (`OneCopy`); once answered it
is nowhere any more, so that it cannot be executed after the answer (`AnswerOf`,
`Outcome`); and executions are within `Budget`, one for the WebSocket and one per
REST attempt.

**Fill queries.**  `FillInv`: every event on its way and every cached fill is true of the
venue's order (`TrueEvent`), and a cached fill of Bybit or OKX is final, which stays so
because an order that has ended trades no more.

**Market data.**  Bybit and OKX (`ForeignInv`): while a session is up every batch is
streamed, or main or the strand has still to send it (`ForeignCovered`), which needs
that a thread that will read `fwant` later counts as one that sends everything.  Upbit
(`UpbitInv`): between the zeroing and the next session nobody stores a price
(`UpbitUntouched`), because the strand has joined the resync thread and reads no
message (`UpbitResync`, `UpbitStrand`).  Bithumb (`BithumbInv`): for each side and
price the last delta on the wire tells the venue's level (`LastIsTrue`), and where none
is on the wire, the snapshot or the book says nothing wrong and leaves out only what the
snapshot's depth cut off (`Right`; `SnapshotIsTrue`, `BookIsTrue`; `CutIsRight` for the
venue's answer);
applying a delta again that a snapshot contains is harmless because a later one about
the same level, if any, is still to be read (`InOrder`).

**Slots.**  `IInv` is `Balance` (the counter is the number of owners: threads between
claim and hand-over, queued tasks, busy workers) and `Shape` (what the copies of the
counter in the threads' locals can be).  As many workers as slots then leave an idle
one for every queued task.  `SuppressedOnlyWhenFull` is false with two slots, where a
late `set_entry_suppressed(true)` may come after a release; `SuppressionHasOwner`
says what remains true for every `MAX_POSITIONS`.

**Ring buffer.**  `Window`: every cell of the last `Capacity` positions carries one of two
sequence numbers, by whether its position is published; `Pushers` and `Poppers`:
what a thread read before its compare-and-swap still holds if that succeeds, and a
claimed cell keeps its number until its owner publishes or recycles it.  The
refinement's steps are the two compare-and-swaps; `ItemOf` follows an item from the
producer's hands into the cell, which changes the abstract queue not at all.

**Executor.**  `PoolInv`: a task that was pushed is queued, in a worker's hands, or
handled (`Kept`); an unpublished place has its producer (`Unpublished`); after a
quiet stop nobody pushes, and the first worker to leave left an empty queue
(`Drained`).  `PendingBalance` is inductive; its steps need that counting up and
down commutes with the wrap-around (`WrapUp`, `WrapDown`).

**Recovery.**  `RecInv` relates five things: a running loop's book is covered by the
venues and is nearly all they hold (`Knows`), the legs of a symbol without a loop
differ by what stops have cut off (`Level`), what is neither blacklisted nor tracked is
not held unless the file names it (`Unheld`), the file belongs to a tracked symbol or
a loop (`FileOwned`), and a position to be launched is still at the venues
(`Waiting`).  `FileNear` adds how far the file is behind; it assumes one loop, because
two overwrite each other's file.

**Only model-checked.**  Liveness (`ShutdownReturns`, `NakedLegResolved`,
`AcceptedIsHandled`, `StopReturns`, `PlacedReturns`, `EndsLoggedIn`, `RequestReturns`,
`QueryReturns`, `TickerConverges`), being out of the prover's reach.  `QueueIsDrained`
for a full queue is false, and that the queue of `trade_ws` never fills in this way is
model-checked only.  All other invariants of the runs are stated by a theorem.

## 5. Observations

Seen while modelling, and behaviours of the models unless a fault set excludes them.

*Loop.* The Korean buy is sized by the short order's quantity (`order_manager.cpp:631`),
not by its fill; the correction makes up for it.  When a buy's fill query gives up, its
cost in won is taken for coins: with the fault *unknown* `StopSnapshotIsReal` fails.  On
Upbit a buy's `Order` has no quantity, so it is then taken for none.  A retried sell is
booked as complete and not saved.  If Upbit's query overwrites its status the critical
stop that follows (`order_manager.cpp:1200`) deducts the covered quantity from the short
once more, and the preserved snapshot hides a short that is open: with the fault
*restated* of a retry `StopSnapshotIsReal` fails.  After a sell that Upbit restates the
loop sells the same quantity again, as far as the balance goes.  A short on OKX that is
smaller than its smallest order is refused at every exit, and the loop goes round for ever
with it.  A loop goes on after a full exit until shutdown.  `execute_spot_relay_exit` does
not compare the fills of an exit split, so an uneven sell leaves a residue, and leaves the
tracker open after a full exit; its covers and sells are exact in the run.

*Transport.*  REST calls do not end by themselves, so a silent venue can keep the loop, a
fill query and the shutdown that joins them.  A replacement is opened under `pool_mutex_`
(`connection_pool.hpp:425`), so that another thread's `acquire()` does not return within
its timeout either.  A full write queue drops the login and nothing sends it again; if it was
full when a write failed, it also stays full: no send finds room, so none starts the
writer, and the client is connected and mute (a queue of one shows it; `QueueIsDrained`
is checked with room for the login).
`disconnect()` during an attempt is not honoured.  Timer and resolver touch `ws_`
outside `strand_`.  Read errors other than a clean close do not call
`on_disconnect_`, so `connected_` and `authenticated_` stay true.  REST errors that
cannot succeed are retried too.  OKX's `close_short` does not use the trade
WebSocket.  Fill-cache entries that arrive after the REST fallback stay for ever.

*Market data.*  Bithumb's first snapshot comes before the entries it should seed
exist, so nothing is seeded until a delta or the resync.  A snapshot older than the
deltas already applied replaces them until the next resync.  Upbit subscribes
tickers again after a reconnection only if it has no order books.

*Slots.*  With two slots a claim's late store leaves entries suppressed with a
slot free.  `LoopGuard` lifts a critical stop's suppression.

*Recovery.*  The live scan uses Bithumb's balances only, the blacklist looks at both
Korean venues.  A declined recovery leaves the file's symbol un-blacklisted, and it
can be traded over.  A resumed candidate other than the file's symbol is
blacklisted, so its loop is refused while tracker and file hold it.  A crash between
the last sell and the deletion of the file resumes a position that is gone.  A
failed balance query at start counts as nothing held.  Two loops share one file and
one `.tmp`.

## 6. Not modelled, and the plan

1. `PositionTracker` slots (active before hash and position are written) and
   `PriceCache` reads; the SPSC ring buffer.
2. Two loops over one `active_position.json`, and main's transfer-route tables.
3. The manual-confirm mode of the entry callback; the adapters' preparation of
   leverage and borrowing; heartbeats of the WebSocket client.
4. Proofs: how many logins may be queued at once, from which `QueueIsDrained`
   would follow for a queue longer than that and the senders together.

Left out for good: floating-point premium and P&L formulas (only their gates are
choices here), parsing, signing and formatting of venue messages, configuration,
logging, the latency probe, broadcast and CSV output, the stand-alone scanner,
dashboard and scripts: they feed nothing back into the trading core.
`check_exit_conditions` of the engine sends signals that main installs no callback
for.
