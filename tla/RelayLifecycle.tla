--------------------------- MODULE RelayLifecycle ---------------------------
(***************************************************************************)
(* OrderManager::execute_spot_relay_entry: the lifecycle loop that opens,  *)
(* tops up and closes ONE hedged position - long spot on the Korean venue, *)
(* spot-margin short on the foreign venue.  Every split trades the foreign *)
(* leg first and the Korean leg second; two fill-query workers report what *)
(* was really executed and count down a latch; the loop repairs a mismatch *)
(* with one correcting order, or stops the bot and leaves a snapshot.      *)
(*                                                                         *)
(* Quantities are natural numbers of the Korean venue's smallest unit.     *)
(* Foreign orders are multiples of Step, at least MinQty.  A unit is worth *)
(* one dollar on the foreign venue and KoreanAsk won on the Korean one:    *)
(* prices, fees, premiums and P&L are abstracted, so the two market gates  *)
(* (enter, exit) are free choices of the environment.                      *)
(*                                                                         *)
(* What the venues really executed and what the loop was told of it are    *)
(* kept apart: krStray and frStray are the executions it was not told of   *)
(* or, on Upbit, was told had failed.                                      *)
(***************************************************************************)
EXTENDS Integers

CONSTANTS
  KoreanExchange,           \* "Bithumb" or "Upbit"
  ForeignExchange,          \* "Bybit" or "OKX"
  Step, MinQty,             \* lot_size_cache_ entry of the symbol, the
                            \* smallest quantity also covering min_notional
  OrderSize, PositionSize,  \* ORDER_SIZE_USD, position_size_usd
  ExitAll,                  \* below this value (50 USD) an exit takes all
  MinOrderKrw, KoreanAsk,   \* MIN_ORDER_KRW, won per unit
  Slip,                     \* a buy by cost may get this much more or less
  TolNum, TolDen,           \* HEDGE_QUANTITY_TOLERANCE_RATIO as a fraction
  MaxRetry,                 \* SELL retries after a COVER (5)
  MaxSplits,                \* bound of the model: splits per behaviour
  MaxStray,                 \* bound of the model: units astray on a venue
  InitPositions,            \* positions the loop may be started with
  Faults                    \* what the venues may do: <<stage, fault>> pairs

\* what an order is for; the unwinding function of RelayExit has its own two
Stage == {"short", "buy", "cover", "sell", "rollback", "retry",
          "flatten_fr", "flatten_kr", "unwind_cover", "unwind_sell"}

(***************************************************************************)
(* reject:  the order is refused and not executed                          *)
(* uneven:  it executes for another quantity than the requested one        *)
(* unknown: the fill query gives up, filled_quantity stays 0               *)
(* early:   the fill query reports a part of what will be executed         *)
(* lost:    it executes, but the caller is told that it failed             *)
(* restated: Upbit's fill query finds the order cancelled or still waiting *)
(*          and overwrites the status Filled it was given when placed      *)
(***************************************************************************)
Fault == {"reject", "uneven", "unknown", "early", "lost", "restated"}

ASSUME VenueAssumption ==
  KoreanExchange \in {"Bithumb", "Upbit"} /\ ForeignExchange \in {"Bybit", "OKX"}

ASSUME LotAssumption ==
  /\ Step \in Nat \ {0} /\ MinQty \in Nat \ {0}
  /\ TolNum \in Nat /\ TolDen \in Nat \ {0}
  /\ MaxRetry \in Nat \ {0} /\ MaxSplits \in Nat /\ MaxStray \in Nat
ASSUME SizeAssumption ==
  /\ OrderSize \in Nat \ {0} /\ PositionSize \in Nat /\ ExitAll \in Nat
  /\ MinOrderKrw \in Nat /\ KoreanAsk \in Nat \ {0} /\ Slip \in Nat
ASSUME FaultAssumption == Faults \subseteq Stage \X Fault
ASSUME InitAssumption == InitPositions \subseteq [kr : Nat, fr : Nat]

VARIABLES
  pc,               \* where the lifecycle thread is
  running_,         \* OrderManager::running_
  entry_suppressed, \* ArbitrageEngine::entry_suppressed_
  held_amount,      \* the loop's book: matched quantity on both legs
  foreign_order, korean_order,  \* the Orders of the split in flight
  qty,              \* foreign_/korean_ open or closed quantity of the split
  queries,          \* fill queries the latch still waits for
  tries,            \* SELL retries made
  splits,           \* splits booked
  tracker, file,    \* PositionTracker slot, active_position.json
  krReal, frReal,   \* the venues' truth: spot balance, net short
  krStray, frStray, \* history: the part of it the loop was not told of
  unsaved           \* history: a retried sell was booked after the last save

local == <<held_amount, foreign_order, korean_order, qty, tries, splits, unsaved>>
shared == <<running_, entry_suppressed, tracker, file>>
korean == <<krReal, krStray>>
foreign == <<frReal, frStray>>
venue == <<korean, foreign>>
vars == <<pc, queries, local, shared, venue>>

-----------------------------------------------------------------------------
Least(a, b) == IF a <= b THEN a ELSE b
Greatest(a, b) == IF a >= b THEN a ELSE b
Distance(a, b) == IF a >= b THEN a - b ELSE b - a

May(stage, fault) == <<stage, fault>> \in Faults

FloorLot(q) == Step * (q \div Step)
CeilLot(q) == Step * ((q + Step - 1) \div Step)

\* 0 stands for "no order is sent": below the venue's minimum
normalize_order_qty(q) == IF FloorLot(q) < MinQty THEN 0 ELSE FloorLot(q)
\* Bybit rounds a close up: at least what was borrowed must be bought back
normalize_close_qty(q) == Greatest(CeilLot(q), MinQty)
\* close_short's order; OKX rounds it down like an open and may refuse it
close_qty(q) ==
  IF ForeignExchange = "OKX" THEN normalize_order_qty(q) ELSE normalize_close_qty(q)

\* mutant: the difference is taken without its absolute value
quantities_match_signed(lhs, rhs) ==
  (lhs - rhs) * TolDen <= TolNum * Greatest(lhs, rhs)

\* relative tolerance of the larger of the two quantities
quantities_match(lhs, rhs) ==
  Distance(lhs, rhs) * TolDen <= TolNum * Greatest(lhs, rhs)

Order(stage, ok, quantity, done) ==
  [stage |-> stage, ok |-> ok, quantity |-> quantity, done |-> done,
   filled_quantity |-> 0]
NoOrder == Order("short", FALSE, 0, 0)
NoQty == [fr |-> 0, kr |-> 0]

\* mutant: the fill report is ignored
resolved_as_requested(o) == o.quantity

\* without a fill report the requested quantity is taken for the filled one
resolved_fill_quantity(o) ==
  IF o.filled_quantity > 0 THEN o.filled_quantity ELSE o.quantity

Flat == [active |-> FALSE, kr |-> 0, fr |-> 0]
Snapshot(kr, fr) ==
  IF kr > 0 \/ fr > 0 THEN [active |-> TRUE, kr |-> kr, fr |-> fr] ELSE Flat

-----------------------------------------------------------------------------
(* The venues.  An order for q ends with ok (status Filled) or not, and    *)
(* with done units really executed.                                        *)

Ends(stage, q, ok, done) ==
  \/ ok /\ done = q
  \/ ~ok /\ done = 0 /\ May(stage, "reject")
  \/ ~ok /\ done = q /\ May(stage, "lost")

\* an order by quantity: a short, or a cover on Bybit
ForeignEnds(stage, q, ok, done) ==
  \/ Ends(stage, q, ok, done)
  \/ ok /\ May(stage, "uneven") /\ done \in 1..q /\ CeilLot(done) = done

\* an order by cost fills more or less units as the price moves
CostEnds(stage, q, ok, done) ==
  \/ Ends(stage, q, ok, done)
  \/ ok /\ May(stage, "uneven") /\ done \in Greatest(1, q - Slip)..(q + Slip)

\* OKX's close_short buys for the quote value of its quantity
CoverEnds(stage, q, ok, done) ==
  \/ q = 0 /\ ~ok /\ done = 0
  \/ q > 0 /\ ForeignExchange = "Bybit" /\ ForeignEnds(stage, q, ok, done)
  \/ q > 0 /\ ForeignExchange = "OKX" /\ CostEnds(stage, q, ok, done)

\* no more than the balance can be sold
SellEnds(stage, q, ok, done) ==
  \/ q <= krReal /\ Ends(stage, q, ok, done)
  \/ q <= krReal /\ ok /\ May(stage, "uneven") /\ done \in 1..q
  \/ q > krReal /\ ~ok /\ done = 0

\* what the fill query of an order leaves in filled_quantity
Reports(o) ==
  IF ~o.ok THEN {0}
  ELSE {o.done}
       \cup {f \in {0} : May(o.stage, "unknown")}
       \cup {f \in 1..o.done : May(o.stage, "early")}

\* an order that was placed, executed, and is not Filled after its query
Restates(o) ==
  o.ok /\ KoreanExchange = "Upbit" /\ May(o.stage, "restated")

\* d units are executed (or not) beside what the loop is told
KoreanStray(d) ==
  /\ krStray' = krStray + d
  /\ d # 0 => krStray' \in (-MaxStray)..MaxStray
ForeignStray(d) ==
  /\ frStray' = frStray + d
  /\ d # 0 => frStray' \in (-MaxStray)..MaxStray

\* what the venues hold, as far as the loop was told of their executions
krTold == krReal - krStray
frTold == frReal - frStray

-----------------------------------------------------------------------------
Init ==
  /\ pc = "call"
  /\ running_ = TRUE
  /\ entry_suppressed = FALSE
  /\ \E p \in InitPositions :
       /\ krReal = p.kr /\ frReal = p.fr /\ held_amount = p.kr
       /\ tracker = Snapshot(p.kr, p.fr) /\ file = Snapshot(p.kr, p.fr)
  /\ foreign_order = NoOrder /\ korean_order = NoOrder
  /\ qty = NoQty
  /\ queries = {}
  /\ tries = 0
  /\ splits = 0
  /\ krStray = 0 /\ frStray = 0 /\ unsaved = FALSE

\* mutant: the position callback (save or delete) is not called
persist_tracker_only(p) == tracker' = p /\ UNCHANGED file

\* persist_snapshot: replace the tracker's position, then save or delete
persist_snapshot(p) == tracker' = p /\ file' = p

trigger_critical_stop(p) ==
  /\ pc' = "stopped"
  /\ running_' = FALSE
  /\ entry_suppressed' = TRUE
  /\ persist_snapshot(p)

\* the split's local Orders go out of scope at the end of the loop body
EndSplit ==
  /\ foreign_order' = NoOrder /\ korean_order' = NoOrder
  /\ qty' = NoQty
  /\ queries' = {}
  /\ tries' = 0

\* exchange missing, symbol blacklisted, route blocked, or the position
\* passed in is already mismatched
Refuse ==
  /\ pc = "call"
  /\ pc' = "refused"
  /\ UNCHANGED <<queries, local, shared, venue>>

Begin ==
  /\ pc = "call"
  /\ quantities_match(tracker.kr, tracker.fr)
  /\ pc' = "loop"
  /\ UNCHANGED <<queries, local, shared, venue>>

\* request_shutdown, from the main thread, at any time
Shutdown ==
  /\ running_
  /\ running_' = FALSE
  /\ UNCHANGED <<pc, queries, local, entry_suppressed, tracker, file, venue>>

\* mutant: a shutdown is obeyed only once everything is sold
LoopExit_when_flat ==
  /\ pc = "loop" /\ ~running_ /\ held_amount = 0
  /\ pc' = "done"
  /\ UNCHANGED <<queries, local, shared, venue>>

LoopExit ==
  /\ pc = "loop" /\ ~running_
  /\ pc' = "done"
  /\ UNCHANGED <<queries, local, shared, venue>>

\* handle_fill_query on a fill worker (or inline when the queue is full)
FillQuery(leg) ==
  /\ leg \in queries
  /\ queries' = queries \ {leg}
  /\ \/ /\ leg = "fr"
        /\ \E f \in Reports(foreign_order) :
             foreign_order' = [foreign_order EXCEPT !.filled_quantity = f]
        /\ UNCHANGED <<korean_order, krStray>>
     \/ /\ leg = "kr"
        /\ \E f \in Reports(korean_order) :
             korean_order' = [korean_order EXCEPT !.filled_quantity = f]
        /\ UNCHANGED <<foreign_order, krStray>>
     \/ /\ leg = "kr" /\ Restates(korean_order)
        /\ \E f \in 0..korean_order.done :
             korean_order' = [korean_order EXCEPT !.filled_quantity = f,
                                                  !.ok = FALSE]
        /\ KoreanStray(IF korean_order.stage = "buy" THEN korean_order.done
                                                    ELSE -korean_order.done)
        /\ UNCHANGED foreign_order
  /\ UNCHANGED <<pc, held_amount, qty, tries, splits, unsaved, shared,
                 krReal, foreign>>

-----------------------------------------------------------------------------
(* Entry split.                                                            *)

next_order_size == Least(OrderSize, Greatest(0, PositionSize - held_amount))

\* a short of the given size; a refused one is tried again at the next update,
\* and the fill of one below the Korean minimum is not queried
OpenShort(size) ==
  /\ LET q == normalize_order_qty(size) IN
     /\ q > 0
     /\ \E ok \in BOOLEAN, done \in 0..q :
          /\ ForeignEnds("short", q, ok, done)
          /\ frReal' = frReal + done
          /\ \/ /\ ~ok
                /\ ForeignStray(done)
                /\ UNCHANGED <<pc, queries, foreign_order>>
             \/ /\ ok /\ q * KoreanAsk < MinOrderKrw
                /\ pc' = "min_guard"
                /\ foreign_order' = Order("short", ok, q, done)
                /\ ForeignStray(done - q)
                /\ UNCHANGED queries
             \/ /\ ok /\ q * KoreanAsk >= MinOrderKrw
                /\ pc' = "kr_buy"
                /\ foreign_order' = Order("short", ok, q, done)
                /\ queries' = {"fr"}
                /\ UNCHANGED frStray
  /\ UNCHANGED <<held_amount, korean_order, qty, tries, splits, unsaved, shared,
                 korean>>

EntryShort ==
  /\ pc = "loop" /\ running_ /\ splits < MaxSplits
  /\ next_order_size > 0
  /\ next_order_size * KoreanAsk >= MinOrderKrw
  /\ OpenShort(next_order_size)

\* cover the short again; the cover's own fill is not queried
Rollback(q) ==
  LET c == close_qty(q) IN
  /\ \E ok \in BOOLEAN, done \in 0..(c + Slip) :
       /\ CoverEnds("rollback", c, ok, done)
       /\ frReal' = frReal - done
       /\ \/ ok /\ pc' = "loop" /\ ForeignStray(q - done) /\ UNCHANGED shared
          \/ /\ ~ok /\ ForeignStray(-done)
             /\ trigger_critical_stop(Snapshot(held_amount, held_amount + q))
  /\ EndSplit
  /\ UNCHANGED <<held_amount, splits, unsaved, korean>>

\* the lot-floored short is worth less than the Korean minimum order
MinOrderGuard == pc = "min_guard" /\ Rollback(foreign_order.quantity)

\* sized by the quantity of the short ORDER, its fill being queried meanwhile;
\* the Order's quantity is its cost in won, on Upbit it is not set
buy_order_quantity ==
  IF KoreanExchange = "Upbit" THEN 0 ELSE foreign_order.quantity * KoreanAsk

KoreanBuy ==
  /\ pc = "kr_buy"
  /\ \E ok \in BOOLEAN, done \in 0..(foreign_order.quantity + Slip) :
       /\ CostEnds("buy", foreign_order.quantity, ok, done)
       /\ krReal' = krReal + done
       /\ KoreanStray(IF ok THEN 0 ELSE done)
       /\ korean_order' = Order("buy", ok, buy_order_quantity, done)
  /\ queries' = queries \cup {"kr"}
  /\ pc' = "entry_latch"
  /\ UNCHANGED <<held_amount, foreign_order, qty, tries, splits, unsaved, shared,
                 foreign>>

\* mutant: the latch is not waited for
LatchSkipped == TRUE

\* the latch both fill queries count down
LatchOpen == queries = {}

EntryLatch ==
  /\ pc = "entry_latch" /\ LatchOpen
  /\ qty' = [fr |-> resolved_fill_quantity(foreign_order),
             kr |-> resolved_fill_quantity(korean_order)]
  /\ pc' = IF korean_order.ok THEN "entry_cmp" ELSE "entry_rollback"
  /\ UNCHANGED <<queries, held_amount, foreign_order, korean_order, tries,
                 splits, unsaved, shared, venue>>

\* mutants: a failed buy does not lead to a cover, but to the next split, or
\* to a return
EntryRollback_next ==
  /\ pc = "entry_rollback"
  /\ pc' = "loop"
  /\ EndSplit
  /\ UNCHANGED <<held_amount, splits, unsaved, shared, venue>>
EntryRollback_return ==
  /\ pc = "entry_rollback"
  /\ pc' = "done"
  /\ UNCHANGED <<queries, local, shared, venue>>

EntryRollback == pc = "entry_rollback" /\ Rollback(qty.fr)

\* mutant: the split that failed is left out of the snapshot
EntryStop_book_only ==
  trigger_critical_stop(Snapshot(held_amount, held_amount))

EntryStop ==
  trigger_critical_stop(Snapshot(held_amount + qty.kr, held_amount + qty.fr))

\* flatten_extra_foreign_short after a Korean underfill
EntryFlattenForeign ==
  /\ pc = "entry_cmp"
  /\ ~quantities_match(qty.fr, qty.kr) /\ qty.fr > qty.kr
  /\ LET c == close_qty(qty.fr - qty.kr) IN
     \E ok \in BOOLEAN, done \in 0..(c + Slip) :
       /\ CoverEnds("flatten_fr", c, ok, done)
       /\ frReal' = frReal - done
       /\ ForeignStray(IF ok THEN 0 ELSE -done)
       /\ \/ /\ ok
             /\ \E f \in Reports(Order("flatten_fr", ok, c, done)) :
                  qty' = [qty EXCEPT !.fr = @ - (IF f > 0 THEN f ELSE c)]
             /\ pc' = "entry_hedged"
             /\ UNCHANGED shared
          \/ ~ok /\ EntryStop /\ UNCHANGED qty
  /\ UNCHANGED <<queries, held_amount, foreign_order, korean_order, tries,
                 splits, unsaved, korean>>

\* flatten_extra_korean_long after a foreign underfill
EntryFlattenKorean ==
  /\ pc = "entry_cmp"
  /\ ~quantities_match(qty.fr, qty.kr) /\ qty.fr <= qty.kr
  /\ LET c == qty.kr - qty.fr IN
     \E ok \in BOOLEAN, done \in 0..c :
       /\ SellEnds("flatten_kr", c, ok, done)
       /\ krReal' = krReal - done
       /\ KoreanStray(IF ok THEN 0 ELSE -done)
       /\ \/ /\ ok
             /\ \E f \in Reports(Order("flatten_kr", ok, c, done)) :
                  qty' = [qty EXCEPT !.kr = @ - (IF f > 0 THEN f ELSE c)]
             /\ pc' = "entry_hedged"
             /\ UNCHANGED shared
          \/ ~ok /\ EntryStop /\ UNCHANGED qty
  /\ UNCHANGED <<queries, held_amount, foreign_order, korean_order, tries,
                 splits, unsaved, foreign>>

\* one correction was made and the legs still differ
EntryStillMismatched ==
  /\ pc = "entry_hedged"
  /\ ~quantities_match(qty.fr, qty.kr)
  /\ EntryStop
  /\ UNCHANGED <<queries, local, venue>>

EntryBook ==
  /\ pc \in {"entry_cmp", "entry_hedged"}
  /\ quantities_match(qty.fr, qty.kr)
  /\ held_amount' = held_amount + Least(qty.fr, qty.kr)
  /\ persist_snapshot([active |-> TRUE, kr |-> held_amount', fr |-> held_amount'])
  /\ splits' = splits + 1
  /\ unsaved' = FALSE
  /\ pc' = "loop"
  /\ EndSplit
  /\ UNCHANGED <<running_, entry_suppressed, venue>>

-----------------------------------------------------------------------------
(* Exit split.                                                             *)

exit_coin_amount ==
  IF held_amount < ExitAll THEN held_amount ELSE Least(OrderSize, held_amount)

CoverLeg(stage) ==
  /\ pc = "loop" /\ running_ /\ splits < MaxSplits
  /\ held_amount > 0
  /\ LET q == close_qty(exit_coin_amount) IN
     \E ok \in BOOLEAN, done \in 0..(q + Slip) :
       /\ CoverEnds(stage, q, ok, done)
       /\ frReal' = frReal - done
       /\ ForeignStray(IF ok THEN 0 ELSE -done)
       /\ \/ ~ok /\ UNCHANGED <<pc, queries, foreign_order>>
          \/ /\ ok
             /\ pc' = "kr_sell"
             /\ foreign_order' = Order(stage, ok, q, done)
             /\ queries' = {"fr"}
  /\ UNCHANGED <<held_amount, korean_order, qty, tries, splits, unsaved, shared,
                 korean>>

SellLeg(stage) ==
  /\ pc = "kr_sell"
  /\ LET q == foreign_order.quantity IN
     \E ok \in BOOLEAN, done \in 0..q :
       /\ SellEnds(stage, q, ok, done)
       /\ krReal' = krReal - done
       /\ KoreanStray(IF ok THEN 0 ELSE -done)
       /\ korean_order' = Order(stage, ok, q, done)
  /\ queries' = queries \cup {"kr"}
  /\ pc' = "exit_latch"
  /\ UNCHANGED <<held_amount, foreign_order, qty, tries, splits, unsaved, shared,
                 foreign>>

ExitCover == CoverLeg("cover")
KoreanSell == SellLeg("sell")

ExitLatch ==
  /\ pc = "exit_latch" /\ LatchOpen
  /\ qty' = [fr |-> resolved_fill_quantity(foreign_order),
             kr |-> resolved_fill_quantity(korean_order)]
  /\ pc' = IF korean_order.ok THEN "exit_cmp" ELSE "sell_retry"
  /\ UNCHANGED <<queries, held_amount, foreign_order, korean_order, tries,
                 splits, unsaved, shared, venue>>

ExitStop ==
  trigger_critical_stop(Snapshot(Greatest(0, held_amount - qty.kr),
                                 Greatest(0, held_amount - qty.fr)))

\* more was covered than sold: sell the difference
ExitFlattenKorean ==
  /\ pc = "exit_cmp"
  /\ ~quantities_match(qty.fr, qty.kr) /\ qty.fr > qty.kr
  /\ LET c == qty.fr - qty.kr IN
     \E ok \in BOOLEAN, done \in 0..c :
       /\ SellEnds("flatten_kr", c, ok, done)
       /\ krReal' = krReal - done
       /\ KoreanStray(IF ok THEN 0 ELSE -done)
       /\ \/ /\ ok
             /\ \E f \in Reports(Order("flatten_kr", ok, c, done)) :
                  qty' = [qty EXCEPT !.kr = @ + (IF f > 0 THEN f ELSE c)]
             /\ pc' = "exit_hedged"
             /\ UNCHANGED shared
          \/ ~ok /\ ExitStop /\ UNCHANGED qty
  /\ UNCHANGED <<queries, held_amount, foreign_order, korean_order, tries,
                 splits, unsaved, foreign>>

\* more was sold than covered: cover the difference
ExitFlattenForeign ==
  /\ pc = "exit_cmp"
  /\ ~quantities_match(qty.fr, qty.kr) /\ qty.fr <= qty.kr
  /\ LET c == close_qty(qty.kr - qty.fr) IN
     \E ok \in BOOLEAN, done \in 0..(c + Slip) :
       /\ CoverEnds("flatten_fr", c, ok, done)
       /\ frReal' = frReal - done
       /\ ForeignStray(IF ok THEN 0 ELSE -done)
       /\ \/ /\ ok
             /\ \E f \in Reports(Order("flatten_fr", ok, c, done)) :
                  qty' = [qty EXCEPT !.fr = @ + (IF f > 0 THEN f ELSE c)]
             /\ pc' = "exit_hedged"
             /\ UNCHANGED shared
          \/ ~ok /\ ExitStop /\ UNCHANGED qty
  /\ UNCHANGED <<queries, held_amount, foreign_order, korean_order, tries,
                 splits, unsaved, korean>>

ExitStillMismatched ==
  /\ pc = "exit_hedged"
  /\ ~quantities_match(qty.fr, qty.kr)
  /\ ExitStop
  /\ UNCHANGED <<queries, local, venue>>

\* the file follows every exit split, the tracker only the last one
ExitBook ==
  /\ pc \in {"exit_cmp", "exit_hedged"}
  /\ quantities_match(qty.fr, qty.kr)
  /\ held_amount' = held_amount - Least(qty.fr, qty.kr)
  /\ file' = Snapshot(held_amount', held_amount')
  /\ tracker' = IF held_amount' <= 0 THEN Flat ELSE tracker
  /\ splits' = splits + 1
  /\ unsaved' = FALSE
  /\ pc' = "loop"
  /\ EndSplit
  /\ UNCHANGED <<running_, entry_suppressed, venue>>

RetryLeft == tries + 1 < MaxRetry

\* after the last retry, or after one that the query restated
RetryStop(held) ==
  trigger_critical_stop(Snapshot(held, Greatest(0, held - qty.fr)))

\* SELL failed after COVER: try again, MaxRetry times, then stop.  A retry
\* that is placed is booked for the whole quantity, whatever it filled, and
\* not saved; the status its query leaves then decides between loop and stop.
SellRetry ==
  /\ pc = "sell_retry"
  /\ \E ok \in BOOLEAN, done \in 0..qty.fr :
       /\ SellEnds("retry", qty.fr, ok, done)
       /\ krReal' = krReal - done
       /\ \/ /\ ok
             /\ held_amount' = held_amount - qty.fr
             /\ splits' = splits + 1
             /\ unsaved' = TRUE
             /\ KoreanStray(qty.fr - done)
             /\ EndSplit
             /\ \/ pc' = "loop" /\ UNCHANGED shared
                \/ Restates(Order("retry", ok, qty.fr, done)) /\ RetryStop(held_amount')
          \/ /\ ~ok /\ RetryLeft
             /\ tries' = tries + 1
             /\ KoreanStray(-done)
             /\ UNCHANGED <<pc, queries, held_amount, foreign_order,
                            korean_order, qty, splits, unsaved, shared>>
          \/ /\ ~ok /\ ~RetryLeft
             /\ RetryStop(held_amount)
             /\ KoreanStray(-done)
             /\ EndSplit
             /\ UNCHANGED <<held_amount, splits, unsaved>>
  /\ UNCHANGED foreign

-----------------------------------------------------------------------------
Returned == pc \in {"refused", "done", "stopped"}

LifecycleStep ==
  \/ Refuse \/ Begin \/ LoopExit
  \/ EntryShort \/ MinOrderGuard \/ KoreanBuy \/ EntryLatch \/ EntryRollback
  \/ EntryFlattenForeign \/ EntryFlattenKorean \/ EntryStillMismatched
  \/ EntryBook
  \/ ExitCover \/ KoreanSell \/ ExitLatch
  \/ ExitFlattenKorean \/ ExitFlattenForeign \/ ExitStillMismatched
  \/ ExitBook \/ SellRetry

Finished == Returned /\ UNCHANGED vars

Next ==
  \/ LifecycleStep
  \/ \E leg \in {"fr", "kr"} : FillQuery(leg)
  \/ Shutdown
  \/ Finished

Spec == Init /\ [][Next]_vars

\* the lifecycle thread and the two fill workers are scheduled.  That every
\* order call and every fill query returns is ASSUMED of the venues: the REST
\* requests behind them are synchronous and have no time limit (RestClient)
FairSpec ==
  /\ Spec
  /\ WF_vars(LifecycleStep)
  /\ \A leg \in {"fr", "kr"} : WF_vars(FillQuery(leg))

-----------------------------------------------------------------------------
(* Properties.                                                             *)

AtRest == pc \in {"loop", "done"}

PositionType == [active : BOOLEAN, kr : Int, fr : Int]
OrderType ==
  [stage : Stage, ok : BOOLEAN, quantity : Nat, done : Nat,
   filled_quantity : Nat]

\* Types of the loop's locals, of the state shared with other threads and of
\* the venues' truth.  The venue sells no more spot than there is, but a
\* rounded-up cover may turn the short into a long: frReal may be negative.
TypeOK ==
  /\ pc \in {"call", "refused", "loop", "done", "stopped",
             "min_guard", "kr_buy", "entry_latch", "entry_rollback",
             "entry_cmp", "entry_hedged",
             "kr_sell", "exit_latch", "exit_cmp", "exit_hedged", "sell_retry"}
  /\ running_ \in BOOLEAN /\ entry_suppressed \in BOOLEAN
  /\ held_amount \in Int
  /\ foreign_order \in OrderType /\ korean_order \in OrderType
  /\ qty \in [fr : Int, kr : Int]
  /\ queries \in SUBSET {"fr", "kr"}
  /\ tries \in 0..(MaxRetry - 1) /\ splits \in Nat
  /\ tracker \in PositionType /\ file \in PositionType
  /\ krReal \in Nat /\ frReal \in Int
  /\ krStray \in Int /\ frStray \in Int /\ unsaved \in BOOLEAN

\* Whenever the loop is between two splits, or has left after a shutdown, its
\* held_amount is what both venues really hold, but for the executions it was
\* not told of: orders reported as failed, when placed or (Upbit) by their fill
\* query, and the part of a rollback or a retry that filled otherwise.
BookIsReal ==
  AtRest => /\ krReal = held_amount + krStray
            /\ frReal = held_amount + frStray

\* The snapshot a critical stop leaves in active_position.json for manual
\* recovery is the exposure open on the two venues, as far as the loop was
\* told of it; a leg that is closed, or closed too far, is recorded as none.
Recorded(kr, fr) ==
  /\ file.active = (kr > 0 \/ fr > 0)
  /\ Greatest(0, file.kr) = Greatest(0, kr)
  /\ Greatest(0, file.fr) = Greatest(0, fr)
StopSnapshotIsReal == pc = "stopped" => Recorded(krTold, frTold)

\* At no moment, a critical stop included, does the loop know of more than one
\* split that is unhedged.
LargestOrder == Greatest(CeilLot(Greatest(OrderSize, ExitAll)), MinQty)
MaxNaked == LargestOrder + Slip
NakedAtMostOneSplit == Distance(krTold, frTold) <= MaxNaked

\* With a non-zero matching tolerance every booked split may leave a residue
\* within the tolerance; residues add up, but to no more than that.
DriftPerSplit == (TolNum * (MaxNaked + Greatest(Step, MinQty))) \div TolDen
BoundedDrift == AtRest => Distance(krTold, frTold) <= splits * DriftPerSplit

\* After request_shutdown (or a critical stop) the loop returns: no order,
\* latch or retry keeps the thread that joins it waiting for ever.
ShutdownReturns == ~running_ ~> Returned

\* A naked leg the loop knows of does not stay: it is hedged again, or the bot
\* has stopped (or refused to start with it) and left it to manual recovery.
NakedLegResolved ==
  (krTold # frTold) ~> (krTold = frTold \/ pc \in {"stopped", "refused"})

\* What the README's table of failure modes says of a Korean buy that fails
\* and a cover that succeeds: no exposure is left between two splits.
NoExposureLeft == AtRest => krReal = frReal

-----------------------------------------------------------------------------
(* The accounting behind BookIsReal and StopSnapshotIsReal, and the venue  *)
(* behaviour under which it holds.                                         *)

\* Fill reports are final, no retried sell is restated (its stop would deduct
\* the covered quantity twice), and matching is exact.
Benign ==
  /\ TolNum = 0
  /\ \A st \in Stage, f \in {"unknown", "early"} : ~May(st, f)
  /\ KoreanExchange = "Upbit" => ~May("retry", "restated")

\* The loop is handed no position that is further apart than one split: the
\* one it refuses stays as it is.
StartsWithin == \A p \in InitPositions : Distance(p.kr, p.fr) <= MaxNaked

\* an order whose fill is known unless its query is still outstanding
Known(o, leg) ==
  o.ok => /\ o.done > 0
          /\ o.filled_quantity \in {0, o.done}
          /\ leg \notin queries => o.filled_quantity = o.done

\* what an Order stands for once its query is done
Counted(o) == IF o.ok THEN o.done ELSE 0

ForeignLeg == foreign_order.ok /\ Known(foreign_order, "fr")

OpenLegs(kr, fr) == krTold = held_amount + kr /\ frTold = held_amount + fr
ClosedLegs(kr, fr) == krTold = held_amount - kr /\ frTold = held_amount - fr

\* At every point of a split the venues hold exactly the book plus (entry) or
\* minus (exit) what the two Orders, or the corrected quantities, stand for,
\* but for what the loop was not told of; a critical stop has written down
\* what is open.
Accounting ==
  /\ pc = "call" =>
       krTold = held_amount /\ tracker.kr = krTold /\ tracker.fr = frTold
  /\ AtRest => OpenLegs(0, 0)
  /\ pc = "stopped" => Recorded(krTold, frTold)
  /\ pc = "min_guard" => OpenLegs(0, foreign_order.quantity)
  /\ pc = "kr_buy" =>
       ForeignLeg /\ OpenLegs(0, foreign_order.done) /\ queries \subseteq {"fr"}
  /\ pc = "entry_latch" =>
       /\ ForeignLeg /\ korean_order.stage = "buy" /\ Known(korean_order, "kr")
       /\ OpenLegs(Counted(korean_order), foreign_order.done)
  /\ pc = "entry_rollback" => OpenLegs(0, qty.fr)
  /\ pc \in {"entry_cmp", "entry_hedged"} => OpenLegs(qty.kr, qty.fr)
  /\ pc = "kr_sell" =>
       ForeignLeg /\ ClosedLegs(0, foreign_order.done) /\ queries \subseteq {"fr"}
  /\ pc = "exit_latch" =>
       /\ ForeignLeg /\ korean_order.stage # "buy" /\ Known(korean_order, "kr")
       /\ ClosedLegs(Counted(korean_order), foreign_order.done)
  /\ pc = "sell_retry" => ClosedLegs(0, qty.fr)
  /\ pc \in {"exit_cmp", "exit_hedged"} => ClosedLegs(qty.kr, qty.fr)

=============================================================================
