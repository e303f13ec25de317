----------------------- MODULE RelayLifecycle_proofs -----------------------
(***************************************************************************)
(* Theorems about RelayLifecycle and RelayExit, for every value of their   *)
(* constants, for Bithumb and Upbit, Bybit and OKX.  After the arithmetic  *)
(* of lots, each action is reduced to its effect on what the loop was told *)
(* of the venues (krTold, frTold); types, the legs in flight and their     *)
(* sizes are then invariants of those effects, for both functions at once. *)
(* From them follow the accounting and the naked amount under exact        *)
(* matching, and under a tolerance the drift of the legs, the limit of the *)
(* re-entries and what a crash finds saved.                                *)
(***************************************************************************)
EXTENDS RelayExit, TLAPS

-----------------------------------------------------------------------------
(* Lots.                                                                   *)

Aligned(x) == CeilLot(x) = x

\* Integer division by the lot step.
LEMMA StepDivision ==
  ASSUME NEW a \in Int
  PROVE  /\ a \div Step \in Int
         /\ Step * (a \div Step) <= a
         /\ a < Step * (a \div Step) + Step
  BY LotAssumption, Z3

\* Multiples of the step are ordered like their factors.
LEMMA StepOrder ==
  ASSUME NEW m \in Int, NEW n \in Int, Step * m < Step * n + Step
  PROVE  m <= n
<1>1. SUFFICES ASSUME m >= n + 1 PROVE FALSE
  OBVIOUS
<1>2. Step * m >= Step * (n + 1)
  BY <1>1, LotAssumption, Z3
<1> QED
  BY <1>2, LotAssumption, Z3

\* Rounding up to a lot changes nothing on a multiple of the step.
LEMMA CeilExact ==
  ASSUME NEW n \in Int PROVE Aligned(Step * n)
<1> DEFINE d == (Step * n + Step - 1) \div Step
<1>1. /\ d \in Int
      /\ Step * d <= Step * n + Step - 1
      /\ Step * n + Step - 1 < Step * d + Step
  BY StepDivision, LotAssumption
<1> HIDE DEF d
<1>2. d <= n
  BY <1>1, StepOrder, LotAssumption
<1>3. n <= d
  <2>1. Step * n < Step * d + Step
    BY <1>1, LotAssumption
  <2> QED
    BY <2>1, <1>1, StepOrder
<1>4. d = n
  BY <1>1, <1>2, <1>3
<1> QED
  BY <1>4 DEF Aligned, CeilLot, d

\* An aligned quantity is a multiple of the step.
LEMMA AlignedFactor ==
  ASSUME NEW x \in Int, Aligned(x) PROVE \E n \in Int : x = Step * n
<1>1. (x + Step - 1) \div Step \in Int
  BY StepDivision, LotAssumption
<1>2. x = Step * ((x + Step - 1) \div Step)
  BY DEF Aligned, CeilLot
<1> QED
  BY <1>1, <1>2

\* Whole lots are closed under addition and subtraction.
LEMMA AlignedSum ==
  ASSUME NEW x \in Int, NEW y \in Int, Aligned(x), Aligned(y)
  PROVE  Aligned(x + y) /\ Aligned(x - y)
<1>1. PICK m \in Int : x = Step * m
  BY AlignedFactor
<1>2. PICK n \in Int : y = Step * n
  BY AlignedFactor
<1>3. x + y = Step * (m + n) /\ x - y = Step * (m - n)
  BY <1>1, <1>2, LotAssumption, Z3
<1>4. m + n \in Int /\ m - n \in Int
  OBVIOUS
<1> QED
  BY <1>3, <1>4, CeilExact

\* Nothing is a whole number of lots.
LEMMA AlignedZero == Aligned(0)
<1>1. Step * 0 = 0
  BY LotAssumption
<1> QED
  BY <1>1, CeilExact

\* Rounding up gives whole lots, at least the quantity.
LEMMA CeilUp ==
  ASSUME NEW q \in Int
  PROVE  CeilLot(q) \in Int /\ Aligned(CeilLot(q)) /\ CeilLot(q) >= q
<1> DEFINE d == (q + Step - 1) \div Step
<1>1. d \in Int /\ q + Step - 1 < Step * d + Step
  BY StepDivision, LotAssumption
<1> HIDE DEF d
<1>2. Step * d \in Int /\ Step * d >= q
  BY <1>1, LotAssumption
<1> QED
  BY <1>1, <1>2, CeilExact DEF CeilLot, d

\* Rounding up does not pass a whole number of lots.
LEMMA CeilBelow ==
  ASSUME NEW q \in Int, NEW y \in Int, Aligned(y), q <= y
  PROVE  CeilLot(q) <= y
<1> DEFINE d == (q + Step - 1) \div Step
<1>1. d \in Int /\ Step * d <= q + Step - 1
  BY StepDivision, LotAssumption
<1>2. PICK n \in Int : y = Step * n
  BY AlignedFactor
<1> HIDE DEF d
<1>3. Step * d < Step * n + Step
  BY <1>1, <1>2, LotAssumption
<1>4. d <= n
  BY <1>1, <1>3, StepOrder
<1>5. Step * d <= Step * n
  BY <1>1, <1>4, LotAssumption, Z3
<1> QED
  BY <1>2, <1>5 DEF CeilLot, d

\* Rounding down gives whole lots, no more than the quantity.
LEMMA FloorDown ==
  ASSUME NEW q \in Int
  PROVE  FloorLot(q) \in Int /\ Aligned(FloorLot(q)) /\ FloorLot(q) <= q
<1> DEFINE d == q \div Step
<1>1. d \in Int /\ Step * d <= q
  BY StepDivision
<1> HIDE DEF d
<1>2. Step * d \in Int
  BY <1>1, LotAssumption
<1>3. Aligned(Step * d)
  BY <1>1, CeilExact
<1> QED
  BY <1>1, <1>2, <1>3 DEF FloorLot, d

\* The quantity of a closing order is always an order.
LEMMA CloseQtyType ==
  ASSUME NEW q \in Int
  PROVE  normalize_close_qty(q) \in Nat /\ normalize_close_qty(q) > 0
  BY CeilUp, LotAssumption DEF normalize_close_qty, Greatest

\* With a minimum of at most one lot, closing only rounds up.
LEMMA CloseQty ==
  ASSUME NEW q \in Int, q > 0, MinQty <= Step
  PROVE  normalize_close_qty(q) = CeilLot(q)
<1>1. CeilLot(q) \in Int /\ CeilLot(q) >= q /\ Aligned(CeilLot(q))
  BY CeilUp
<1>2. PICK n \in Int : CeilLot(q) = Step * n
  BY <1>1, AlignedFactor
<1>3. n >= 1
  <2>1. SUFFICES ASSUME n <= 0 PROVE FALSE
    OBVIOUS
  <2>2. Step * n <= 0
    BY <2>1, LotAssumption, Z3
  <2> QED
    BY <2>2, <1>1, <1>2
<1>4. Step * n >= Step
  BY <1>3, LotAssumption, Z3
<1> QED
  BY <1>1, <1>2, <1>4, LotAssumption DEF normalize_close_qty, Greatest

\* A short is rounded down to whole lots, by less than one.
LEMMA OrderQtyNear ==
  ASSUME NEW q \in Int, normalize_order_qty(q) > 0
  PROVE  /\ normalize_order_qty(q) \in Nat /\ Aligned(normalize_order_qty(q))
         /\ normalize_order_qty(q) <= q /\ q < normalize_order_qty(q) + Step
<1>1. /\ FloorLot(q) \in Int /\ Aligned(FloorLot(q)) /\ FloorLot(q) <= q
      /\ q < FloorLot(q) + Step
  BY FloorDown, StepDivision DEF FloorLot
<1> HIDE DEF FloorLot
<1> QED
  BY <1>1 DEF normalize_order_qty

\* Rounding up adds less than a lot.
LEMMA CeilNear ==
  ASSUME NEW q \in Int PROVE CeilLot(q) < q + Step
<1> DEFINE d == (q + Step - 1) \div Step
<1>1. d \in Int /\ Step * d <= q + Step - 1
  BY StepDivision, LotAssumption
<1> HIDE DEF d
<1>2. Step * d \in Int
  BY <1>1, LotAssumption
<1>3. Step * d < q + Step
  BY <1>1, <1>2, LotAssumption
<1> QED
  BY <1>3 DEF CeilLot, d

\* A positive number of whole lots is at least one.
LEMMA AlignedStep ==
  ASSUME NEW x \in Int, x > 0, Aligned(x) PROVE x >= Step
<1>1. PICK n \in Int : x = Step * n
  BY AlignedFactor
<1>2. Step \in Int /\ Step > 0 /\ Step * 1 = Step /\ Step * n \in Int
  BY <1>1, LotAssumption
<1>3. 1 <= n
  BY <1>1, <1>2, StepOrder
<1> QED
  BY <1>1, <1>2, <1>3, Z3

\* An order to close is for a quantity, whatever it is asked to close.
LEMMA CloseType ==
  ASSUME NEW x \in Int PROVE close_qty(x) \in Nat
<1>1. normalize_order_qty(x) \in Nat
  BY FloorDown, LotAssumption DEF normalize_order_qty
<1>2. normalize_close_qty(x) \in Nat
  BY CloseQtyType
<1> QED
  BY <1>1, <1>2 DEF close_qty

\* The largest order bounds every split's order.
LEMMA LargestType ==
  /\ LargestOrder \in Nat /\ LargestOrder > 0
  /\ LargestOrder >= OrderSize /\ LargestOrder >= ExitAll
<1> DEFINE y == Greatest(OrderSize, ExitAll)
<1>1. y \in Int /\ y >= OrderSize /\ y >= ExitAll
  BY SizeAssumption DEF Greatest
<1>2. CeilLot(y) \in Int /\ CeilLot(y) >= y
  BY <1>1, CeilUp
<1>3. LargestOrder = Greatest(CeilLot(y), MinQty)
  BY DEF LargestOrder
<1> HIDE DEF y
<1> QED
  BY <1>1, <1>2, <1>3, LotAssumption, SizeAssumption DEF Greatest

\* An order to close is near what it closes, and no larger than the largest
\* order when what it closes is at most one split.
LEMMA CloseBound ==
  ASSUME NEW x \in Int, x > 0
  PROVE  /\ close_qty(x) \in Nat
         /\ close_qty(x) < x + Greatest(Step, MinQty)
         /\ ForeignExchange = "Bybit" /\ MinQty <= Step =>
              /\ close_qty(x) = CeilLot(x) /\ Aligned(close_qty(x))
              /\ close_qty(x) < x + Step
         /\ x <= Greatest(OrderSize, ExitAll) => close_qty(x) <= LargestOrder
<1> DEFINE y == Greatest(OrderSize, ExitAll)
<1>1. y \in Int
  BY SizeAssumption DEF Greatest
<1>2. /\ CeilLot(x) \in Int /\ CeilLot(x) >= x /\ CeilLot(x) < x + Step
      /\ Aligned(CeilLot(x))
  BY CeilUp, CeilNear
<1>3. CeilLot(y) \in Int /\ Aligned(CeilLot(y)) /\ CeilLot(y) >= y
  BY <1>1, CeilUp
<1>4. x <= y => CeilLot(x) <= CeilLot(y)
  BY <1>1, <1>3, CeilBelow
<1>5. LargestOrder = Greatest(CeilLot(y), MinQty)
  BY DEF LargestOrder
<1>6. close_qty(x) \in Nat
  BY CloseType
<1> HIDE DEF y, CeilLot, Aligned
<1>7. CASE ForeignExchange = "OKX"
  <2>1. close_qty(x) = normalize_order_qty(x) /\ ForeignExchange # "Bybit"
    BY <1>7 DEF close_qty
  <2>2. normalize_order_qty(x) > 0 => normalize_order_qty(x) <= x
    BY OrderQtyNear
  <2> QED
    BY <1>6, <2>1, <2>2, LargestType, LotAssumption, SizeAssumption DEF Greatest
<1>8. CASE ForeignExchange # "OKX"
  <2>1. close_qty(x) = Greatest(CeilLot(x), MinQty)
    BY <1>8 DEF close_qty, normalize_close_qty
  <2>2. MinQty <= Step => close_qty(x) = CeilLot(x)
    BY <1>8, CloseQty DEF close_qty
  <2>3. close_qty(x) < x + Greatest(Step, MinQty)
    BY <1>2, <2>1, LotAssumption DEF Greatest
  <2>4. x <= y => close_qty(x) <= LargestOrder
    BY <1>2, <1>3, <1>4, <1>5, <2>1, LotAssumption DEF Greatest
  <2> QED
    BY <1>2, <1>6, <2>2, <2>3, <2>4 DEF y
<1> QED
  BY <1>7, <1>8

-----------------------------------------------------------------------------
(* The venues.                                                             *)

VenueTypes ==
  krReal \in Nat /\ frReal \in Int /\ krStray \in Int /\ frStray \in Int

\* What the loop was told is an integer.
LEMMA ToldTypes ==
  ASSUME VenueTypes PROVE krTold \in Int /\ frTold \in Int
  BY DEF VenueTypes, krTold, frTold

\* the step tells the loop of kr and fr units more
Told(kr, fr) ==
  /\ krTold' = krTold + kr /\ frTold' = frTold + fr
  /\ VenueTypes'

\* what a cover of x units may execute
CoverFill(x, done) ==
  /\ 0 < done /\ done < x + Greatest(Step, MinQty) + Slip
  /\ ForeignExchange = "Bybit" =>
       done <= close_qty(x) /\ (done = close_qty(x) \/ Aligned(done))

\* A cover that is accepted executes something near its quantity.
LEMMA CoverDone ==
  ASSUME NEW st, NEW c \in Nat, NEW ok \in BOOLEAN, NEW done \in 0..(c + Slip),
         CoverEnds(st, c, ok, done), ok
  PROVE  /\ c > 0 /\ done > 0 /\ done <= c + Slip
         /\ ForeignExchange = "Bybit" => done <= c /\ (done = c \/ Aligned(done))
         /\ ~May(st, "uneven") => done = c
  BY SizeAssumption DEF CoverEnds, ForeignEnds, CostEnds, Ends, Greatest, Aligned

LEMMA CoverFillBound ==
  ASSUME NEW st, NEW x \in Int, x > 0, NEW ok \in BOOLEAN,
         NEW done \in 0..(close_qty(x) + Slip),
         CoverEnds(st, close_qty(x), ok, done), ok
  PROVE  CoverFill(x, done)
<1> DEFINE c == close_qty(x)
<1>1. c \in Nat /\ c < x + Greatest(Step, MinQty)
  BY CloseBound
<1> HIDE DEF c
<1>2. /\ c > 0 /\ done > 0 /\ done <= c + Slip
      /\ ForeignExchange = "Bybit" => done <= c /\ (done = c \/ Aligned(done))
  BY <1>1, CoverDone DEF c
<1>3. Greatest(Step, MinQty) \in Int /\ Slip \in Int /\ done \in Int
  BY <1>1, LotAssumption, SizeAssumption DEF Greatest, c
<1>4. done < x + Greatest(Step, MinQty) + Slip
  BY <1>1, <1>2, <1>3
<1> QED
  BY <1>2, <1>4 DEF CoverFill, c

\* A sale leaves no negative balance, and executes something if accepted.
LEMMA SellDone ==
  ASSUME VenueTypes, NEW st, NEW q \in Int, NEW ok \in BOOLEAN, NEW done \in 0..q,
         SellEnds(st, q, ok, done)
  PROVE  /\ krReal - done \in Nat
         /\ ok /\ q > 0 => done > 0
         /\ ok /\ ~May(st, "uneven") => done = q
  BY DEF SellEnds, Ends, VenueTypes

\* So does a buy, give or take the slippage.
LEMMA BuyDone ==
  ASSUME NEW st, NEW q \in Int, NEW ok \in BOOLEAN, NEW done \in 0..(q + Slip),
         CostEnds(st, q, ok, done), ok, q > 0
  PROVE  done > 0 /\ done >= q - Slip
  BY SizeAssumption DEF CostEnds, Ends, Greatest

\* The fill report of an accepted order is what was executed.
LEMMA ReportsDone ==
  ASSUME HonestVenues, NEW o \in OrderType, NEW f \in Reports(o), o.ok
  PROVE  f = o.done
<1>1. o.stage \in Stage
  BY DEF OrderType
<1> QED
  BY <1>1 DEF Reports, HonestVenues

\* Fill reports are quantities.
LEMMA ReportTypes == ASSUME NEW o \in OrderType PROVE Reports(o) \subseteq Nat
  BY DEF Reports, OrderType

\* An order is made of its parts.
LEMMA OrderTypes ==
  ASSUME NEW st \in Stage, NEW ok \in BOOLEAN, NEW q \in Nat, NEW d \in Nat
  PROVE  /\ Order(st, ok, q, d) \in OrderType
         /\ Order(st, ok, q, d).ok = ok /\ Order(st, ok, q, d).stage = st
         /\ Order(st, ok, q, d).quantity = q /\ Order(st, ok, q, d).done = d
         /\ Order(st, ok, q, d).filled_quantity = 0
  BY DEF Order, OrderType

\* The quantity a correction takes for filled: with final reports, what was.
LEMMA Corrected ==
  ASSUME NEW st \in Stage, NEW c \in Nat, NEW done \in Nat, done > 0,
         NEW ok \in BOOLEAN, ok, NEW f \in Reports(Order(st, ok, c, done))
  PROVE  /\ (IF f > 0 THEN f ELSE c) \in Nat
         /\ HonestVenues => (IF f > 0 THEN f ELSE c) = done
<1> DEFINE o == Order(st, ok, c, done)
<1>1. o \in OrderType
  BY OrderTypes
<1>2. o.ok = ok /\ o.done = done
  BY DEF Order
<1> HIDE DEF o
<1>3. f \in Nat
  BY <1>1, ReportTypes DEF o
<1>4. HonestVenues => f = done
  BY <1>1, <1>2, ReportsDone DEF o
<1> QED
  BY <1>3, <1>4

\* Only one side of the quantities is corrected.
LEMMA QtyParts ==
  ASSUME qty \in [fr : Int, kr : Int], NEW x
  PROVE  /\ [qty EXCEPT !.fr = x] = [fr |-> x, kr |-> qty.kr]
         /\ [qty EXCEPT !.kr = x] = [fr |-> qty.fr, kr |-> x]
  OBVIOUS

\* Every unit executed or gone astray is an integer.
LEMMA VenueChange ==
  ASSUME VenueTypes, NEW kr \in Int, NEW fr \in Int, NEW ks \in Int, NEW fs \in Int,
         krReal' = krReal + kr, krReal + kr \in Nat, krStray' = krStray + ks,
         frReal' = frReal + fr, frStray' = frStray + fs
  PROVE  Told(kr - ks, fr - fs)
  BY DEF Told, VenueTypes, krTold, frTold

LEMMA VenueSame ==
  ASSUME VenueTypes, UNCHANGED venue PROVE Told(0, 0)
  BY DEF Told, VenueTypes, krTold, frTold, venue, korean, foreign

-----------------------------------------------------------------------------
(* The effect of every action on the loop and on what it was told.         *)

ShortEffect(size) ==
  /\ pc = "loop"
  /\ UNCHANGED <<held_amount, korean_order, qty, tries, splits, unsaved, shared>>
  /\ \E q \in Nat, done \in Nat :
       /\ 0 < q /\ q <= size /\ size < q + Step /\ Aligned(q)
       /\ 0 < done /\ done <= q /\ Aligned(done)
       /\ \/ UNCHANGED <<pc, queries, foreign_order>> /\ Told(0, 0)
          \/ /\ pc' = "min_guard" /\ UNCHANGED queries
             /\ foreign_order' = Order("short", TRUE, q, done)
             /\ Told(0, q)
          \/ /\ pc' = "kr_buy" /\ queries' = {"fr"}
             /\ foreign_order' = Order("short", TRUE, q, done)
             /\ Told(0, done)

RollbackEffect(q) ==
  /\ EndSplit
  /\ UNCHANGED <<held_amount, splits, unsaved>>
  /\ \/ pc' = "loop" /\ UNCHANGED shared /\ Told(0, -q)
     \/ /\ trigger_critical_stop(Snapshot(held_amount, held_amount + q))
        /\ Told(0, 0)

BuyEffect ==
  /\ pc = "kr_buy" /\ pc' = "entry_latch" /\ queries' = queries \cup {"kr"}
  /\ UNCHANGED <<held_amount, foreign_order, qty, tries, splits, unsaved, shared>>
  /\ \E ok \in BOOLEAN, done \in Nat :
       /\ done <= foreign_order.quantity + Slip
       /\ ok /\ foreign_order.quantity > 0 =>
            done > 0 /\ done >= foreign_order.quantity - Slip
       /\ korean_order' = Order("buy", ok, buy_order_quantity, done)
       /\ Told(IF ok THEN done ELSE 0, 0)

CoverEffect(stage) ==
  /\ pc = "loop" /\ held_amount > 0
  /\ UNCHANGED <<held_amount, korean_order, qty, tries, splits, unsaved, shared>>
  /\ \/ UNCHANGED <<pc, queries, foreign_order>> /\ Told(0, 0)
     \/ \E q \in Nat, done \in Nat :
          /\ q = close_qty(exit_coin_amount) /\ 0 < q
          /\ CoverFill(exit_coin_amount, done) /\ done <= q + Slip
          /\ ~May(stage, "uneven") => done = q
          /\ pc' = "kr_sell" /\ queries' = {"fr"}
          /\ foreign_order' = Order(stage, TRUE, q, done)
          /\ Told(0, -done)

SellEffect(stage) ==
  /\ pc = "kr_sell" /\ pc' = "exit_latch" /\ queries' = queries \cup {"kr"}
  /\ UNCHANGED <<held_amount, foreign_order, qty, tries, splits, unsaved, shared>>
  /\ \E ok \in BOOLEAN, done \in Nat :
       /\ done <= foreign_order.quantity
       /\ ok /\ foreign_order.quantity > 0 => done > 0
       /\ ok /\ ~May(stage, "uneven") => done = foreign_order.quantity
       /\ korean_order' = Order(stage, ok, foreign_order.quantity, done)
       /\ Told(IF ok THEN -done ELSE 0, 0)

\* a correction of the foreign (Korean) leg by a cover (a sale) of x units
FixUnchanged ==
  UNCHANGED <<queries, held_amount, foreign_order, korean_order, tries, splits,
              unsaved>>

EntryFixForeign ==
  /\ pc = "entry_cmp" /\ qty.fr > qty.kr /\ FixUnchanged
  /\ \/ EntryStop /\ UNCHANGED qty /\ Told(0, 0)
     \/ \E done \in Nat, f \in Nat :
          /\ CoverFill(qty.fr - qty.kr, done) /\ (HonestVenues => f = done)
          /\ qty' = [fr |-> qty.fr - f, kr |-> qty.kr]
          /\ pc' = "entry_hedged" /\ UNCHANGED shared /\ Told(0, -done)

EntryFixKorean ==
  /\ pc = "entry_cmp" /\ qty.fr <= qty.kr /\ FixUnchanged
  /\ ~quantities_match(qty.fr, qty.kr)
  /\ \/ EntryStop /\ UNCHANGED qty /\ Told(0, 0)
     \/ \E done \in Nat, f \in Nat :
          /\ done <= qty.kr - qty.fr
          /\ HonestVenues => f = done /\ (qty.fr # qty.kr => 0 < done)
          /\ qty' = [fr |-> qty.fr, kr |-> qty.kr - f]
          /\ pc' = "entry_hedged" /\ UNCHANGED shared /\ Told(-done, 0)

ExitFixKorean ==
  /\ pc = "exit_cmp" /\ qty.fr > qty.kr /\ FixUnchanged
  /\ \/ ExitStop /\ UNCHANGED qty /\ Told(0, 0)
     \/ \E done \in Nat, f \in Nat :
          /\ done <= qty.fr - qty.kr
          /\ HonestVenues => f = done /\ 0 < done
          /\ qty' = [fr |-> qty.fr, kr |-> qty.kr + f]
          /\ pc' = "exit_hedged" /\ UNCHANGED shared /\ Told(-done, 0)

ExitFixForeign ==
  /\ pc = "exit_cmp" /\ qty.fr <= qty.kr /\ FixUnchanged
  /\ ~quantities_match(qty.fr, qty.kr)
  /\ \/ ExitStop /\ UNCHANGED qty /\ Told(0, 0)
     \/ \E done \in Nat, f \in Nat :
          /\ qty.fr # qty.kr => CoverFill(qty.kr - qty.fr, done)
          /\ HonestVenues => f = done
          /\ qty' = [fr |-> qty.fr + f, kr |-> qty.kr]
          /\ pc' = "exit_hedged" /\ UNCHANGED shared /\ Told(0, -done)

RetryEffect ==
  /\ pc = "sell_retry"
  /\ \/ /\ held_amount' = held_amount - qty.fr
        /\ splits' = splits + 1 /\ unsaved' = TRUE
        /\ EndSplit /\ Told(-qty.fr, 0)
        /\ \/ pc' = "loop" /\ UNCHANGED shared
           \/ /\ KoreanExchange = "Upbit" /\ May("retry", "restated")
              /\ RetryStop(held_amount')
     \/ /\ tries' = tries + 1 /\ RetryLeft /\ Told(0, 0)
        /\ UNCHANGED <<pc, queries, held_amount, foreign_order, korean_order,
                       qty, splits, unsaved, shared>>
     \/ /\ RetryStop(held_amount) /\ EndSplit /\ Told(0, 0)
        /\ UNCHANGED <<held_amount, splits, unsaved>>

QueryEffect(leg) ==
  /\ leg \in queries /\ queries' = queries \ {leg}
  /\ UNCHANGED <<pc, held_amount, qty, tries, splits, unsaved, shared>>
  /\ \E f \in Nat :
       \/ /\ leg = "fr" /\ Told(0, 0) /\ UNCHANGED korean_order
          /\ foreign_order' = [foreign_order EXCEPT !.filled_quantity = f]
          /\ HonestVenues /\ foreign_order.ok => f = foreign_order.done
       \/ /\ leg = "kr" /\ Told(0, 0) /\ UNCHANGED foreign_order
          /\ korean_order' = [korean_order EXCEPT !.filled_quantity = f]
          /\ HonestVenues /\ korean_order.ok => f = korean_order.done
       \/ /\ leg = "kr" /\ korean_order.ok /\ UNCHANGED foreign_order
          /\ korean_order' = [korean_order EXCEPT !.filled_quantity = f,
                                                  !.ok = FALSE]
          /\ Told(IF korean_order.stage = "buy" THEN -korean_order.done
                                                ELSE korean_order.done, 0)

\* The types hold of the venues.
LEMMA VenueTyped == ASSUME TypeOK PROVE VenueTypes
  BY DEF TypeOK, VenueTypes

\* A short, EntryShort's or ReentryShort's.
LEMMA ShortHasEffect ==
  ASSUME TypeOK, pc = "loop", NEW size \in Int, OpenShort(size)
  PROVE  ShortEffect(size)
<1> DEFINE q == normalize_order_qty(size)
<1>1. PICK ok \in BOOLEAN, done \in 0..q :
        /\ q > 0
        /\ ForeignEnds("short", q, ok, done)
        /\ frReal' = frReal + done
        /\ \/ ~ok /\ ForeignStray(done) /\ UNCHANGED <<pc, queries, foreign_order>>
           \/ /\ ok /\ pc' = "min_guard"
              /\ foreign_order' = Order("short", ok, q, done)
              /\ ForeignStray(done - q) /\ UNCHANGED queries
           \/ /\ ok /\ pc' = "kr_buy"
              /\ foreign_order' = Order("short", ok, q, done)
              /\ queries' = {"fr"} /\ UNCHANGED frStray
  BY DEF OpenShort
<1>2. q \in Nat /\ Aligned(q) /\ q <= size /\ size < q + Step
  BY <1>1, OrderQtyNear
<1>3. UNCHANGED <<held_amount, korean_order, qty, tries, splits, unsaved, shared, korean>>
  BY DEF OpenShort
<1> HIDE DEF q
<1>4. VenueTypes
  BY VenueTyped
<1>5. krReal' = krReal + 0 /\ krReal + 0 \in Nat /\ krStray' = krStray + 0
  BY <1>3, <1>4 DEF VenueTypes, korean
<1>6. done \in Nat /\ done \in Int /\ done - q \in Int /\ 0 \in Int
  BY <1>2
<1>7. ok => done > 0 /\ done <= q /\ Aligned(done)
  BY <1>1, <1>2 DEF ForeignEnds, Ends, Aligned
<1>8. CASE ~ok /\ ForeignStray(done) /\ UNCHANGED <<pc, queries, foreign_order>>
  <2>1. Told(0 - 0, done - done)
    BY <1>1, <1>4, <1>5, <1>6, <1>8, VenueChange DEF ForeignStray
  <2>2. 0 - 0 = 0 /\ done - done = 0
    BY <1>6
  <2>3. Told(0, 0)
    BY <2>1, <2>2
  <2> QED
    BY <1>1, <1>2, <1>3, <1>8, <2>3 DEF ShortEffect
<1>9. CASE /\ ok /\ pc' = "min_guard"
           /\ foreign_order' = Order("short", ok, q, done)
           /\ ForeignStray(done - q) /\ UNCHANGED queries
  <2>1. Told(0 - 0, done - (done - q))
    BY <1>1, <1>4, <1>5, <1>6, <1>9, VenueChange DEF ForeignStray
  <2>2. 0 - 0 = 0 /\ done - (done - q) = q
    BY <1>2, <1>6
  <2>3. Told(0, q)
    BY <2>1, <2>2
  <2>4. ok = TRUE
    BY <1>9
  <2> QED
    BY <1>1, <1>2, <1>3, <1>6, <1>7, <1>9, <2>3, <2>4 DEF ShortEffect
<1>10. CASE /\ ok /\ pc' = "kr_buy"
            /\ foreign_order' = Order("short", ok, q, done)
            /\ queries' = {"fr"} /\ UNCHANGED frStray
  <2>1. frStray' = frStray + 0
    BY <1>4, <1>10 DEF VenueTypes
  <2>2. Told(0 - 0, done - 0)
    BY <1>1, <1>4, <1>5, <1>6, <2>1, VenueChange
  <2>3. 0 - 0 = 0 /\ done - 0 = done
    BY <1>6
  <2>4. Told(0, done)
    BY <2>2, <2>3
  <2>5. ok = TRUE
    BY <1>10
  <2> QED
    BY <1>1, <1>2, <1>3, <1>6, <1>7, <1>10, <2>4, <2>5 DEF ShortEffect
<1> QED
  BY <1>1, <1>8, <1>9, <1>10

\* Covering a short again.
LEMMA RollbackHasEffect ==
  ASSUME TypeOK, NEW q \in Int, Rollback(q) PROVE RollbackEffect(q)
<1> DEFINE c == close_qty(q)
<1>1. PICK ok \in BOOLEAN, done \in 0..(c + Slip) :
        /\ frReal' = frReal - done
        /\ \/ ok /\ pc' = "loop" /\ ForeignStray(q - done) /\ UNCHANGED shared
           \/ /\ ~ok /\ ForeignStray(-done)
              /\ trigger_critical_stop(Snapshot(held_amount, held_amount + q))
  BY DEF Rollback
<1>2. EndSplit /\ UNCHANGED <<held_amount, splits, unsaved, korean>>
  BY DEF Rollback
<1>3. c \in Nat
  BY CloseType
<1> HIDE DEF c
<1>4. VenueTypes
  BY VenueTyped
<1>5. krReal' = krReal + 0 /\ krReal + 0 \in Nat /\ krStray' = krStray + 0
  BY <1>2, <1>4 DEF VenueTypes, korean
<1>6. done \in Int /\ -done \in Int /\ q - done \in Int /\ 0 \in Int
  BY <1>3, SizeAssumption
<1>7. frReal' = frReal + (-done)
  BY <1>1, <1>4, <1>6 DEF VenueTypes
<1>8. CASE ok /\ pc' = "loop" /\ ForeignStray(q - done) /\ UNCHANGED shared
  <2>1. Told(0 - 0, -done - (q - done))
    BY <1>4, <1>5, <1>6, <1>7, <1>8, VenueChange DEF ForeignStray
  <2>2. 0 - 0 = 0 /\ -done - (q - done) = -q
    BY <1>6
  <2>3. Told(0, -q)
    BY <2>1, <2>2
  <2> QED
    BY <1>2, <1>8, <2>3 DEF RollbackEffect
<1>9. CASE /\ ~ok /\ ForeignStray(-done)
           /\ trigger_critical_stop(Snapshot(held_amount, held_amount + q))
  <2>1. Told(0 - 0, -done - (-done))
    BY <1>4, <1>5, <1>6, <1>7, <1>9, VenueChange DEF ForeignStray
  <2>2. 0 - 0 = 0 /\ -done - (-done) = 0
    BY <1>6
  <2>3. Told(0, 0)
    BY <2>1, <2>2
  <2> QED
    BY <1>2, <1>9, <2>3 DEF RollbackEffect
<1> QED
  BY <1>1, <1>8, <1>9

\* The Korean buy.
LEMMA BuyHasEffect == ASSUME TypeOK, KoreanBuy PROVE BuyEffect
<1> DEFINE q == foreign_order.quantity
<1>1. PICK ok \in BOOLEAN, done \in 0..(q + Slip) :
        /\ CostEnds("buy", q, ok, done)
        /\ krReal' = krReal + done
        /\ KoreanStray(IF ok THEN 0 ELSE done)
        /\ korean_order' = Order("buy", ok, buy_order_quantity, done)
  BY DEF KoreanBuy
<1>2. /\ pc = "kr_buy" /\ pc' = "entry_latch" /\ queries' = queries \cup {"kr"}
      /\ UNCHANGED <<held_amount, foreign_order, qty, tries, splits, unsaved,
                     shared, foreign>>
  BY DEF KoreanBuy
<1>3. q \in Nat /\ q \in Int
  BY DEF TypeOK, OrderType
<1> HIDE DEF q
<1>4. VenueTypes
  BY VenueTyped
<1>5. /\ done \in Nat /\ done \in Int /\ done <= q + Slip /\ 0 \in Int
      /\ (IF ok THEN 0 ELSE done) \in Int
  BY <1>3, SizeAssumption
<1>6. ok /\ q > 0 => done > 0 /\ done >= q - Slip
  BY <1>1, <1>3, BuyDone
<1>7. /\ krReal + done \in Nat /\ krStray' = krStray + (IF ok THEN 0 ELSE done)
      /\ frReal' = frReal + 0 /\ frStray' = frStray + 0
  BY <1>1, <1>2, <1>4, <1>5 DEF VenueTypes, KoreanStray, foreign
<1>8. Told(done - (IF ok THEN 0 ELSE done), 0 - 0)
  BY <1>1, <1>4, <1>5, <1>7, VenueChange
<1>9. done - (IF ok THEN 0 ELSE done) = (IF ok THEN done ELSE 0) /\ 0 - 0 = 0
  BY <1>5
<1>10. Told(IF ok THEN done ELSE 0, 0)
  BY <1>8, <1>9
<1> QED
  BY <1>1, <1>2, <1>5, <1>6, <1>10 DEF BuyEffect, q

\* The cover of an exit split.
LEMMA CoverHasEffect ==
  ASSUME TypeOK, NEW stage \in Stage, CoverLeg(stage) PROVE CoverEffect(stage)
<1> DEFINE q == close_qty(exit_coin_amount)
<1>1. PICK ok \in BOOLEAN, done \in 0..(q + Slip) :
        /\ CoverEnds(stage, q, ok, done)
        /\ frReal' = frReal - done
        /\ ForeignStray(IF ok THEN 0 ELSE -done)
        /\ \/ ~ok /\ UNCHANGED <<pc, queries, foreign_order>>
           \/ /\ ok /\ pc' = "kr_sell"
              /\ foreign_order' = Order(stage, ok, q, done)
              /\ queries' = {"fr"}
  BY DEF CoverLeg
<1>2. /\ pc = "loop" /\ held_amount > 0
      /\ UNCHANGED <<held_amount, korean_order, qty, tries, splits, unsaved,
                     shared, korean>>
  BY DEF CoverLeg
<1>3. exit_coin_amount \in Int /\ exit_coin_amount > 0
  BY <1>2, SizeAssumption DEF exit_coin_amount, Least, TypeOK
<1>4. q \in Nat
  BY <1>3, CloseType
<1>5. ok => CoverFill(exit_coin_amount, done)
  BY <1>1, <1>3, CoverFillBound
<1> HIDE DEF q
<1>6. ok => q > 0 /\ done <= q + Slip /\ (~May(stage, "uneven") => done = q)
  BY <1>1, <1>4, CoverDone
<1>7. VenueTypes
  BY VenueTyped
<1>8. /\ done \in Nat /\ -done \in Int /\ 0 \in Int
      /\ (IF ok THEN 0 ELSE -done) \in Int
  BY <1>4, SizeAssumption
<1>9. /\ krReal' = krReal + 0 /\ krReal + 0 \in Nat /\ krStray' = krStray + 0
      /\ frReal' = frReal + (-done)
      /\ frStray' = frStray + (IF ok THEN 0 ELSE -done)
  BY <1>1, <1>2, <1>7, <1>8 DEF VenueTypes, ForeignStray, korean
<1>10. Told(0 - 0, -done - (IF ok THEN 0 ELSE -done))
  BY <1>7, <1>8, <1>9, VenueChange
<1>11. 0 - 0 = 0 /\ -done - (IF ok THEN 0 ELSE -done) = (IF ok THEN -done ELSE 0)
  BY <1>8
<1>12. Told(0, IF ok THEN -done ELSE 0)
  BY <1>10, <1>11
<1>13. CASE ok
  <2>1. Told(0, -done) /\ ok = TRUE
    BY <1>12, <1>13
  <2> QED
    BY <1>1, <1>2, <1>4, <1>5, <1>6, <1>8, <1>13, <2>1 DEF CoverEffect, q
<1>14. CASE ~ok
  <2>1. Told(0, 0)
    BY <1>12, <1>14
  <2> QED
    BY <1>1, <1>2, <1>14, <2>1 DEF CoverEffect
<1> QED
  BY <1>13, <1>14

\* The Korean sell.
LEMMA SellHasEffect ==
  ASSUME TypeOK, NEW stage \in Stage, SellLeg(stage) PROVE SellEffect(stage)
<1> DEFINE q == foreign_order.quantity
<1>1. PICK ok \in BOOLEAN, done \in 0..q :
        /\ SellEnds(stage, q, ok, done)
        /\ krReal' = krReal - done
        /\ KoreanStray(IF ok THEN 0 ELSE -done)
        /\ korean_order' = Order(stage, ok, q, done)
  BY DEF SellLeg
<1>2. /\ pc = "kr_sell" /\ pc' = "exit_latch" /\ queries' = queries \cup {"kr"}
      /\ UNCHANGED <<held_amount, foreign_order, qty, tries, splits, unsaved,
                     shared, foreign>>
  BY DEF SellLeg
<1>3. q \in Nat /\ q \in Int
  BY DEF TypeOK, OrderType
<1> HIDE DEF q
<1>4. VenueTypes
  BY VenueTyped
<1>5. /\ done \in Nat /\ -done \in Int /\ done <= q /\ 0 \in Int
      /\ (IF ok THEN 0 ELSE -done) \in Int
  BY <1>3
<1>6. /\ krReal - done \in Nat /\ (ok /\ q > 0 => done > 0)
      /\ ok /\ ~May(stage, "uneven") => done = q
  BY <1>1, <1>3, <1>4, SellDone
<1>7. /\ krReal' = krReal + (-done) /\ krReal + (-done) \in Nat
      /\ krStray' = krStray + (IF ok THEN 0 ELSE -done)
      /\ frReal' = frReal + 0 /\ frStray' = frStray + 0
  BY <1>1, <1>2, <1>4, <1>5, <1>6 DEF VenueTypes, KoreanStray, foreign
<1>8. Told(-done - (IF ok THEN 0 ELSE -done), 0 - 0)
  BY <1>4, <1>5, <1>7, VenueChange
<1>9. -done - (IF ok THEN 0 ELSE -done) = (IF ok THEN -done ELSE 0) /\ 0 - 0 = 0
  BY <1>5
<1>10. Told(IF ok THEN -done ELSE 0, 0)
  BY <1>8, <1>9
<1> QED
  BY <1>1, <1>2, <1>5, <1>6, <1>10 DEF SellEffect, q

\* A correcting cover: done units, taken for f.
LEMMA ForeignFix ==
  ASSUME TypeOK, UNCHANGED korean, NEW x \in Int, NEW ok \in BOOLEAN,
         NEW done \in 0..(close_qty(x) + Slip),
         CoverEnds("flatten_fr", close_qty(x), ok, done),
         frReal' = frReal - done, ForeignStray(IF ok THEN 0 ELSE -done)
  PROVE  /\ ~ok => Told(0, 0)
         /\ ok => /\ done \in Nat /\ done > 0 /\ Told(0, -done)
                  /\ x > 0 => CoverFill(x, done)
         /\ \A f \in Reports(Order("flatten_fr", ok, close_qty(x), done)) :
              ok => /\ (IF f > 0 THEN f ELSE close_qty(x)) \in Nat
                    /\ HonestVenues => (IF f > 0 THEN f ELSE close_qty(x)) = done
<1> DEFINE c == close_qty(x)
<1>1. c \in Nat
  BY CloseType
<1>2. ok /\ x > 0 => CoverFill(x, done)
  BY CoverFillBound
<1> HIDE DEF c
<1>3. VenueTypes
  BY VenueTyped
<1>4. /\ done \in Nat /\ -done \in Int /\ 0 \in Int
      /\ (IF ok THEN 0 ELSE -done) \in Int
  BY <1>1, SizeAssumption DEF c
<1>5. /\ krReal' = krReal + 0 /\ krReal + 0 \in Nat /\ krStray' = krStray + 0
      /\ frReal' = frReal + (-done)
      /\ frStray' = frStray + (IF ok THEN 0 ELSE -done)
  BY <1>3, <1>4 DEF VenueTypes, ForeignStray, korean
<1>6. Told(0 - 0, -done - (IF ok THEN 0 ELSE -done))
  BY <1>3, <1>4, <1>5, VenueChange
<1>7. 0 - 0 = 0 /\ -done - (IF ok THEN 0 ELSE -done) = (IF ok THEN -done ELSE 0)
  BY <1>4
<1>8. Told(0, IF ok THEN -done ELSE 0)
  BY <1>6, <1>7
<1>9. ok => done > 0
  BY <1>1, CoverDone DEF c
<1>10. "flatten_fr" \in Stage
  BY DEF Stage
<1>11. ASSUME ok, NEW f \in Reports(Order("flatten_fr", ok, c, done))
       PROVE  /\ (IF f > 0 THEN f ELSE c) \in Nat
              /\ HonestVenues => (IF f > 0 THEN f ELSE c) = done
  BY <1>1, <1>4, <1>9, <1>10, <1>11, Corrected
<1> QED
  BY <1>2, <1>4, <1>8, <1>9, <1>11 DEF c

\* A correcting sale: done units, taken for f.
LEMMA KoreanFix ==
  ASSUME TypeOK, UNCHANGED foreign, NEW x \in Int, NEW ok \in BOOLEAN, NEW done \in 0..x,
         SellEnds("flatten_kr", x, ok, done),
         krReal' = krReal - done, KoreanStray(IF ok THEN 0 ELSE -done)
  PROVE  /\ ~ok => Told(0, 0)
         /\ ok => done \in Nat /\ done <= x /\ Told(-done, 0)
         /\ \A f \in Reports(Order("flatten_kr", ok, x, done)) :
              ok => /\ (IF f > 0 THEN f ELSE x) \in Nat
                    /\ HonestVenues => (IF f > 0 THEN f ELSE x) = done
                    /\ x > 0 => done > 0
<1>1. VenueTypes
  BY VenueTyped
<1>2. /\ done \in Nat /\ -done \in Int /\ 0 \in Int /\ x \in Nat
      /\ (IF ok THEN 0 ELSE -done) \in Int
  OBVIOUS
<1>3. krReal - done \in Nat /\ (ok /\ x > 0 => done > 0)
  BY <1>1 DEF SellEnds, Ends, VenueTypes, May
<1>4. /\ krReal' = krReal + (-done) /\ krReal + (-done) \in Nat
      /\ krStray' = krStray + (IF ok THEN 0 ELSE -done)
      /\ frReal' = frReal + 0 /\ frStray' = frStray + 0
  BY <1>1, <1>2, <1>3 DEF VenueTypes, KoreanStray, foreign
<1>5. Told(-done - (IF ok THEN 0 ELSE -done), 0 - 0)
  BY <1>1, <1>2, <1>4, VenueChange
<1>6. -done - (IF ok THEN 0 ELSE -done) = (IF ok THEN -done ELSE 0) /\ 0 - 0 = 0
  BY <1>2
<1>7. Told(IF ok THEN -done ELSE 0, 0)
  BY <1>5, <1>6
<1>8. "flatten_kr" \in Stage
  BY DEF Stage
<1>9. ASSUME ok, NEW f \in Reports(Order("flatten_kr", ok, x, done))
      PROVE  /\ (IF f > 0 THEN f ELSE x) \in Nat
             /\ HonestVenues => (IF f > 0 THEN f ELSE x) = done
             /\ x > 0 => done > 0
  <2> DEFINE o == Order("flatten_kr", ok, x, done)
  <2>1. f \in Nat /\ o \in OrderType
    BY <1>2, <1>8, <1>9, OrderTypes, ReportTypes
  <2>2. CASE x > 0
    BY <1>2, <1>3, <1>8, <1>9, <2>2, Corrected
  <2>3. CASE x = 0
    <3>1. o.ok = ok /\ o.done = done
      BY DEF Order
    <3>2. HonestVenues => f = done
      BY <1>9, <2>1, <3>1, ReportsDone
    <3> QED
      BY <1>2, <2>1, <2>3, <3>2
  <2> QED
    BY <1>2, <2>2, <2>3
<1> QED
  BY <1>2, <1>7, <1>9

\* flatten_extra_foreign_short and flatten_extra_korean_long, entry.
LEMMA EntryFixHasEffect ==
  ASSUME TypeOK
  PROVE  /\ EntryFlattenForeign => EntryFixForeign
         /\ EntryFlattenKorean => EntryFixKorean
<1>1. qty \in [fr : Int, kr : Int] /\ qty.fr \in Int /\ qty.kr \in Int
  BY DEF TypeOK
<1>2. qty.fr - qty.kr \in Int /\ qty.kr - qty.fr \in Int
  BY <1>1
<1>3. ASSUME EntryFlattenForeign PROVE EntryFixForeign
  <2> DEFINE x == qty.fr - qty.kr
             c == close_qty(x)
  <2>1. PICK ok \in BOOLEAN, done \in 0..(c + Slip) :
          /\ CoverEnds("flatten_fr", c, ok, done)
          /\ frReal' = frReal - done
          /\ ForeignStray(IF ok THEN 0 ELSE -done)
          /\ \/ /\ ok
                /\ \E f \in Reports(Order("flatten_fr", ok, c, done)) :
                     qty' = [qty EXCEPT !.fr = qty.fr - (IF f > 0 THEN f ELSE c)]
                /\ pc' = "entry_hedged"
                /\ UNCHANGED shared
             \/ ~ok /\ EntryStop /\ UNCHANGED qty
    BY <1>3 DEF EntryFlattenForeign
  <2>2. pc = "entry_cmp" /\ qty.fr > qty.kr /\ FixUnchanged /\ UNCHANGED korean
    BY <1>3 DEF EntryFlattenForeign, FixUnchanged
  <2>3. x \in Int /\ x > 0
    BY <1>1, <2>2
  <2> HIDE DEF x
  <2>4. /\ ~ok => Told(0, 0)
        /\ ok => done \in Nat /\ Told(0, -done) /\ CoverFill(x, done)
        /\ \A f \in Reports(Order("flatten_fr", ok, c, done)) :
             ok => /\ (IF f > 0 THEN f ELSE c) \in Nat
                   /\ HonestVenues => (IF f > 0 THEN f ELSE c) = done
    BY <2>1, <2>2, <2>3, ForeignFix
  <2> HIDE DEF c
  <2>5. CASE ok
    <3>1. PICK f \in Reports(Order("flatten_fr", ok, c, done)) :
            qty' = [qty EXCEPT !.fr = qty.fr - (IF f > 0 THEN f ELSE c)]
      BY <2>1, <2>5
    <3>2. qty' = [fr |-> qty.fr - (IF f > 0 THEN f ELSE c), kr |-> qty.kr]
      BY <1>1, <3>1, QtyParts
    <3> QED
      BY <2>1, <2>2, <2>4, <2>5, <3>2, Zenon DEF EntryFixForeign, x
  <2>6. CASE ~ok
    BY <2>1, <2>2, <2>4, <2>6 DEF EntryFixForeign
  <2> QED
    BY <2>5, <2>6
<1>4. ASSUME EntryFlattenKorean PROVE EntryFixKorean
  <2> DEFINE x == qty.kr - qty.fr
  <2>1. PICK ok \in BOOLEAN, done \in 0..x :
          /\ SellEnds("flatten_kr", x, ok, done)
          /\ krReal' = krReal - done
          /\ KoreanStray(IF ok THEN 0 ELSE -done)
          /\ \/ /\ ok
                /\ \E f \in Reports(Order("flatten_kr", ok, x, done)) :
                     qty' = [qty EXCEPT !.kr = qty.kr - (IF f > 0 THEN f ELSE x)]
                /\ pc' = "entry_hedged"
                /\ UNCHANGED shared
             \/ ~ok /\ EntryStop /\ UNCHANGED qty
    BY <1>4 DEF EntryFlattenKorean
  <2>2. /\ pc = "entry_cmp" /\ qty.fr <= qty.kr /\ FixUnchanged
        /\ ~quantities_match(qty.fr, qty.kr) /\ UNCHANGED foreign
    BY <1>4 DEF EntryFlattenKorean, FixUnchanged
  <2>3. x \in Int /\ (qty.fr # qty.kr => x > 0)
    BY <1>1, <2>2
  <2> HIDE DEF x
  <2>4. /\ ~ok => Told(0, 0)
        /\ ok => done \in Nat /\ done <= x /\ Told(-done, 0)
        /\ \A f \in Reports(Order("flatten_kr", ok, x, done)) :
             ok => /\ (IF f > 0 THEN f ELSE x) \in Nat
                   /\ HonestVenues => (IF f > 0 THEN f ELSE x) = done
                   /\ x > 0 => done > 0
    BY <2>1, <2>2, <2>3, KoreanFix
  <2>5. CASE ok
    <3>1. PICK f \in Reports(Order("flatten_kr", ok, x, done)) :
            qty' = [qty EXCEPT !.kr = qty.kr - (IF f > 0 THEN f ELSE x)]
      BY <2>1, <2>5
    <3>2. qty' = [fr |-> qty.fr, kr |-> qty.kr - (IF f > 0 THEN f ELSE x)]
      BY <1>1, <3>1, QtyParts
    <3>3. 0 < done <=> done > 0
      BY <2>3
    <3> QED
      BY <2>1, <2>2, <2>3, <2>4, <2>5, <3>2, <3>3, Zenon DEF EntryFixKorean, x
  <2>6. CASE ~ok
    BY <2>1, <2>2, <2>4, <2>6 DEF EntryFixKorean
  <2> QED
    BY <2>5, <2>6
<1> QED
  BY <1>3, <1>4

\* The same corrections, exit.
LEMMA ExitFixHasEffect ==
  ASSUME TypeOK
  PROVE  /\ ExitFlattenKorean => ExitFixKorean
         /\ ExitFlattenForeign => ExitFixForeign
<1>1. qty \in [fr : Int, kr : Int] /\ qty.fr \in Int /\ qty.kr \in Int
  BY DEF TypeOK
<1>2. ASSUME ExitFlattenKorean PROVE ExitFixKorean
  <2> DEFINE x == qty.fr - qty.kr
  <2>1. PICK ok \in BOOLEAN, done \in 0..x :
          /\ SellEnds("flatten_kr", x, ok, done)
          /\ krReal' = krReal - done
          /\ KoreanStray(IF ok THEN 0 ELSE -done)
          /\ \/ /\ ok
                /\ \E f \in Reports(Order("flatten_kr", ok, x, done)) :
                     qty' = [qty EXCEPT !.kr = qty.kr + (IF f > 0 THEN f ELSE x)]
                /\ pc' = "exit_hedged"
                /\ UNCHANGED shared
             \/ ~ok /\ ExitStop /\ UNCHANGED qty
    BY <1>2 DEF ExitFlattenKorean
  <2>2. pc = "exit_cmp" /\ qty.fr > qty.kr /\ FixUnchanged /\ UNCHANGED foreign
    BY <1>2 DEF ExitFlattenKorean, FixUnchanged
  <2>3. x \in Int /\ x > 0
    BY <1>1, <2>2
  <2> HIDE DEF x
  <2>4. /\ ~ok => Told(0, 0)
        /\ ok => done \in Nat /\ done <= x /\ Told(-done, 0)
        /\ \A f \in Reports(Order("flatten_kr", ok, x, done)) :
             ok => /\ (IF f > 0 THEN f ELSE x) \in Nat
                   /\ HonestVenues => (IF f > 0 THEN f ELSE x) = done
                   /\ x > 0 => done > 0
    BY <2>1, <2>2, <2>3, KoreanFix
  <2>5. CASE ok
    <3>1. PICK f \in Reports(Order("flatten_kr", ok, x, done)) :
            qty' = [qty EXCEPT !.kr = qty.kr + (IF f > 0 THEN f ELSE x)]
      BY <2>1, <2>5
    <3>2. qty' = [fr |-> qty.fr, kr |-> qty.kr + (IF f > 0 THEN f ELSE x)]
      BY <1>1, <3>1, QtyParts
    <3>3. 0 < done <=> done > 0
      BY <2>3
    <3> QED
      BY <2>1, <2>2, <2>3, <2>4, <2>5, <3>2, <3>3, Zenon DEF ExitFixKorean, x
  <2>6. CASE ~ok
    BY <2>1, <2>2, <2>4, <2>6 DEF ExitFixKorean
  <2> QED
    BY <2>5, <2>6
<1>3. ASSUME ExitFlattenForeign PROVE ExitFixForeign
  <2> DEFINE x == qty.kr - qty.fr
             c == close_qty(x)
  <2>1. PICK ok \in BOOLEAN, done \in 0..(c + Slip) :
          /\ CoverEnds("flatten_fr", c, ok, done)
          /\ frReal' = frReal - done
          /\ ForeignStray(IF ok THEN 0 ELSE -done)
          /\ \/ /\ ok
                /\ \E f \in Reports(Order("flatten_fr", ok, c, done)) :
                     qty' = [qty EXCEPT !.fr = qty.fr + (IF f > 0 THEN f ELSE c)]
                /\ pc' = "exit_hedged"
                /\ UNCHANGED shared
             \/ ~ok /\ ExitStop /\ UNCHANGED qty
    BY <1>3 DEF ExitFlattenForeign
  <2>2. /\ pc = "exit_cmp" /\ qty.fr <= qty.kr /\ FixUnchanged
        /\ ~quantities_match(qty.fr, qty.kr) /\ UNCHANGED korean
    BY <1>3 DEF ExitFlattenForeign, FixUnchanged
  <2>3. x \in Int /\ (qty.fr # qty.kr => x > 0)
    BY <1>1, <2>2
  <2> HIDE DEF x
  <2>4. /\ ~ok => Told(0, 0)
        /\ ok => done \in Nat /\ Told(0, -done) /\ (x > 0 => CoverFill(x, done))
        /\ \A f \in Reports(Order("flatten_fr", ok, c, done)) :
             ok => /\ (IF f > 0 THEN f ELSE c) \in Nat
                   /\ HonestVenues => (IF f > 0 THEN f ELSE c) = done
    BY <2>1, <2>2, <2>3, ForeignFix
  <2> HIDE DEF c
  <2>5. CASE ok
    <3>1. PICK f \in Reports(Order("flatten_fr", ok, c, done)) :
            qty' = [qty EXCEPT !.fr = qty.fr + (IF f > 0 THEN f ELSE c)]
      BY <2>1, <2>5
    <3>2. qty' = [fr |-> qty.fr + (IF f > 0 THEN f ELSE c), kr |-> qty.kr]
      BY <1>1, <3>1, QtyParts
    <3> QED
      BY <2>1, <2>2, <2>3, <2>4, <2>5, <3>2, Zenon DEF ExitFixForeign, x
  <2>6. CASE ~ok
    BY <2>1, <2>2, <2>4, <2>6 DEF ExitFixForeign
  <2> QED
    BY <2>5, <2>6
<1> QED
  BY <1>2, <1>3

\* A retried sell.
LEMMA RetryHasEffect == ASSUME TypeOK, SellRetry PROVE RetryEffect
<1> DEFINE q == qty.fr
<1>1. PICK ok \in BOOLEAN, done \in 0..q :
        /\ SellEnds("retry", q, ok, done)
        /\ krReal' = krReal - done
        /\ \/ /\ ok
              /\ held_amount' = held_amount - q
              /\ splits' = splits + 1
              /\ unsaved' = TRUE
              /\ KoreanStray(q - done)
              /\ EndSplit
              /\ \/ pc' = "loop" /\ UNCHANGED shared
                 \/ Restates(Order("retry", ok, q, done)) /\ RetryStop(held_amount')
           \/ /\ ~ok /\ RetryLeft /\ tries' = tries + 1 /\ KoreanStray(-done)
              /\ UNCHANGED <<pc, queries, held_amount, foreign_order,
                             korean_order, qty, splits, unsaved, shared>>
           \/ /\ ~ok /\ RetryStop(held_amount) /\ KoreanStray(-done) /\ EndSplit
              /\ UNCHANGED <<held_amount, splits, unsaved>>
  BY DEF SellRetry
<1>2. pc = "sell_retry" /\ UNCHANGED foreign
  BY DEF SellRetry
<1>3. q \in Int
  BY DEF TypeOK
<1> HIDE DEF q
<1>4. VenueTypes
  BY VenueTyped
<1>5. done \in Int /\ -done \in Int /\ q - done \in Int /\ 0 \in Int
  BY <1>3
<1>6. krReal - done \in Nat
  BY <1>1, <1>3, <1>4, SellDone
<1>7. /\ krReal' = krReal + (-done) /\ krReal + (-done) \in Nat
      /\ frReal' = frReal + 0 /\ frStray' = frStray + 0
  BY <1>1, <1>2, <1>4, <1>5, <1>6 DEF VenueTypes, foreign
<1>8. ASSUME KoreanStray(q - done) PROVE Told(-q, 0)
  <2>1. Told(-done - (q - done), 0 - 0)
    BY <1>4, <1>5, <1>7, <1>8, VenueChange DEF KoreanStray
  <2>2. -done - (q - done) = -q /\ 0 - 0 = 0
    BY <1>3, <1>5
  <2> QED
    BY <2>1, <2>2
<1>9. ASSUME KoreanStray(-done) PROVE Told(0, 0)
  <2>1. Told(-done - (-done), 0 - 0)
    BY <1>4, <1>5, <1>7, <1>9, VenueChange DEF KoreanStray
  <2>2. -done - (-done) = 0 /\ 0 - 0 = 0
    BY <1>5
  <2> QED
    BY <2>1, <2>2
<1>10. Restates(Order("retry", ok, q, done)) =>
         KoreanExchange = "Upbit" /\ May("retry", "restated")
  BY DEF Restates, Order
<1> QED
  BY <1>1, <1>2, <1>8, <1>9, <1>10, Zenon DEF RetryEffect, q

\* handle_fill_query.
LEMMA QueryHasEffect ==
  ASSUME TypeOK, NEW leg, FillQuery(leg) PROVE QueryEffect(leg)
<1>1. /\ leg \in queries /\ queries' = queries \ {leg}
      /\ UNCHANGED <<pc, held_amount, qty, tries, splits, unsaved, shared,
                     krReal, foreign>>
  BY DEF FillQuery
<1>2. VenueTypes /\ foreign_order \in OrderType /\ korean_order \in OrderType
  BY VenueTyped DEF TypeOK
<1>3. /\ krReal' = krReal + 0 /\ krReal + 0 \in Nat /\ 0 \in Int
      /\ frReal' = frReal + 0 /\ frStray' = frStray + 0
  BY <1>1, <1>2 DEF VenueTypes, foreign
<1>4. ASSUME UNCHANGED krStray PROVE Told(0, 0)
  <2>1. krStray' = krStray + 0
    BY <1>2, <1>4 DEF VenueTypes
  <2>2. Told(0 - 0, 0 - 0)
    BY <1>2, <1>3, <2>1, VenueChange
  <2>3. 0 - 0 = 0
    OBVIOUS
  <2> QED
    BY <2>2, <2>3
<1>5. CASE /\ leg = "fr"
           /\ \E f \in Reports(foreign_order) :
                foreign_order' = [foreign_order EXCEPT !.filled_quantity = f]
           /\ UNCHANGED <<korean_order, krStray>>
  <2>1. PICK f \in Reports(foreign_order) :
          foreign_order' = [foreign_order EXCEPT !.filled_quantity = f]
    BY <1>5
  <2>2. f \in Nat /\ (HonestVenues /\ foreign_order.ok => f = foreign_order.done)
    BY <1>2, ReportTypes, ReportsDone
  <2> QED
    BY <1>1, <1>4, <1>5, <2>1, <2>2 DEF QueryEffect
<1>6. CASE /\ leg = "kr"
           /\ \E f \in Reports(korean_order) :
                korean_order' = [korean_order EXCEPT !.filled_quantity = f]
           /\ UNCHANGED <<foreign_order, krStray>>
  <2>1. PICK f \in Reports(korean_order) :
          korean_order' = [korean_order EXCEPT !.filled_quantity = f]
    BY <1>6
  <2>2. f \in Nat /\ (HonestVenues /\ korean_order.ok => f = korean_order.done)
    BY <1>2, ReportTypes, ReportsDone
  <2> QED
    BY <1>1, <1>4, <1>6, <2>1, <2>2 DEF QueryEffect
<1>7. CASE /\ leg = "kr" /\ Restates(korean_order)
           /\ \E f \in 0..korean_order.done :
                korean_order' = [korean_order EXCEPT !.filled_quantity = f,
                                                     !.ok = FALSE]
           /\ KoreanStray(IF korean_order.stage = "buy" THEN korean_order.done
                                                       ELSE -korean_order.done)
           /\ UNCHANGED foreign_order
  <2> DEFINE d == korean_order.done
             k == IF korean_order.stage = "buy" THEN d ELSE -d
             b == IF korean_order.stage = "buy" THEN -d ELSE d
  <2>1. d \in Nat /\ korean_order.ok
    BY <1>2, <1>7 DEF OrderType, Restates
  <2>2. PICK f \in 0..d :
          korean_order' = [korean_order EXCEPT !.filled_quantity = f, !.ok = FALSE]
    BY <1>7
  <2>3. krStray' = krStray + k
    BY <1>7 DEF KoreanStray
  <2> HIDE DEF d
  <2>4. k \in Int /\ 0 - k = b /\ 0 - 0 = 0 /\ f \in Nat
    BY <2>1, <2>2
  <2> HIDE DEF k
  <2>5. Told(0 - k, 0 - 0)
    BY <1>2, <1>3, <2>3, <2>4, VenueChange
  <2>6. Told(b, 0)
    BY <2>4, <2>5
  <2> QED
    BY <1>1, <1>7, <2>1, <2>2, <2>4, <2>6 DEF QueryEffect, d
<1> QED
  BY <1>5, <1>6, <1>7 DEF FillQuery

-----------------------------------------------------------------------------
(* Every step of the two functions is one of the effects, a booking, the   *)
(* beginning of a call, or touches neither the book nor the venues.        *)

SplitStep(size, cover, sell) ==
  \/ ShortEffect(size)
  \/ pc = "min_guard" /\ RollbackEffect(foreign_order.quantity)
  \/ BuyEffect \/ EntryLatch
  \/ pc = "entry_rollback" /\ RollbackEffect(qty.fr)
  \/ EntryFixForeign \/ EntryFixKorean \/ EntryStillMismatched
  \/ CoverEffect(cover) \/ SellEffect(sell) \/ ExitLatch
  \/ ExitFixKorean \/ ExitFixForeign \/ ExitStillMismatched \/ RetryEffect
  \/ \E leg \in {"fr", "kr"} : QueryEffect(leg)

LoopSplit == SplitStep(next_order_size, "cover", "sell")
ReentrySplit == SplitStep(reentry_size, "unwind_cover", "unwind_sell")

Idle ==
  /\ UNCHANGED <<queries, local, entry_suppressed, tracker, file, venue>>
  /\ running_' \in {running_, FALSE}
  /\ \/ UNCHANGED pc
     \/ pc = "call" /\ pc' = "refused"
     \/ pc = "loop" /\ pc' = "done"

\* The steps that only look at the book.
LEMMA IdleCases ==
  Refuse \/ LoopExit \/ UnwindReturn \/ Shutdown \/ Finished \/ UNCHANGED vars => Idle
  BY DEF Refuse, LoopExit, UnwindReturn, Shutdown, Finished, Idle, vars, shared

\* The steps of the lifecycle loop.
LEMMA NextCases ==
  ASSUME TypeOK, [Next]_vars
  PROVE  LoopSplit \/ Idle \/ Begin \/ EntryBook \/ ExitBook
<1>1. next_order_size \in Int /\ foreign_order.quantity \in Int /\ qty.fr \in Int
  BY SizeAssumption DEF TypeOK, OrderType, next_order_size, Least, Greatest
<1>2. "cover" \in Stage /\ "sell" \in Stage
  BY DEF Stage
<1>3. EntryShort => ShortEffect(next_order_size)
  BY <1>1, ShortHasEffect DEF EntryShort
<1>4. MinOrderGuard => pc = "min_guard" /\ RollbackEffect(foreign_order.quantity)
  BY <1>1, RollbackHasEffect DEF MinOrderGuard
<1>5. EntryRollback => pc = "entry_rollback" /\ RollbackEffect(qty.fr)
  BY <1>1, RollbackHasEffect DEF EntryRollback
<1>6. (ExitCover => CoverEffect("cover")) /\ (KoreanSell => SellEffect("sell"))
  BY <1>2, CoverHasEffect, SellHasEffect DEF ExitCover, KoreanSell
<1>7. \A leg : FillQuery(leg) => QueryEffect(leg)
  BY QueryHasEffect
<1>8. (KoreanBuy => BuyEffect) /\ (SellRetry => RetryEffect)
  BY BuyHasEffect, RetryHasEffect
<1>9. LifecycleStep => LoopSplit \/ Idle \/ Begin \/ EntryBook \/ ExitBook
  BY <1>3, <1>4, <1>5, <1>6, <1>8, EntryFixHasEffect, ExitFixHasEffect, IdleCases,
     Zenon DEF LifecycleStep, LoopSplit, SplitStep
<1>10. (\E leg \in {"fr", "kr"} : FillQuery(leg)) => LoopSplit
  BY <1>7, Zenon DEF LoopSplit, SplitStep
<1> QED
  BY <1>9, <1>10, IdleCases, Zenon DEF Next

\* The steps of the unwinding function.
LEMMA UnwindCases ==
  ASSUME TypeOK, original_amount \in Int, UnwindSplit
  PROVE  ReentrySplit \/ UnwindBook \/ ReentryBook
<1>1. reentry_size \in Int /\ foreign_order.quantity \in Int /\ qty.fr \in Int
  BY SizeAssumption DEF TypeOK, OrderType, reentry_size, Least
<1>2. "unwind_cover" \in Stage /\ "unwind_sell" \in Stage
  BY DEF Stage
<1>3. ReentryShort => ShortEffect(reentry_size)
  BY <1>1, ShortHasEffect DEF ReentryShort
<1>4. ReentryGuard => pc = "min_guard" /\ RollbackEffect(foreign_order.quantity)
  BY <1>1, RollbackHasEffect DEF ReentryGuard, MinOrderGuard
<1>5. ReentryRollback => pc = "entry_rollback" /\ RollbackEffect(qty.fr)
  BY <1>1, RollbackHasEffect DEF ReentryRollback, EntryRollback
<1>6. /\ UnwindCover => CoverEffect("unwind_cover")
      /\ UnwindSell => SellEffect("unwind_sell")
  BY <1>2, CoverHasEffect, SellHasEffect DEF UnwindCover, UnwindSell
<1>7. (ReentryBuy => BuyEffect) /\ (UnwindRetry => RetryEffect)
  BY BuyHasEffect, RetryHasEffect DEF ReentryBuy, UnwindRetry
<1>8. /\ ReentryFlattenForeign => EntryFixForeign
      /\ ReentryFlattenKorean => EntryFixKorean
  BY EntryFixHasEffect DEF ReentryFlattenForeign, ReentryFlattenKorean
<1> QED
  BY <1>3, <1>4, <1>5, <1>6, <1>7, <1>8, Zenon
    DEF UnwindSplit, ReentrySplit, SplitStep, UnwindLatch, ReentryLatch,
        ReentryStillMismatched

RelayTypes == TypeOK /\ exiting \in BOOLEAN /\ original_amount \in Int

\* The steps of either function.
LEMMA RelayCases ==
  ASSUME RelayTypes, [RelayNext]_relayVars
  PROVE  \/ Idle /\ UNCHANGED relay
         \/ exiting /\ UnwindBegin /\ UNCHANGED exiting
         \/ /\ exiting /\ UNCHANGED relay
            /\ ReentrySplit \/ UnwindBook \/ ReentryBook
         \/ /\ ~exiting /\ UNCHANGED relay
            /\ LoopSplit \/ Begin \/ EntryBook \/ ExitBook
<1>1. TypeOK /\ exiting \in BOOLEAN /\ original_amount \in Int
  BY DEF RelayTypes
<1>2. CASE UnwindStep
  <2>1. CASE UnwindRefuse /\ exiting /\ UNCHANGED exiting
    BY <2>1, IdleCases DEF UnwindRefuse, relay
  <2>2. CASE UnwindBegin /\ exiting /\ UNCHANGED exiting
    BY <2>2
  <2>3. CASE UnwindReturn /\ UNCHANGED original_amount /\ exiting /\ UNCHANGED exiting
    BY <2>3, IdleCases DEF relay
  <2>4. CASE UnwindSplit /\ UNCHANGED original_amount /\ exiting /\ UNCHANGED exiting
    BY <2>4, <1>1, UnwindCases DEF relay
  <2> QED
    BY <1>2, <2>1, <2>2, <2>3, <2>4 DEF UnwindStep
<1>3. CASE LoopStep
  <2>1. ~exiting /\ UNCHANGED relay /\ Next
    BY <1>3 DEF LoopStep, Next
  <2>2. LoopSplit \/ Idle \/ Begin \/ EntryBook \/ ExitBook
    BY <1>1, <2>1, NextCases
  <2> QED
    BY <2>1, <2>2
<1>4. CASE \E leg \in {"fr", "kr"} : Query(leg)
  <2>1. PICK leg \in {"fr", "kr"} : FillQuery(leg) /\ UNCHANGED relay
    BY <1>4 DEF Query
  <2>2. QueryEffect(leg)
    BY <1>1, <2>1, QueryHasEffect
  <2>3. LoopSplit /\ ReentrySplit
    BY <2>2, Zenon DEF LoopSplit, ReentrySplit, SplitStep
  <2> QED
    BY <1>1, <2>1, <2>3
<1>5. CASE (Shutdown \/ Finished) /\ UNCHANGED relay
  BY <1>5, IdleCases
<1>6. CASE UNCHANGED relayVars
  <2>1. UNCHANGED vars /\ UNCHANGED relay
    BY <1>6 DEF relayVars
  <2> QED
    BY <2>1, IdleCases
<1> QED
  BY <1>2, <1>3, <1>4, <1>5, <1>6 DEF RelayNext

-----------------------------------------------------------------------------
(* Types.                                                                  *)

\* A snapshot of two integers is a position.
LEMMA SnapshotType ==
  ASSUME NEW kr \in Int, NEW fr \in Int PROVE Snapshot(kr, fr) \in PositionType
  BY DEF Snapshot, Flat, PositionType

\* The values at the end of a split.
LEMMA EmptyTypes == NoOrder \in OrderType /\ NoQty \in [fr : Int, kr : Int]
<1>1. "short" \in Stage
  BY DEF Stage
<1>2. NoOrder \in OrderType
  BY <1>1, OrderTypes DEF NoOrder
<1>3. NoQty \in [fr : Int, kr : Int]
  BY DEF NoQty
<1> QED
  BY <1>2, <1>3

\* What the loop makes of a fill is a quantity.
LEMMA ResolvedTypes ==
  ASSUME NEW o \in OrderType PROVE resolved_fill_quantity(o) \in Nat
  BY DEF resolved_fill_quantity, OrderType

SharedTypes ==
  /\ running_ \in BOOLEAN /\ entry_suppressed \in BOOLEAN
  /\ tracker \in PositionType /\ file \in PositionType

\* A critical stop leaves well-typed shared state.
LEMMA StopType ==
  ASSUME NEW kr \in Int, NEW fr \in Int, trigger_critical_stop(Snapshot(kr, fr))
  PROVE  pc' = "stopped" /\ SharedTypes'
  BY SnapshotType DEF trigger_critical_stop, persist_snapshot, SharedTypes

\* So do the stops of the entry, the exit and the retries.
LEMMA StopTypes ==
  ASSUME TypeOK, NEW held \in Int, EntryStop \/ ExitStop \/ RetryStop(held)
  PROVE  pc' = "stopped" /\ SharedTypes'
<1>1. /\ held_amount + qty.kr \in Int /\ held_amount + qty.fr \in Int
      /\ Greatest(0, held_amount - qty.kr) \in Int
      /\ Greatest(0, held_amount - qty.fr) \in Int
      /\ Greatest(0, held - qty.fr) \in Int
  BY DEF TypeOK, Greatest
<1> QED
  BY <1>1, StopType DEF EntryStop, ExitStop, RetryStop

\* Every effect preserves the types.
LEMMA TypeSplit ==
  ASSUME TypeOK, NEW size \in Int, NEW cover \in Stage, NEW sell \in Stage,
         SplitStep(size, cover, sell)
  PROVE  TypeOK'
<1> USE DEF shared
<1>1. CASE ShortEffect(size)
  <2>1. PICK q \in Nat, done \in Nat :
          /\ Told(0, 0) \/ Told(0, q) \/ Told(0, done)
          /\ \/ UNCHANGED <<pc, queries, foreign_order>>
             \/ /\ pc' \in {"min_guard", "kr_buy"} /\ queries' \in {queries, {"fr"}}
                /\ foreign_order' = Order("short", TRUE, q, done)
    BY <1>1 DEF ShortEffect
  <2>2. Order("short", TRUE, q, done) \in OrderType
    BY DEF Order, OrderType, Stage
  <2>3. VenueTypes'
    BY <2>1 DEF Told
  <2> QED
    BY <1>1, <2>1, <2>2, <2>3 DEF ShortEffect, TypeOK, VenueTypes
<1>2. ASSUME NEW q \in Int, RollbackEffect(q) PROVE TypeOK'
  <2>1. VenueTypes'
    BY <1>2 DEF RollbackEffect, Told
  <2>2. held_amount \in Int /\ held_amount + q \in Int
    BY DEF TypeOK
  <2>3. pc' \in {"loop", "stopped"} /\ SharedTypes'
    BY <1>2, <2>2, StopType DEF RollbackEffect, SharedTypes, TypeOK
  <2> QED
    BY <1>2, <2>1, <2>3, EmptyTypes, LotAssumption
      DEF RollbackEffect, EndSplit, TypeOK, VenueTypes, SharedTypes
<1>3. CASE BuyEffect
  <2>1. PICK ok \in BOOLEAN, done \in Nat :
          /\ korean_order' = Order("buy", ok, buy_order_quantity, done)
          /\ Told(IF ok THEN done ELSE 0, 0)
    BY <1>3 DEF BuyEffect
  <2>2. buy_order_quantity \in Nat /\ "buy" \in Stage
    BY SizeAssumption DEF TypeOK, OrderType, buy_order_quantity, Stage
  <2>3. korean_order' \in OrderType /\ VenueTypes'
    BY <2>1, <2>2, OrderTypes DEF Told
  <2> QED
    BY <1>3, <2>3 DEF BuyEffect, TypeOK, VenueTypes
<1>4. CASE EntryLatch \/ ExitLatch
  <2>1. qty' = [fr |-> resolved_fill_quantity(foreign_order),
                kr |-> resolved_fill_quantity(korean_order)]
    BY <1>4 DEF EntryLatch, ExitLatch
  <2>2. /\ resolved_fill_quantity(foreign_order) \in Nat
        /\ resolved_fill_quantity(korean_order) \in Nat
    BY ResolvedTypes DEF TypeOK
  <2>3. qty' \in [fr : Int, kr : Int]
    BY <2>1, <2>2
  <2>4. pc' \in {"entry_cmp", "entry_rollback", "exit_cmp", "sell_retry"}
    BY <1>4, Zenon DEF EntryLatch, ExitLatch
  <2> QED
    BY <1>4, <2>3, <2>4 DEF EntryLatch, ExitLatch, TypeOK, venue, korean, foreign
<1>5. CASE EntryFixForeign \/ EntryFixKorean \/ ExitFixKorean \/ ExitFixForeign
  <2>1. qty.fr \in Int /\ qty.kr \in Int /\ held_amount \in Int
    BY DEF TypeOK
  <2>2. VenueTypes' /\ FixUnchanged
    BY <1>5 DEF EntryFixForeign, EntryFixKorean, ExitFixKorean, ExitFixForeign, Told
  <2>3. \/ (EntryStop \/ ExitStop) /\ UNCHANGED qty
        \/ /\ pc' \in {"entry_hedged", "exit_hedged"} /\ UNCHANGED shared
           /\ qty' \in [fr : Int, kr : Int]
    BY <1>5, <2>1 DEF EntryFixForeign, EntryFixKorean, ExitFixKorean, ExitFixForeign
  <2>4. CASE (EntryStop \/ ExitStop) /\ UNCHANGED qty
    <3>1. pc' = "stopped" /\ SharedTypes'
      BY <2>1, <2>4, StopTypes
    <3> QED
      BY <2>2, <2>4, <3>1 DEF TypeOK, VenueTypes, SharedTypes, FixUnchanged
  <2>5. CASE /\ pc' \in {"entry_hedged", "exit_hedged"} /\ UNCHANGED shared
             /\ qty' \in [fr : Int, kr : Int]
    BY <2>2, <2>5 DEF TypeOK, VenueTypes, FixUnchanged
  <2> QED
    BY <2>3, <2>4, <2>5
<1>6. CASE EntryStillMismatched \/ ExitStillMismatched
  <2>1. held_amount \in Int
    BY DEF TypeOK
  <2>2. pc' = "stopped" /\ SharedTypes'
    BY <1>6, <2>1, StopTypes DEF EntryStillMismatched, ExitStillMismatched
  <2> QED
    BY <1>6, <2>2 DEF EntryStillMismatched, ExitStillMismatched, TypeOK, SharedTypes,
       local, venue, korean, foreign
<1>7. CASE CoverEffect(cover)
  <2>1. VenueTypes'
    BY <1>7 DEF CoverEffect, Told
  <2>2. \/ UNCHANGED <<pc, queries, foreign_order>>
        \/ \E q \in Nat, done \in Nat :
             /\ pc' = "kr_sell" /\ queries' = {"fr"}
             /\ foreign_order' = Order(cover, TRUE, q, done)
    BY <1>7 DEF CoverEffect
  <2>3. \A q \in Nat, done \in Nat : Order(cover, TRUE, q, done) \in OrderType
    BY DEF Order, OrderType
  <2> QED
    BY <1>7, <2>1, <2>2, <2>3 DEF CoverEffect, TypeOK, VenueTypes
<1>8. CASE SellEffect(sell)
  <2>1. PICK ok \in BOOLEAN, done \in Nat :
          /\ korean_order' = Order(sell, ok, foreign_order.quantity, done)
          /\ Told(IF ok THEN -done ELSE 0, 0)
    BY <1>8 DEF SellEffect
  <2>2. foreign_order.quantity \in Nat
    BY DEF TypeOK, OrderType
  <2>3. korean_order' \in OrderType /\ VenueTypes'
    BY <2>1, <2>2, OrderTypes DEF Told
  <2> QED
    BY <1>8, <2>3 DEF SellEffect, TypeOK, VenueTypes
<1>9. CASE RetryEffect
  <2>1. VenueTypes'
    BY <1>9 DEF RetryEffect, Told
  <2>2. held_amount \in Int /\ held_amount - qty.fr \in Int
    BY DEF TypeOK
  <2>3. held_amount' \in Int
    BY <1>9, <2>2 DEF RetryEffect
  <2>4. unsaved' \in BOOLEAN
    BY <1>9, Zenon DEF RetryEffect, TypeOK
  <2>5. splits' \in Nat
    BY <1>9 DEF RetryEffect, TypeOK
  <2>6. CASE /\ tries' = tries + 1 /\ RetryLeft
             /\ UNCHANGED <<pc, queries, foreign_order, korean_order, qty, shared>>
    BY <2>1, <2>3, <2>4, <2>5, <2>6, LotAssumption DEF TypeOK, VenueTypes, RetryLeft
  <2>7. CASE pc' = "loop" /\ UNCHANGED shared /\ EndSplit
    BY <2>1, <2>3, <2>4, <2>5, <2>7, EmptyTypes, LotAssumption
      DEF EndSplit, TypeOK, VenueTypes
  <2>8. CASE (RetryStop(held_amount') \/ RetryStop(held_amount)) /\ EndSplit
    <3>1. pc' = "stopped" /\ SharedTypes'
      BY <2>2, <2>3, <2>8, StopTypes
    <3> QED
      BY <2>1, <2>3, <2>4, <2>5, <2>8, <3>1, EmptyTypes, LotAssumption
        DEF EndSplit, TypeOK, VenueTypes, SharedTypes
  <2> QED
    BY <1>9, <2>6, <2>7, <2>8 DEF RetryEffect
<1>10. ASSUME NEW leg \in {"fr", "kr"}, QueryEffect(leg) PROVE TypeOK'
  <2>1. VenueTypes' /\ foreign_order' \in OrderType /\ korean_order' \in OrderType
    BY <1>10 DEF QueryEffect, Told, TypeOK, OrderType
  <2> QED
    BY <1>10, <2>1 DEF QueryEffect, TypeOK, VenueTypes
<1>11. foreign_order.quantity \in Int /\ qty.fr \in Int
  BY DEF TypeOK, OrderType
<1> QED
  BY <1>1, <1>2, <1>3, <1>4, <1>5, <1>6, <1>7, <1>8, <1>9, <1>10, <1>11, Zenon
    DEF SplitStep

\* So does every other step.
LEMMA TypeOther ==
  ASSUME TypeOK,
         Idle \/ Begin \/ UnwindBegin \/ EntryBook \/ ExitBook \/ UnwindBook \/ ReentryBook
  PROVE  TypeOK'
<1> USE DEF shared
<1>1. CASE Idle
  BY <1>1 DEF Idle, TypeOK, local, venue, korean, foreign
<1>2. CASE Begin
  BY <1>2 DEF Begin, TypeOK, local, venue, korean, foreign
<1>3. CASE UnwindBegin
  BY <1>3 DEF UnwindBegin, TypeOK, PositionType, venue, korean, foreign
<1>4. CASE EntryBook \/ ExitBook \/ UnwindBook \/ ReentryBook
  <2>1. held_amount' \in Int
    BY <1>4 DEF EntryBook, ExitBook, UnwindBook, ReentryBook, TypeOK, Least
  <2>2. Snapshot(held_amount', held_amount') \in PositionType /\ Flat \in PositionType
    BY <2>1, SnapshotType DEF Flat, PositionType
  <2>3. [active |-> TRUE, kr |-> held_amount', fr |-> held_amount'] \in PositionType
    BY <2>1 DEF PositionType
  <2>4. tracker' \in PositionType /\ file' \in PositionType
    BY <1>4, <2>2, <2>3
      DEF EntryBook, ExitBook, UnwindBook, ReentryBook, TypeOK, persist_snapshot
  <2>5. /\ EndSplit /\ pc' = "loop" /\ splits' = splits + 1 /\ unsaved' = FALSE
        /\ UNCHANGED <<running_, entry_suppressed, venue>>
    BY <1>4 DEF EntryBook, ExitBook, UnwindBook, ReentryBook
  <2>6. unsaved' \in BOOLEAN
    BY <2>5, Zenon
  <2> QED
    BY <2>1, <2>4, <2>5, <2>6, EmptyTypes, LotAssumption
      DEF EndSplit, TypeOK, venue, korean, foreign
<1> QED
  BY <1>1, <1>2, <1>3, <1>4

\* The sizes of the orders of the two functions.
LEMMA SizeTypes ==
  ASSUME TypeOK
  PROVE  /\ next_order_size \in Int /\ next_order_size <= OrderSize
         /\ original_amount \in Int =>
              /\ reentry_size \in Int /\ reentry_size <= OrderSize
              /\ reentry_size <= original_amount - held_amount
  BY SizeAssumption DEF TypeOK, next_order_size, reentry_size, Least, Greatest

LEMMA TypeInit == Init => TypeOK
<1> SUFFICES ASSUME Init PROVE TypeOK
  OBVIOUS
<1>1. PICK p \in InitPositions :
        /\ krReal = p.kr /\ frReal = p.fr /\ held_amount = p.kr
        /\ tracker = Snapshot(p.kr, p.fr) /\ file = Snapshot(p.kr, p.fr)
  BY DEF Init
<1>2. p.kr \in Nat /\ p.fr \in Nat /\ p.kr \in Int /\ p.fr \in Int
  BY InitAssumption
<1>3. Snapshot(p.kr, p.fr) \in PositionType
  BY <1>2, SnapshotType
<1>4. unsaved \in BOOLEAN /\ running_ \in BOOLEAN /\ entry_suppressed \in BOOLEAN
  BY Zenon DEF Init
<1> QED
  BY <1>1, <1>2, <1>3, <1>4, EmptyTypes, LotAssumption DEF Init, TypeOK

\* Every step of the lifecycle loop preserves the types.
LEMMA TypeStep == ASSUME TypeOK, [Next]_vars PROVE TypeOK'
<1>1. "cover" \in Stage /\ "sell" \in Stage
  BY DEF Stage
<1>2. LoopSplit => TypeOK'
  BY <1>1, SizeTypes, TypeSplit DEF LoopSplit
<1> QED
  BY <1>2, NextCases, TypeOther

\* The types of RelayLifecycle: the loop's locals, the state it shares and
\* what the venues hold, which on the Korean side is never negative.
THEOREM TypeCorrect == Spec => []TypeOK
<1>1. Init => TypeOK
  BY TypeInit
<1>2. TypeOK /\ [Next]_vars => TypeOK'
  BY TypeStep
<1> QED
  BY <1>1, <1>2, PTL DEF Spec

\* Both functions preserve the types.
LEMMA RelayTypeStep == ASSUME RelayTypes, [RelayNext]_relayVars PROVE RelayTypes'
<1>1. "cover" \in Stage /\ "sell" \in Stage /\ "unwind_cover" \in Stage /\ "unwind_sell" \in Stage
  BY DEF Stage
<1>2. TypeOK /\ exiting \in BOOLEAN /\ original_amount \in Int
  BY DEF RelayTypes
<1>3. LoopSplit \/ ReentrySplit => TypeOK'
  BY <1>1, <1>2, SizeTypes, TypeSplit DEF LoopSplit, ReentrySplit
<1>4. TypeOK'
  BY <1>2, <1>3, RelayCases, TypeOther
<1>5. exiting' \in BOOLEAN /\ original_amount' \in Int
  BY <1>2, RelayCases DEF relay, UnwindBegin, TypeOK, PositionType
<1> QED
  BY <1>4, <1>5 DEF RelayTypes

LEMMA RelayTypeInit == RelayInit => RelayTypes
  BY TypeInit DEF RelayInit, RelayTypes

-----------------------------------------------------------------------------
(* The legs in flight.  Every split's step leaves what the loop was told   *)
(* of the venues, less the legs in flight, as it is; or it stops the bot   *)
(* and writes the legs in flight down; or it is a retried sell.            *)

Legs ==
  /\ pc \notin {"kr_buy", "entry_latch", "kr_sell", "exit_latch"} => queries = {}
  /\ pc \in {"kr_buy", "kr_sell"} =>
       queries \subseteq {"fr"} /\ foreign_order.quantity > 0
  /\ pc \in {"kr_buy", "entry_latch", "kr_sell", "exit_latch"} => ForeignLeg
  /\ pc = "entry_latch" => korean_order.stage = "buy"
  /\ pc = "exit_latch" => korean_order.stage # "buy"
  /\ pc \in {"entry_latch", "exit_latch"} => Known(korean_order, "kr")

InFr ==
  IF pc = "min_guard" THEN foreign_order.quantity
  ELSE IF pc \in {"kr_buy", "entry_latch"} THEN foreign_order.done
  ELSE IF pc \in {"entry_rollback", "entry_cmp", "entry_hedged"} THEN qty.fr
  ELSE IF pc \in {"kr_sell", "exit_latch"} THEN -foreign_order.done
  ELSE IF pc \in {"sell_retry", "exit_cmp", "exit_hedged"} THEN -qty.fr
  ELSE 0

InKr ==
  IF pc = "entry_latch" THEN Counted(korean_order)
  ELSE IF pc \in {"entry_cmp", "entry_hedged"} THEN qty.kr
  ELSE IF pc = "exit_latch" THEN -Counted(korean_order)
  ELSE IF pc \in {"exit_cmp", "exit_hedged"} THEN -qty.kr
  ELSE 0

Quiet ==
  /\ krTold' - InKr' = krTold - InKr
  /\ frTold' - InFr' = frTold - InFr
  /\ UNCHANGED <<held_amount, splits, unsaved, shared>>
  /\ pc \notin {"call", "refused", "done", "stopped"}
  /\ pc' \notin {"call", "refused", "done", "stopped"}

Stopped ==
  /\ UNCHANGED <<held_amount, splits, unsaved>>
  /\ krTold' = krTold /\ frTold' = frTold
  /\ pc \notin {"call", "refused", "done", "stopped"} /\ pc' = "stopped"
  /\ \E kr \in Int, fr \in Int :
       /\ file' = Snapshot(kr, fr)
       /\ Greatest(0, kr) = Greatest(0, held_amount + InKr)
       /\ Greatest(0, fr) = Greatest(0, held_amount + InFr)

RetryBooked ==
  /\ pc = "sell_retry"
  /\ held_amount' = held_amount - qty.fr
  /\ splits' = splits + 1 /\ unsaved' = TRUE
  /\ krTold' = krTold - qty.fr /\ frTold' = frTold
  /\ \/ pc' = "loop" /\ UNCHANGED shared
     \/ /\ KoreanExchange = "Upbit" /\ May("retry", "restated")
        /\ RetryStop(held_amount')

Accounted == Quiet \/ Stopped \/ RetryBooked

\* The legs in flight are integers.
LEMMA InFlightTypes ==
  ASSUME TypeOK PROVE InFr \in Int /\ InKr \in Int
<1>1. /\ foreign_order.quantity \in Nat /\ foreign_order.done \in Nat
      /\ qty.fr \in Int /\ qty.kr \in Int /\ korean_order.done \in Nat
  BY DEF TypeOK, OrderType
<1>2. Counted(korean_order) \in Nat
  BY <1>1 DEF Counted
<1> QED
  BY <1>1, <1>2 DEF InFr, InKr

\* What the loop makes of an Order with a final report.
LEMMA Resolved ==
  ASSUME NEW o \in OrderType, NEW leg, Known(o, leg), leg \notin queries, o.ok
  PROVE  resolved_fill_quantity(o) = o.done
  BY DEF Known, resolved_fill_quantity, OrderType

\* A critical stop at which the legs in flight are written down.
LEMMA StopAccounted ==
  ASSUME TypeOK, NEW kr \in Int, NEW fr \in Int,
         trigger_critical_stop(Snapshot(kr, fr)), Told(0, 0),
         UNCHANGED <<held_amount, splits, unsaved>>,
         pc \notin {"call", "refused", "done", "stopped"},
         Greatest(0, kr) = Greatest(0, held_amount + InKr),
         Greatest(0, fr) = Greatest(0, held_amount + InFr)
  PROVE  Stopped
<1>1. krTold \in Int /\ frTold \in Int
  BY VenueTyped, ToldTypes
<1>2. krTold' = krTold /\ frTold' = frTold
  BY <1>1 DEF Told
<1>3. pc' = "stopped" /\ file' = Snapshot(kr, fr)
  BY DEF trigger_critical_stop, persist_snapshot
<1> QED
  BY <1>2, <1>3, Zenon DEF Stopped

\* After a stop, and between two splits, no leg is in flight.
LEMMA LegsAtRest ==
  ASSUME queries = {}, pc \in {"call", "refused", "loop", "done", "stopped"}
  PROVE  Legs /\ InFr = 0 /\ InKr = 0
  BY DEF Legs, InFr, InKr

LEMMA LegsShort ==
  ASSUME TypeOK, Legs, NEW size \in Int, ShortEffect(size)
  PROVE  Legs' /\ Quiet
<1>1. PICK q \in Nat, done \in Nat :
        /\ 0 < q /\ 0 < done
        /\ \/ UNCHANGED <<pc, queries, foreign_order>> /\ Told(0, 0)
           \/ /\ pc' = "min_guard" /\ UNCHANGED queries
              /\ foreign_order' = Order("short", TRUE, q, done) /\ Told(0, q)
           \/ /\ pc' = "kr_buy" /\ queries' = {"fr"}
              /\ foreign_order' = Order("short", TRUE, q, done) /\ Told(0, done)
  BY DEF ShortEffect
<1>2. /\ pc = "loop"
      /\ UNCHANGED <<held_amount, korean_order, qty, splits, unsaved, shared>>
  BY DEF ShortEffect
<1>3. queries = {} /\ InFr = 0 /\ InKr = 0
  BY <1>2 DEF Legs, InFr, InKr
<1>4. krTold \in Int /\ frTold \in Int
  BY VenueTyped, ToldTypes
<1>5. CASE UNCHANGED <<pc, queries, foreign_order>> /\ Told(0, 0)
  <2>1. Legs' /\ InFr' = 0 /\ InKr' = 0
    BY <1>2, <1>3, <1>5 DEF Legs, InFr, InKr
  <2> QED
    BY <1>2, <1>3, <1>4, <1>5, <2>1 DEF Quiet, Told
<1>6. CASE /\ pc' = "min_guard" /\ UNCHANGED queries
           /\ foreign_order' = Order("short", TRUE, q, done) /\ Told(0, q)
  <2>1. Legs' /\ InFr' = q /\ InKr' = 0
    BY <1>2, <1>3, <1>6 DEF Legs, InFr, InKr, Order
  <2> QED
    BY <1>2, <1>3, <1>4, <1>6, <2>1 DEF Quiet, Told
<1>7. CASE /\ pc' = "kr_buy" /\ queries' = {"fr"}
           /\ foreign_order' = Order("short", TRUE, q, done) /\ Told(0, done)
  <2>1. InFr' = done /\ InKr' = 0
    BY <1>7 DEF InFr, InKr, Order
  <2>2. /\ foreign_order'.ok /\ foreign_order'.done = done
        /\ foreign_order'.quantity = q /\ foreign_order'.filled_quantity = 0
    BY <1>7 DEF Order
  <2>3. ForeignLeg'
    BY <1>1, <1>7, <2>2 DEF ForeignLeg, Known
  <2>4. Legs'
    BY <1>1, <1>7, <2>2, <2>3 DEF Legs
  <2> QED
    BY <1>2, <1>3, <1>4, <1>7, <2>1, <2>4 DEF Quiet, Told
<1> QED
  BY <1>1, <1>5, <1>6, <1>7

LEMMA LegsRollback ==
  ASSUME TypeOK, NEW q \in Int, RollbackEffect(q), InFr = q, InKr = 0,
         pc \in {"min_guard", "entry_rollback"}
  PROVE  Legs' /\ (Quiet \/ Stopped)
<1>1. queries' = {}
  BY DEF RollbackEffect, EndSplit
<1>2. krTold \in Int /\ frTold \in Int /\ held_amount \in Int
  BY VenueTyped, ToldTypes DEF TypeOK
<1>3. CASE pc' = "loop" /\ UNCHANGED shared /\ Told(0, -q)
  <2>1. Legs' /\ InFr' = 0 /\ InKr' = 0
    BY <1>1, <1>3 DEF Legs, InFr, InKr
  <2> QED
    BY <1>2, <1>3, <2>1 DEF Quiet, Told, RollbackEffect
<1>4. CASE /\ trigger_critical_stop(Snapshot(held_amount, held_amount + q))
           /\ Told(0, 0)
  <2>1. pc' = "stopped"
    BY <1>4 DEF trigger_critical_stop
  <2>2. Legs'
    BY <1>1, <2>1 DEF Legs
  <2>3. held_amount + InKr = held_amount /\ held_amount + InFr = held_amount + q
    BY <1>2
  <2>4. Stopped
    BY <1>2, <1>4, <2>3, StopAccounted DEF RollbackEffect
  <2> QED
    BY <2>2, <2>4
<1> QED
  BY <1>3, <1>4 DEF RollbackEffect

LEMMA LegsBuy == ASSUME TypeOK, Legs, BuyEffect PROVE Legs' /\ Quiet
<1>1. PICK ok \in BOOLEAN, done \in Nat :
        /\ ok /\ foreign_order.quantity > 0 => done > 0
        /\ korean_order' = Order("buy", ok, buy_order_quantity, done)
        /\ Told(IF ok THEN done ELSE 0, 0)
  BY DEF BuyEffect
<1>2. /\ pc = "kr_buy" /\ pc' = "entry_latch" /\ queries' = queries \cup {"kr"}
      /\ UNCHANGED <<held_amount, foreign_order, qty, splits, unsaved, shared>>
  BY DEF BuyEffect
<1>3. /\ korean_order'.ok = ok /\ korean_order'.done = done
      /\ korean_order'.stage = "buy" /\ korean_order'.filled_quantity = 0
  BY <1>1 DEF Order
<1>4. foreign_order.quantity > 0 /\ ForeignLeg
  BY <1>2 DEF Legs
<1>5. Known(korean_order, "kr")'
  BY <1>1, <1>2, <1>3, <1>4 DEF Known
<1>6. ForeignLeg'
  BY <1>2, <1>4 DEF ForeignLeg, Known
<1>7. Legs'
  BY <1>2, <1>3, <1>5, <1>6 DEF Legs
<1>8. InKr' = (IF ok THEN done ELSE 0) /\ InKr = 0
  BY <1>2, <1>3 DEF InKr, Counted
<1>9. InFr' = foreign_order.done /\ InFr = foreign_order.done /\ foreign_order.done \in Int
  BY <1>2 DEF InFr, TypeOK, OrderType
<1>10. krTold \in Int /\ frTold \in Int
  BY VenueTyped, ToldTypes
<1> QED
  BY <1>1, <1>2, <1>7, <1>8, <1>9, <1>10 DEF Quiet, Told

LEMMA LegsSell ==
  ASSUME TypeOK, Legs, NEW stage, stage # "buy", SellEffect(stage)
  PROVE  Legs' /\ Quiet
<1>1. PICK ok \in BOOLEAN, done \in Nat :
        /\ ok /\ foreign_order.quantity > 0 => done > 0
        /\ korean_order' = Order(stage, ok, foreign_order.quantity, done)
        /\ Told(IF ok THEN -done ELSE 0, 0)
  BY DEF SellEffect
<1>2. /\ pc = "kr_sell" /\ pc' = "exit_latch" /\ queries' = queries \cup {"kr"}
      /\ UNCHANGED <<held_amount, foreign_order, qty, splits, unsaved, shared>>
  BY DEF SellEffect
<1>3. /\ korean_order'.ok = ok /\ korean_order'.done = done
      /\ korean_order'.stage = stage /\ korean_order'.filled_quantity = 0
  BY <1>1 DEF Order
<1>4. foreign_order.quantity > 0 /\ ForeignLeg
  BY <1>2 DEF Legs
<1>5. Known(korean_order, "kr")'
  BY <1>1, <1>2, <1>3, <1>4 DEF Known
<1>6. ForeignLeg'
  BY <1>2, <1>4 DEF ForeignLeg, Known
<1>7. Legs'
  BY <1>2, <1>3, <1>5, <1>6 DEF Legs
<1>8. InKr' = (IF ok THEN -done ELSE 0) /\ InKr = 0
  BY <1>2, <1>3 DEF InKr, Counted
<1>9. InFr' = -foreign_order.done /\ InFr = -foreign_order.done /\ foreign_order.done \in Int
  BY <1>2 DEF InFr, TypeOK, OrderType
<1>10. krTold \in Int /\ frTold \in Int
  BY VenueTyped, ToldTypes
<1> QED
  BY <1>1, <1>2, <1>7, <1>8, <1>9, <1>10 DEF Quiet, Told

LEMMA LegsCover ==
  ASSUME TypeOK, Legs, NEW stage, CoverEffect(stage)
  PROVE  Legs' /\ Quiet
<1>1. /\ pc = "loop"
      /\ UNCHANGED <<held_amount, korean_order, qty, splits, unsaved, shared>>
  BY DEF CoverEffect
<1>2. queries = {} /\ InFr = 0 /\ InKr = 0
  BY <1>1 DEF Legs, InFr, InKr
<1>3. krTold \in Int /\ frTold \in Int
  BY VenueTyped, ToldTypes
<1>4. CASE UNCHANGED <<pc, queries, foreign_order>> /\ Told(0, 0)
  <2>1. Legs' /\ InFr' = 0 /\ InKr' = 0
    BY <1>1, <1>2, <1>4 DEF Legs, InFr, InKr
  <2> QED
    BY <1>1, <1>2, <1>3, <1>4, <2>1 DEF Quiet, Told
<1>5. ASSUME NEW q \in Nat, NEW done \in Nat, 0 < q, 0 < done,
             pc' = "kr_sell", queries' = {"fr"},
             foreign_order' = Order(stage, TRUE, q, done), Told(0, -done)
      PROVE  Legs' /\ Quiet
  <2>1. InFr' = -done /\ InKr' = 0
    BY <1>5 DEF InFr, InKr, Order
  <2>2. /\ foreign_order'.ok /\ foreign_order'.done = done
        /\ foreign_order'.quantity = q /\ foreign_order'.filled_quantity = 0
    BY <1>5 DEF Order
  <2>3. ForeignLeg'
    BY <1>5, <2>2 DEF ForeignLeg, Known
  <2>4. Legs'
    BY <1>5, <2>2, <2>3 DEF Legs
  <2> QED
    BY <1>1, <1>2, <1>3, <1>5, <2>1, <2>4 DEF Quiet, Told
<1> QED
  BY <1>4, <1>5 DEF CoverEffect, CoverFill

LEMMA LegsLatch ==
  ASSUME TypeOK, Legs, EntryLatch \/ ExitLatch PROVE Legs' /\ Quiet
<1> DEFINE f == resolved_fill_quantity(foreign_order)
           k == resolved_fill_quantity(korean_order)
<1>1. /\ pc \in {"entry_latch", "exit_latch"} /\ queries = {}
      /\ qty' = [fr |-> f, kr |-> k]
      /\ pc = "entry_latch" => pc' = IF korean_order.ok THEN "entry_cmp" ELSE "entry_rollback"
      /\ pc = "exit_latch" => pc' = IF korean_order.ok THEN "exit_cmp" ELSE "sell_retry"
      /\ UNCHANGED <<queries, held_amount, splits, unsaved, shared, venue>>
  BY DEF EntryLatch, ExitLatch, LatchOpen
<1>2. foreign_order \in OrderType /\ korean_order \in OrderType
  BY DEF TypeOK
<1>3. f = foreign_order.done
  BY <1>1, <1>2, Resolved DEF Legs, ForeignLeg
<1>4. korean_order.ok => k = korean_order.done
  BY <1>1, <1>2, Resolved DEF Legs
<1>5. foreign_order.done \in Int /\ korean_order.done \in Int /\ korean_order.ok \in BOOLEAN
  BY <1>2 DEF OrderType
<1>6. krTold' = krTold /\ frTold' = frTold /\ krTold \in Int /\ frTold \in Int
  BY <1>1, VenueTyped, ToldTypes DEF venue, korean, foreign, krTold, frTold
<1>7. qty'.fr = f /\ qty'.kr = k
  BY <1>1
<1> HIDE DEF f, k
<1>8. CASE pc = "entry_latch"
  <2>1. CASE korean_order.ok
    <3>1. pc' = "entry_cmp"
      BY <1>1, <1>8, <2>1
    <3>2. InFr' = f /\ InKr' = k /\ InFr = foreign_order.done /\ InKr = korean_order.done
      BY <1>7, <1>8, <2>1, <3>1 DEF InFr, InKr, Counted
    <3> QED
      BY <1>1, <1>3, <1>4, <1>5, <1>6, <2>1, <3>1, <3>2 DEF Quiet, Legs
  <2>2. CASE ~korean_order.ok
    <3>1. pc' = "entry_rollback"
      BY <1>1, <1>8, <2>2
    <3>2. InFr' = f /\ InKr' = 0 /\ InFr = foreign_order.done /\ InKr = 0
      BY <1>7, <1>8, <2>2, <3>1 DEF InFr, InKr, Counted
    <3> QED
      BY <1>1, <1>3, <1>5, <1>6, <2>2, <3>1, <3>2 DEF Quiet, Legs
  <2> QED
    BY <2>1, <2>2
<1>9. CASE pc = "exit_latch"
  <2>1. CASE korean_order.ok
    <3>1. pc' = "exit_cmp"
      BY <1>1, <1>9, <2>1
    <3>2. InFr' = -f /\ InKr' = -k /\ InFr = -foreign_order.done /\ InKr = -korean_order.done
      BY <1>7, <1>9, <2>1, <3>1 DEF InFr, InKr, Counted
    <3> QED
      BY <1>1, <1>3, <1>4, <1>5, <1>6, <2>1, <3>1, <3>2 DEF Quiet, Legs
  <2>2. CASE ~korean_order.ok
    <3>1. pc' = "sell_retry"
      BY <1>1, <1>9, <2>2
    <3>2. InFr' = -f /\ InKr' = 0 /\ InFr = -foreign_order.done /\ InKr = -0
      <4>1. Counted(korean_order) = 0
        BY <2>2 DEF Counted
      <4>2. InKr = -0
        BY <1>9, <4>1 DEF InKr
      <4> QED
        BY <1>7, <1>9, <3>1, <4>2 DEF InFr, InKr
    <3> QED
      BY <1>1, <1>3, <1>5, <1>6, <2>2, <3>1, <3>2 DEF Quiet, Legs
  <2> QED
    BY <2>1, <2>2
<1> QED
  BY <1>1, <1>8, <1>9

LEMMA LegsEntryFix ==
  ASSUME TypeOK, Legs, HonestVenues, EntryFixForeign \/ EntryFixKorean
  PROVE  Legs' /\ (Quiet \/ Stopped)
<1>1. /\ pc = "entry_cmp" /\ FixUnchanged
      /\ qty.fr \in Int /\ qty.kr \in Int /\ held_amount \in Int
  BY DEF EntryFixForeign, EntryFixKorean, TypeOK
<1>2. InFr = qty.fr /\ InKr = qty.kr /\ queries = {}
  BY <1>1 DEF InFr, InKr, Legs
<1>3. krTold \in Int /\ frTold \in Int
  BY VenueTyped, ToldTypes
<1>4. CASE EntryStop /\ Told(0, 0)
  <2>1. pc' = "stopped"
    BY <1>4 DEF EntryStop, trigger_critical_stop
  <2>2. Legs'
    BY <1>1, <1>2, <2>1 DEF Legs, FixUnchanged
  <2>3. Stopped
    BY <1>1, <1>2, <1>4, StopAccounted DEF EntryStop, FixUnchanged
  <2> QED
    BY <2>2, <2>3
<1>5. ASSUME NEW fr \in Int, NEW kr \in Int, qty' = [fr |-> qty.fr + fr, kr |-> qty.kr + kr],
             pc' = "entry_hedged", UNCHANGED shared, Told(kr, fr)
      PROVE  Legs' /\ Quiet
  <2>1. InFr' = qty.fr + fr /\ InKr' = qty.kr + kr
    BY <1>5 DEF InFr, InKr
  <2>2. Legs'
    BY <1>1, <1>2, <1>5 DEF Legs, FixUnchanged
  <2> QED
    BY <1>1, <1>2, <1>3, <1>5, <2>1, <2>2 DEF Quiet, Told, FixUnchanged
<1>6. CASE EntryFixForeign /\ pc' = "entry_hedged"
  <2>1. PICK done \in Nat :
          /\ qty' = [fr |-> qty.fr - done, kr |-> qty.kr]
          /\ pc' = "entry_hedged" /\ UNCHANGED shared /\ Told(0, -done)
    BY <1>6 DEF EntryFixForeign, EntryStop, trigger_critical_stop
  <2>2. /\ qty.kr = qty.kr + 0 /\ qty.fr - done = qty.fr + (-done)
        /\ 0 \in Int /\ -done \in Int
    BY <1>1
  <2> QED
    BY <1>5, <2>1, <2>2
<1>7. CASE EntryFixKorean /\ pc' = "entry_hedged"
  <2>1. PICK done \in Nat :
          /\ qty' = [fr |-> qty.fr, kr |-> qty.kr - done]
          /\ pc' = "entry_hedged" /\ UNCHANGED shared /\ Told(-done, 0)
    BY <1>7 DEF EntryFixKorean, EntryStop, trigger_critical_stop
  <2>2. /\ qty.fr = qty.fr + 0 /\ qty.kr - done = qty.kr + (-done)
        /\ 0 \in Int /\ -done \in Int
    BY <1>1
  <2> QED
    BY <1>5, <2>1, <2>2
<1> QED
  BY <1>4, <1>6, <1>7 DEF EntryFixForeign, EntryFixKorean

LEMMA LegsExitFix ==
  ASSUME TypeOK, Legs, HonestVenues, ExitFixForeign \/ ExitFixKorean
  PROVE  Legs' /\ (Quiet \/ Stopped)
<1>1. /\ pc = "exit_cmp" /\ FixUnchanged
      /\ qty.fr \in Int /\ qty.kr \in Int /\ held_amount \in Int
  BY DEF ExitFixForeign, ExitFixKorean, TypeOK
<1>2. InFr = -qty.fr /\ InKr = -qty.kr /\ queries = {}
  BY <1>1 DEF InFr, InKr, Legs
<1>3. krTold \in Int /\ frTold \in Int
  BY VenueTyped, ToldTypes
<1>4. CASE ExitStop /\ Told(0, 0)
  <2>1. pc' = "stopped"
    BY <1>4 DEF ExitStop, trigger_critical_stop
  <2>2. Legs'
    BY <1>1, <1>2, <2>1 DEF Legs, FixUnchanged
  <2>3. /\ Greatest(0, held_amount - qty.kr) \in Int
        /\ Greatest(0, held_amount - qty.fr) \in Int
        /\ Greatest(0, Greatest(0, held_amount - qty.kr)) = Greatest(0, held_amount + InKr)
        /\ Greatest(0, Greatest(0, held_amount - qty.fr)) = Greatest(0, held_amount + InFr)
    BY <1>1, <1>2 DEF Greatest
  <2>4. Stopped
    BY <1>1, <1>4, <2>3, StopAccounted DEF ExitStop, FixUnchanged
  <2> QED
    BY <2>2, <2>4
<1>5. ASSUME NEW fr \in Int, NEW kr \in Int, qty' = [fr |-> qty.fr - fr, kr |-> qty.kr - kr],
             pc' = "exit_hedged", UNCHANGED shared, Told(kr, fr)
      PROVE  Legs' /\ Quiet
  <2>1. InFr' = -(qty.fr - fr) /\ InKr' = -(qty.kr - kr)
    BY <1>5 DEF InFr, InKr
  <2>2. Legs'
    BY <1>1, <1>2, <1>5 DEF Legs, FixUnchanged
  <2> QED
    BY <1>1, <1>2, <1>3, <1>5, <2>1, <2>2 DEF Quiet, Told, FixUnchanged
<1>6. CASE ExitFixForeign /\ pc' = "exit_hedged"
  <2>1. PICK done \in Nat :
          /\ qty' = [fr |-> qty.fr + done, kr |-> qty.kr]
          /\ pc' = "exit_hedged" /\ UNCHANGED shared /\ Told(0, -done)
    BY <1>6 DEF ExitFixForeign, ExitStop, trigger_critical_stop
  <2>2. /\ qty.kr = qty.kr - 0 /\ qty.fr + done = qty.fr - (-done)
        /\ 0 \in Int /\ -done \in Int
    BY <1>1
  <2> QED
    BY <1>5, <2>1, <2>2
<1>7. CASE ExitFixKorean /\ pc' = "exit_hedged"
  <2>1. PICK done \in Nat :
          /\ qty' = [fr |-> qty.fr, kr |-> qty.kr + done]
          /\ pc' = "exit_hedged" /\ UNCHANGED shared /\ Told(-done, 0)
    BY <1>7 DEF ExitFixKorean, ExitStop, trigger_critical_stop
  <2>2. /\ qty.fr = qty.fr - 0 /\ qty.kr + done = qty.kr - (-done)
        /\ 0 \in Int /\ -done \in Int
    BY <1>1
  <2> QED
    BY <1>5, <2>1, <2>2
<1> QED
  BY <1>4, <1>6, <1>7 DEF ExitFixForeign, ExitFixKorean

LEMMA LegsMismatch ==
  ASSUME TypeOK, Legs, EntryStillMismatched \/ ExitStillMismatched
  PROVE  Legs' /\ Stopped
<1>1. qty.fr \in Int /\ qty.kr \in Int /\ held_amount \in Int
  BY DEF TypeOK
<1>2. UNCHANGED <<queries, held_amount, splits, unsaved, venue>>
  BY DEF EntryStillMismatched, ExitStillMismatched, local
<1>3. pc' = "stopped" /\ pc \in {"entry_hedged", "exit_hedged"}
  BY DEF EntryStillMismatched, ExitStillMismatched, EntryStop, ExitStop,
     trigger_critical_stop
<1>4. Legs'
  BY <1>2, <1>3 DEF Legs
<1>5. Told(0, 0)
  BY <1>2, VenueTyped, VenueSame
<1>6. CASE EntryStillMismatched
  <2>1. InFr = qty.fr /\ InKr = qty.kr
    BY <1>6 DEF InFr, InKr, EntryStillMismatched
  <2>2. Stopped
    BY <1>1, <1>2, <1>3, <1>5, <1>6, <2>1, StopAccounted DEF EntryStop, EntryStillMismatched
  <2> QED
    BY <1>4, <2>2
<1>7. CASE ExitStillMismatched
  <2>1. InFr = -qty.fr /\ InKr = -qty.kr
    BY <1>7 DEF InFr, InKr, ExitStillMismatched
  <2>2. /\ Greatest(0, held_amount - qty.kr) \in Int
        /\ Greatest(0, held_amount - qty.fr) \in Int
        /\ Greatest(0, Greatest(0, held_amount - qty.kr)) = Greatest(0, held_amount + InKr)
        /\ Greatest(0, Greatest(0, held_amount - qty.fr)) = Greatest(0, held_amount + InFr)
    BY <1>1, <2>1 DEF Greatest
  <2>3. Stopped
    BY <1>2, <1>3, <1>5, <1>7, <2>2, StopAccounted DEF ExitStop, ExitStillMismatched
  <2> QED
    BY <1>4, <2>3
<1> QED
  BY <1>6, <1>7

LEMMA LegsRetry ==
  ASSUME TypeOK, Legs, RetryEffect
  PROVE  Legs' /\ (Quiet \/ Stopped \/ RetryBooked)
<1>1. pc = "sell_retry" /\ qty.fr \in Int /\ held_amount \in Int
  BY DEF RetryEffect, TypeOK
<1>2. InFr = -qty.fr /\ InKr = 0 /\ queries = {}
  BY <1>1 DEF InFr, InKr, Legs
<1>3. krTold \in Int /\ frTold \in Int
  BY VenueTyped, ToldTypes
<1>4. CASE /\ held_amount' = held_amount - qty.fr
           /\ splits' = splits + 1 /\ unsaved' = TRUE
           /\ EndSplit /\ Told(-qty.fr, 0)
           /\ \/ pc' = "loop" /\ UNCHANGED shared
              \/ /\ KoreanExchange = "Upbit" /\ May("retry", "restated")
                 /\ RetryStop(held_amount')
  <2>1. pc' \in {"loop", "stopped"} /\ queries' = {}
    BY <1>4 DEF EndSplit, RetryStop, trigger_critical_stop
  <2>2. Legs'
    BY <2>1 DEF Legs
  <2>3. krTold' = krTold - qty.fr /\ frTold' = frTold
    BY <1>1, <1>3, <1>4 DEF Told
  <2>4. RetryBooked
    BY <1>1, <1>4, <2>3, Zenon DEF RetryBooked
  <2> QED
    BY <2>2, <2>4
<1>5. CASE /\ tries' = tries + 1 /\ RetryLeft /\ Told(0, 0)
           /\ UNCHANGED <<pc, queries, held_amount, foreign_order, korean_order,
                          qty, splits, unsaved, shared>>
  <2>1. Legs'
    BY <1>1, <1>2, <1>5 DEF Legs
  <2>2. InFr' = -qty.fr /\ InKr' = 0
    BY <1>1, <1>5 DEF InFr, InKr
  <2> QED
    BY <1>1, <1>2, <1>3, <1>5, <2>1, <2>2 DEF Quiet, Told
<1>6. CASE /\ RetryStop(held_amount) /\ EndSplit /\ Told(0, 0)
           /\ UNCHANGED <<held_amount, splits, unsaved>>
  <2>1. pc' = "stopped" /\ queries' = {}
    BY <1>6 DEF EndSplit, RetryStop, trigger_critical_stop
  <2>2. Legs'
    BY <2>1 DEF Legs
  <2>3. /\ Greatest(0, held_amount - qty.fr) \in Int
        /\ Greatest(0, held_amount) = Greatest(0, held_amount + InKr)
        /\ Greatest(0, Greatest(0, held_amount - qty.fr)) = Greatest(0, held_amount + InFr)
    BY <1>1, <1>2 DEF Greatest
  <2>4. Stopped
    BY <1>1, <1>6, <2>3, StopAccounted DEF RetryStop
  <2> QED
    BY <2>2, <2>4
<1> QED
  BY <1>4, <1>5, <1>6 DEF RetryEffect

LEMMA LegsQuery ==
  ASSUME TypeOK, Legs, HonestVenues, NEW leg \in {"fr", "kr"}, QueryEffect(leg)
  PROVE  Legs' /\ Quiet
<1>1. /\ leg \in queries /\ queries' = queries \ {leg}
      /\ UNCHANGED <<pc, held_amount, qty, splits, unsaved, shared>>
  BY DEF QueryEffect
<1>2. /\ krTold \in Int /\ frTold \in Int
      /\ pc \in {"kr_buy", "entry_latch", "kr_sell", "exit_latch"}
  BY <1>1, VenueTyped, ToldTypes DEF Legs
<1>3. foreign_order \in OrderType /\ korean_order \in OrderType
  BY DEF TypeOK
<1>4. InFr \in Int /\ InKr \in Int
  BY InFlightTypes
<1>5. CASE leg = "fr"
  <2>1. PICK f \in Nat :
          /\ Told(0, 0) /\ UNCHANGED korean_order
          /\ foreign_order' = [foreign_order EXCEPT !.filled_quantity = f]
          /\ foreign_order.ok => f = foreign_order.done
    BY <1>5 DEF QueryEffect
  <2>2. /\ foreign_order'.ok = foreign_order.ok
        /\ foreign_order'.done = foreign_order.done
        /\ foreign_order'.quantity = foreign_order.quantity
        /\ foreign_order'.filled_quantity = f
    BY <1>3, <2>1 DEF OrderType
  <2>3. InFr' = InFr /\ InKr' = InKr
    BY <1>1, <2>1, <2>2 DEF InFr, InKr, Counted
  <2>4. ForeignLeg => ForeignLeg'
    BY <2>1, <2>2 DEF ForeignLeg, Known
  <2>5. Known(korean_order, "kr") => Known(korean_order, "kr")'
    BY <1>1, <1>5, <2>1 DEF Known
  <2>6. Legs'
    BY <1>1, <1>2, <2>1, <2>2, <2>4, <2>5 DEF Legs
  <2> QED
    BY <1>1, <1>2, <1>4, <2>1, <2>3, <2>6 DEF Quiet, Told
<1>6. CASE leg = "kr"
  <2>1. pc \in {"entry_latch", "exit_latch"}
    BY <1>1, <1>2, <1>6 DEF Legs
  <2>2. /\ ForeignLeg /\ Known(korean_order, "kr")
        /\ pc = "entry_latch" <=> korean_order.stage = "buy"
    BY <2>1 DEF Legs
  <2>3. UNCHANGED foreign_order
    BY <1>6 DEF QueryEffect
  <2>4. ForeignLeg'
    BY <1>1, <1>6, <2>2, <2>3 DEF ForeignLeg, Known
  <2>5. InFr' = InFr
    BY <1>1, <2>3 DEF InFr
  <2>6. korean_order.done \in Int
    BY <1>3 DEF OrderType
  <2>7. CASE \E f \in Nat :
               /\ Told(0, 0)
               /\ korean_order' = [korean_order EXCEPT !.filled_quantity = f]
               /\ korean_order.ok => f = korean_order.done
    <3>1. PICK f \in Nat :
            /\ Told(0, 0)
            /\ korean_order' = [korean_order EXCEPT !.filled_quantity = f]
            /\ korean_order.ok => f = korean_order.done
      BY <2>7
    <3>2. /\ korean_order'.ok = korean_order.ok
          /\ korean_order'.done = korean_order.done
          /\ korean_order'.stage = korean_order.stage
          /\ korean_order'.filled_quantity = f
      BY <1>3, <3>1 DEF OrderType
    <3>3. Known(korean_order, "kr")'
      BY <2>2, <3>1, <3>2 DEF Known
    <3>4. InKr' = InKr
      BY <1>1, <3>2 DEF InKr, Counted
    <3>5. Legs'
      BY <1>1, <2>1, <2>2, <2>4, <3>2, <3>3 DEF Legs
    <3> QED
      BY <1>1, <1>2, <1>4, <2>5, <3>1, <3>4, <3>5 DEF Quiet, Told
  <2>8. CASE /\ korean_order.ok
             /\ \E f \in Nat : korean_order' = [korean_order EXCEPT
                                                  !.filled_quantity = f, !.ok = FALSE]
             /\ Told(IF korean_order.stage = "buy" THEN -korean_order.done
                                                   ELSE korean_order.done, 0)
    <3>1. /\ ~korean_order'.ok /\ korean_order'.stage = korean_order.stage
      BY <1>3, <2>8 DEF OrderType
    <3>2. Known(korean_order, "kr")'
      BY <3>1 DEF Known
    <3>3. Legs'
      BY <1>1, <2>1, <2>2, <2>4, <3>1, <3>2 DEF Legs
    <3>4. Counted(korean_order) = korean_order.done /\ Counted(korean_order)' = 0
      BY <2>8, <3>1 DEF Counted
    <3>5. CASE pc = "entry_latch"
      <4>1. InKr = korean_order.done /\ InKr' = 0
        BY <1>1, <3>4, <3>5 DEF InKr
      <4>2. Told(-korean_order.done, 0)
        BY <2>2, <2>8, <3>5
      <4> QED
        BY <1>1, <1>2, <1>4, <2>5, <2>6, <3>3, <3>5, <4>1, <4>2 DEF Quiet, Told
    <3>6. CASE pc = "exit_latch"
      <4>1. InKr = -korean_order.done /\ InKr' = -0
        BY <1>1, <3>4, <3>6 DEF InKr
      <4>2. Told(korean_order.done, 0)
        BY <2>2, <2>8, <3>6
      <4> QED
        BY <1>1, <1>2, <1>4, <2>5, <2>6, <3>3, <3>6, <4>1, <4>2 DEF Quiet, Told
    <3> QED
      BY <2>1, <3>5, <3>6
  <2> QED
    BY <1>6, <2>7, <2>8 DEF QueryEffect
<1> QED
  BY <1>5, <1>6

\* The accounting of a split, step by step.
LEMMA LegsStep ==
  ASSUME TypeOK, Legs, HonestVenues, NEW size \in Int, NEW cover, NEW sell, sell # "buy",
         SplitStep(size, cover, sell)
  PROVE  Legs' /\ Accounted
<1>1. foreign_order.quantity \in Int /\ qty.fr \in Int /\ qty.kr \in Int
  BY DEF TypeOK, OrderType
<1>2. CASE ShortEffect(size)
  BY <1>2, LegsShort DEF Accounted
<1>3. CASE pc = "min_guard" /\ RollbackEffect(foreign_order.quantity)
  <2>1. InFr = foreign_order.quantity /\ InKr = 0
    BY <1>3 DEF InFr, InKr
  <2> QED
    BY <1>1, <1>3, <2>1, LegsRollback DEF Accounted
<1>4. CASE pc = "entry_rollback" /\ RollbackEffect(qty.fr)
  <2>1. InFr = qty.fr /\ InKr = 0
    BY <1>4 DEF InFr, InKr
  <2> QED
    BY <1>1, <1>4, <2>1, LegsRollback DEF Accounted
<1>5. CASE BuyEffect \/ EntryLatch \/ ExitLatch \/ CoverEffect(cover) \/ SellEffect(sell)
  BY <1>5, LegsBuy, LegsLatch, LegsCover, LegsSell DEF Accounted
<1>6. CASE EntryFixForeign \/ EntryFixKorean
  BY <1>6, LegsEntryFix DEF Accounted
<1>7. CASE ExitFixForeign \/ ExitFixKorean
  BY <1>7, LegsExitFix DEF Accounted
<1>8. CASE EntryStillMismatched \/ ExitStillMismatched
  BY <1>8, LegsMismatch DEF Accounted
<1>9. CASE RetryEffect
  BY <1>9, LegsRetry DEF Accounted
<1>10. CASE \E leg \in {"fr", "kr"} : QueryEffect(leg)
  BY <1>10, LegsQuery DEF Accounted
<1> QED
  BY <1>2, <1>3, <1>4, <1>5, <1>6, <1>7, <1>8, <1>9, <1>10 DEF SplitStep

\* A booking ends the split.
LEMMA LegsBook ==
  ASSUME EntryBook \/ ExitBook \/ UnwindBook \/ ReentryBook
  PROVE  /\ Legs' /\ InFr' = 0 /\ InKr' = 0 /\ pc' = "loop"
         /\ krTold' = krTold /\ frTold' = frTold /\ splits' = splits + 1
<1>1. queries' = {} /\ pc' = "loop" /\ UNCHANGED venue /\ splits' = splits + 1
  BY DEF EntryBook, ExitBook, UnwindBook, ReentryBook, EndSplit
<1> QED
  BY <1>1 DEF Legs, InFr, InKr, krTold, frTold, venue, korean, foreign

\* The other steps leave the legs as they are.
LEMMA LegsIdle ==
  ASSUME Legs, Idle \/ Begin \/ UnwindBegin
  PROVE  /\ Legs' /\ InFr' = InFr /\ InKr' = InKr
         /\ krTold' = krTold /\ frTold' = frTold
         /\ UNCHANGED <<splits, unsaved, tracker, file>>
<1>1. /\ UNCHANGED <<queries, foreign_order, korean_order, qty, splits, unsaved,
                     tracker, file, venue>>
      /\ \/ UNCHANGED pc
         \/ /\ pc \in {"call", "loop"}
            /\ pc' \in {"refused", "loop", "done"}
  BY DEF Idle, Begin, UnwindBegin, local, shared
<1>2. krTold' = krTold /\ frTold' = frTold
  BY <1>1 DEF krTold, frTold, venue, korean, foreign
<1>3. CASE UNCHANGED pc
  BY <1>1, <1>2, <1>3 DEF Legs, ForeignLeg, Known, InFr, InKr, Counted
<1>4. CASE pc \in {"call", "loop"} /\ pc' \in {"refused", "loop", "done"}
  BY <1>1, <1>2, <1>4 DEF Legs, InFr, InKr
<1> QED
  BY <1>1, <1>3, <1>4

-----------------------------------------------------------------------------
(* The accounting, with final fill reports and exact matching.             *)

\* With tolerance zero two quantities match only when they are equal.
LEMMA MatchExact ==
  ASSUME Benign, NEW a \in Int, NEW b \in Int
  PROVE  quantities_match(a, b) <=> a = b
<1> DEFINE d == Distance(a, b)
           g == Greatest(a, b)
<1>1. d \in Nat /\ g \in Int /\ (d = 0 <=> a = b)
  BY DEF Distance, Greatest
<1>2. TolNum = 0
  BY DEF Benign
<1>3. TolNum * g = 0
  BY <1>1, <1>2
<1>4. quantities_match(a, b) <=> d * TolDen <= 0
  BY <1>3 DEF quantities_match
<1> HIDE DEF d, g
<1>5. ASSUME d > 0 PROVE d * TolDen > 0
  BY <1>1, <1>5, LotAssumption, Z3
<1>6. d = 0 => d * TolDen <= 0
  BY LotAssumption
<1> QED
  BY <1>1, <1>4, <1>5, <1>6, LotAssumption

LEMMA BenignHonest == Benign => HonestVenues
  BY DEF Benign, HonestVenues

\* What a snapshot of the exposure says of it.
LEMMA RecordedSnapshot ==
  ASSUME NEW a \in Int, NEW b \in Int, NEW kr \in Int, NEW fr \in Int,
         NEW p, p = Snapshot(a, b), Greatest(0, a) = Greatest(0, kr),
         Greatest(0, b) = Greatest(0, fr)
  PROVE  /\ p.active = (kr > 0 \/ fr > 0)
         /\ Greatest(0, p.kr) = Greatest(0, kr)
         /\ Greatest(0, p.fr) = Greatest(0, fr)
<1>1. (a > 0 <=> kr > 0) /\ (b > 0 <=> fr > 0)
  BY DEF Greatest
<1>2. CASE a > 0 \/ b > 0
  <2>1. p.active = TRUE /\ p.kr = a /\ p.fr = b
    BY <1>2 DEF Snapshot
  <2>2. (kr > 0 \/ fr > 0) = TRUE
    BY <1>1, <1>2
  <2> QED
    BY <2>1, <2>2, Zenon
<1>3. CASE ~(a > 0 \/ b > 0)
  <2>1. p.active = FALSE /\ p.kr = 0 /\ p.fr = 0
    BY <1>3 DEF Snapshot, Flat
  <2>2. (kr > 0 \/ fr > 0) = FALSE
    BY <1>1, <1>3
  <2>3. Greatest(0, 0) = Greatest(0, kr) /\ Greatest(0, 0) = Greatest(0, fr)
    BY <1>1, <1>3 DEF Greatest
  <2> QED
    BY <2>1, <2>2, <2>3, Zenon
<1> QED
  BY <1>2, <1>3

\* The book is what the loop was told of, but for the legs in flight.
Booked ==
  /\ pc = "call" =>
       krTold = held_amount /\ tracker.kr = krTold /\ tracker.fr = frTold
  /\ pc \notin {"call", "refused", "stopped"} =>
       krTold - InKr = held_amount /\ frTold - InFr = held_amount
  /\ pc = "stopped" => Recorded(krTold, frTold)

\* Recorded depends on the file and on its arguments.
LEMMA RecordedKept ==
  ASSUME Recorded(krTold, frTold), UNCHANGED file, krTold' = krTold, frTold' = frTold
  PROVE  Recorded(krTold, frTold)'
  BY DEF Recorded

\* The steps of a split keep the account.
LEMMA BookedSplit ==
  ASSUME TypeOK, TypeOK', Booked, Benign, Accounted PROVE Booked'
<1>1. /\ krTold \in Int /\ frTold \in Int /\ krTold' \in Int /\ frTold' \in Int
      /\ InFr \in Int /\ InKr \in Int /\ InFr' \in Int /\ InKr' \in Int
      /\ held_amount \in Int /\ qty.fr \in Int
  <2>1. VenueTypes /\ VenueTypes'
    BY DEF TypeOK, VenueTypes
  <2>2. krTold' \in Int /\ frTold' \in Int
    BY <2>1 DEF VenueTypes, krTold, frTold
  <2>3. InFr' \in Int /\ InKr' \in Int
    <3>1. /\ foreign_order'.quantity \in Nat /\ foreign_order'.done \in Nat
          /\ qty'.fr \in Int /\ qty'.kr \in Int /\ korean_order'.done \in Nat
      BY DEF TypeOK, OrderType
    <3>2. Counted(korean_order)' \in Nat
      BY <3>1 DEF Counted
    <3> QED
      BY <3>1, <3>2 DEF InFr, InKr
  <2> QED
    BY <2>1, <2>2, <2>3, ToldTypes, InFlightTypes DEF TypeOK
<1>2. CASE Quiet
  BY <1>1, <1>2 DEF Quiet, Booked
<1>3. CASE Stopped
  <2>1. PICK kr \in Int, fr \in Int :
          /\ file' = Snapshot(kr, fr)
          /\ Greatest(0, kr) = Greatest(0, held_amount + InKr)
          /\ Greatest(0, fr) = Greatest(0, held_amount + InFr)
    BY <1>3 DEF Stopped
  <2>2. krTold' = held_amount + InKr /\ frTold' = held_amount + InFr
    BY <1>1, <1>3 DEF Stopped, Booked
  <2>3. Recorded(krTold, frTold)'
    <3>1. /\ Greatest(0, kr) = Greatest(0, krTold')
          /\ Greatest(0, fr) = Greatest(0, frTold')
      BY <2>1, <2>2
    <3>2. /\ file'.active = (krTold' > 0 \/ frTold' > 0)
          /\ Greatest(0, file'.kr) = Greatest(0, krTold')
          /\ Greatest(0, file'.fr) = Greatest(0, frTold')
      BY <1>1, <2>1, <3>1, RecordedSnapshot
    <3> QED
      BY <3>2 DEF Recorded
  <2>4. pc' = "stopped"
    BY <1>3 DEF Stopped
  <2> QED
    BY <2>3, <2>4 DEF Booked
<1>4. CASE RetryBooked
  <2>1. pc' = "loop"
    BY <1>4 DEF RetryBooked, Benign
  <2>2. InFr = -qty.fr /\ InKr = 0 /\ InFr' = 0 /\ InKr' = 0
    BY <1>4, <2>1 DEF RetryBooked, InFr, InKr
  <2> QED
    BY <1>1, <1>4, <2>1, <2>2 DEF RetryBooked, Booked
<1> QED
  BY <1>2, <1>3, <1>4 DEF Accounted

\* So do the others.
LEMMA BookedOther ==
  ASSUME TypeOK, Legs, Booked, Benign, Idle \/ Begin \/ EntryBook \/ ExitBook
  PROVE  Booked'
<1>1. /\ krTold \in Int /\ frTold \in Int /\ held_amount \in Int
      /\ qty.fr \in Int /\ qty.kr \in Int /\ tracker.kr \in Int /\ tracker.fr \in Int
  BY VenueTyped, ToldTypes DEF TypeOK, PositionType
<1>2. CASE Idle
  <2>1. /\ InFr' = InFr /\ InKr' = InKr /\ krTold' = krTold /\ frTold' = frTold
        /\ UNCHANGED <<tracker, file>>
    BY <1>2, LegsIdle
  <2>2. UNCHANGED held_amount
    BY <1>2 DEF Idle, local
  <2>3. CASE UNCHANGED pc
    BY <2>1, <2>2, <2>3, RecordedKept DEF Booked
  <2>4. CASE \/ pc = "call" /\ pc' = "refused"
             \/ pc = "loop" /\ pc' = "done"
    BY <2>1, <2>2, <2>4 DEF Booked
  <2> QED
    BY <1>2, <2>3, <2>4 DEF Idle
<1>3. CASE Begin
  <2>1. /\ InFr' = InFr /\ InKr' = InKr /\ krTold' = krTold /\ frTold' = frTold
    BY <1>3, LegsIdle
  <2>2. pc = "call" /\ pc' = "loop" /\ UNCHANGED held_amount
    BY <1>3 DEF Begin, local
  <2>3. tracker.kr = tracker.fr
    BY <1>1, <1>3, MatchExact DEF Begin
  <2>4. InFr = 0 /\ InKr = 0
    BY <2>2 DEF InFr, InKr
  <2> QED
    BY <1>1, <2>1, <2>2, <2>3, <2>4 DEF Booked
<1>4. CASE EntryBook
  <2>1. /\ InFr' = 0 /\ InKr' = 0 /\ krTold' = krTold /\ frTold' = frTold
        /\ pc' = "loop"
    BY <1>4, LegsBook
  <2>2. /\ pc \in {"entry_cmp", "entry_hedged"}
        /\ held_amount' = held_amount + Least(qty.fr, qty.kr)
        /\ quantities_match(qty.fr, qty.kr)
    BY <1>4 DEF EntryBook
  <2>3. qty.fr = qty.kr
    BY <1>1, <2>2, MatchExact
  <2>4. InFr = qty.fr /\ InKr = qty.kr
    BY <2>2 DEF InFr, InKr
  <2> QED
    BY <1>1, <2>1, <2>2, <2>3, <2>4 DEF Booked, Least
<1>5. CASE ExitBook
  <2>1. /\ InFr' = 0 /\ InKr' = 0 /\ krTold' = krTold /\ frTold' = frTold
        /\ pc' = "loop"
    BY <1>5, LegsBook
  <2>2. /\ pc \in {"exit_cmp", "exit_hedged"}
        /\ held_amount' = held_amount - Least(qty.fr, qty.kr)
        /\ quantities_match(qty.fr, qty.kr)
    BY <1>5 DEF ExitBook
  <2>3. qty.fr = qty.kr
    BY <1>1, <2>2, MatchExact
  <2>4. InFr = -qty.fr /\ InKr = -qty.kr
    BY <2>2 DEF InFr, InKr
  <2> QED
    BY <1>1, <2>1, <2>2, <2>3, <2>4 DEF Booked, Least
<1> QED
  BY <1>2, <1>3, <1>4, <1>5

LEMMA LegsInit == Init => Legs /\ InFr = 0 /\ InKr = 0
<1> SUFFICES ASSUME Init PROVE Legs /\ InFr = 0 /\ InKr = 0
  OBVIOUS
<1>1. pc = "call" /\ queries = {}
  BY DEF Init
<1> QED
  BY <1>1, LegsAtRest

\* The tracker's position is what the venues hold when a function is called.
LEMMA StartTold ==
  ASSUME Init
  PROVE  \E p \in InitPositions :
           /\ p.kr \in Nat /\ p.fr \in Nat
           /\ krTold = p.kr /\ frTold = p.fr /\ held_amount = p.kr
           /\ tracker.kr = p.kr /\ tracker.fr = p.fr
           /\ tracker = Snapshot(p.kr, p.fr) /\ file = Snapshot(p.kr, p.fr)
<1>1. PICK p \in InitPositions :
        /\ krReal = p.kr /\ frReal = p.fr /\ held_amount = p.kr
        /\ tracker = Snapshot(p.kr, p.fr) /\ file = Snapshot(p.kr, p.fr)
  BY DEF Init
<1>2. p.kr \in Nat /\ p.fr \in Nat
  BY InitAssumption
<1>3. tracker.kr = p.kr /\ tracker.fr = p.fr
  BY <1>1, <1>2 DEF Snapshot, Flat
<1>4. krTold = p.kr /\ frTold = p.fr
  BY <1>1, <1>2 DEF krTold, frTold, Init
<1> QED
  BY <1>1, <1>2, <1>3, <1>4

AccountInv == TypeOK /\ Legs /\ Booked

LEMMA AccountInit == Init => AccountInv
<1> SUFFICES ASSUME Init PROVE AccountInv
  OBVIOUS
<1>1. pc = "call"
  BY DEF Init
<1>2. krTold = held_amount /\ tracker.kr = krTold /\ tracker.fr = frTold
  BY StartTold
<1> QED
  BY <1>1, <1>2, TypeInit, LegsInit DEF AccountInv, Booked

LEMMA AccountStep ==
  ASSUME Benign, AccountInv, [Next]_vars PROVE AccountInv'
<1>1. TypeOK /\ Legs /\ Booked /\ HonestVenues
  BY BenignHonest DEF AccountInv
<1>2. TypeOK'
  BY <1>1, TypeStep
<1>3. CASE LoopSplit
  <2>1. next_order_size \in Int /\ "sell" # "buy"
    BY <1>1, SizeTypes
  <2>2. Legs' /\ Accounted
    BY <1>1, <1>3, <2>1, LegsStep DEF LoopSplit
  <2>3. Booked'
    BY <1>1, <1>2, <2>2, BookedSplit
  <2> QED
    BY <1>2, <2>2, <2>3 DEF AccountInv
<1>4. CASE Idle \/ Begin \/ EntryBook \/ ExitBook
  <2>1. Legs'
    BY <1>1, <1>4, LegsIdle, LegsBook
  <2>2. Booked'
    BY <1>1, <1>4, BookedOther
  <2> QED
    BY <1>2, <2>1, <2>2 DEF AccountInv
<1> QED
  BY <1>1, <1>3, <1>4, NextCases

LEMMA AccountInvariant == ASSUME Benign PROVE Spec => []AccountInv
<1>1. Init => AccountInv
  BY AccountInit
<1>2. AccountInv /\ [Next]_vars => AccountInv'
  BY AccountStep
<1> QED
  BY <1>1, <1>2, PTL DEF Spec

\* At every point of a split - latch, rollback, correction, retry, whatever
\* was refused, filled unevenly, went astray or was restated by Upbit - the
\* loop's book and the Orders in flight account for everything it was told of
\* the two venues.
THEOREM AccountingHolds == ASSUME Benign PROVE Spec => []Accounting
<1>1. ASSUME AccountInv PROVE Accounting
  <2>1. TypeOK /\ Legs /\ Booked
    BY <1>1 DEF AccountInv
  <2>2. /\ krTold \in Int /\ frTold \in Int /\ held_amount \in Int
        /\ qty.fr \in Int /\ qty.kr \in Int /\ foreign_order.done \in Int
        /\ foreign_order.quantity \in Int /\ Counted(korean_order) \in Int
    BY <2>1, VenueTyped, ToldTypes DEF TypeOK, OrderType, Counted
  <2>3. /\ pc = "call" =>
             krTold = held_amount /\ tracker.kr = krTold /\ tracker.fr = frTold
        /\ pc = "stopped" => Recorded(krTold, frTold)
    BY <2>1 DEF Booked
  <2>4. /\ AtRest => OpenLegs(0, 0)
        /\ pc = "min_guard" => OpenLegs(0, foreign_order.quantity)
        /\ pc = "kr_buy" => OpenLegs(0, foreign_order.done)
        /\ pc = "entry_latch" => OpenLegs(Counted(korean_order), foreign_order.done)
        /\ pc = "entry_rollback" => OpenLegs(0, qty.fr)
        /\ pc \in {"entry_cmp", "entry_hedged"} => OpenLegs(qty.kr, qty.fr)
    BY <2>1, <2>2 DEF Booked, InFr, InKr, AtRest, OpenLegs
  <2>5. /\ pc = "kr_sell" => ClosedLegs(0, foreign_order.done)
        /\ pc = "exit_latch" => ClosedLegs(Counted(korean_order), foreign_order.done)
        /\ pc = "sell_retry" => ClosedLegs(0, qty.fr)
        /\ pc \in {"exit_cmp", "exit_hedged"} => ClosedLegs(qty.kr, qty.fr)
    BY <2>1, <2>2 DEF Booked, InFr, InKr, ClosedLegs
  <2>6. /\ pc \in {"kr_buy", "kr_sell"} => ForeignLeg /\ queries \subseteq {"fr"}
        /\ pc = "entry_latch" =>
             ForeignLeg /\ korean_order.stage = "buy" /\ Known(korean_order, "kr")
        /\ pc = "exit_latch" =>
             ForeignLeg /\ korean_order.stage # "buy" /\ Known(korean_order, "kr")
    BY <2>1 DEF Legs
  <2> QED
    BY <2>3, <2>4, <2>5, <2>6 DEF Accounting
<1> QED
  BY <1>1, AccountInvariant, PTL

\* Between any two splits and after a shutdown held_amount is what both venues
\* hold, but for the executions the loop was not told of.
THEOREM BookReal == ASSUME Benign PROVE Spec => []BookIsReal
<1>1. TypeOK /\ Accounting => BookIsReal
  BY DEF TypeOK, Accounting, BookIsReal, AtRest, OpenLegs, krTold, frTold
<1> QED
  BY <1>1, TypeCorrect, AccountingHolds, PTL

\* The snapshot of a critical stop is what is open, as far as was told.
THEOREM StopSnapshotReal == ASSUME Benign PROVE Spec => []StopSnapshotIsReal
<1>1. Accounting => StopSnapshotIsReal
  BY DEF Accounting, StopSnapshotIsReal
<1> QED
  BY <1>1, AccountingHolds, PTL

-----------------------------------------------------------------------------
(* The sizes of a split's orders.                                          *)

\* Legs that are equal match, whatever the tolerance.
LEMMA MatchEqual ==
  ASSUME NEW a \in Int, a >= 0 PROVE quantities_match(a, a)
<1>1. Distance(a, a) = 0 /\ Greatest(a, a) = a
  BY DEF Distance, Greatest
<1>2. 0 * TolDen = 0 /\ TolNum * a >= 0
  BY LotAssumption, Z3
<1> QED
  BY <1>1, <1>2 DEF quantities_match

Excess == Greatest(Step, MinQty)

Sizes ==
  /\ pc \in {"min_guard", "kr_buy", "entry_latch", "kr_sell", "exit_latch"} =>
       foreign_order.quantity <= LargestOrder
  /\ pc \in {"kr_buy", "entry_latch"} => foreign_order.done <= LargestOrder
  /\ pc \in {"kr_sell", "exit_latch"} => foreign_order.done <= MaxNaked
  /\ pc = "entry_latch" => korean_order.done <= MaxNaked
  /\ pc = "exit_latch" => korean_order.done <= LargestOrder
  /\ pc = "entry_rollback" => qty.fr \in 1..LargestOrder
  /\ pc = "sell_retry" => qty.fr \in 1..MaxNaked
  /\ pc = "entry_cmp" => qty.fr \in 1..LargestOrder /\ qty.kr \in 1..MaxNaked
  /\ pc = "exit_cmp" => qty.fr \in 1..MaxNaked /\ qty.kr \in 1..LargestOrder
  /\ pc = "entry_hedged" =>
       /\ qty.fr <= LargestOrder /\ qty.kr \in 1..MaxNaked
       /\ Distance(qty.fr, qty.kr) <= MaxNaked
  /\ pc = "exit_hedged" =>
       /\ qty.fr \in 1..(MaxNaked + Excess) /\ qty.kr \in 1..MaxNaked
       /\ Distance(qty.fr, qty.kr) <= MaxNaked

LEMMA SizeBounds ==
  /\ LargestOrder \in Nat /\ MaxNaked \in Nat /\ Excess \in Nat /\ Slip \in Nat
  /\ MaxNaked = LargestOrder + Slip
  /\ 0 < Excess /\ Excess <= LargestOrder /\ OrderSize <= LargestOrder
<1>1. LargestOrder \in Nat /\ LargestOrder >= OrderSize
  BY LargestType
<1>2. Step <= LargestOrder /\ MinQty <= LargestOrder
  <2> DEFINE y == Greatest(OrderSize, ExitAll)
  <2>1. y \in Int /\ y > 0
    BY SizeAssumption DEF Greatest
  <2>2. CeilLot(y) \in Int /\ CeilLot(y) >= y /\ Aligned(CeilLot(y))
    BY <2>1, CeilUp
  <2>3. CeilLot(y) >= Step
    BY <2>1, <2>2, AlignedStep
  <2>4. LargestOrder = Greatest(CeilLot(y), MinQty)
    BY DEF LargestOrder
  <2> HIDE DEF y
  <2> QED
    BY <2>2, <2>3, <2>4, LotAssumption DEF Greatest
<1> QED
  BY <1>1, <1>2, LotAssumption, SizeAssumption DEF MaxNaked, Excess, Greatest

\* What is exited in one split.
LEMMA ExitSize ==
  ASSUME TypeOK, held_amount > 0
  PROVE  /\ exit_coin_amount \in Int /\ exit_coin_amount > 0
         /\ exit_coin_amount <= held_amount
         /\ exit_coin_amount <= Greatest(OrderSize, ExitAll)
  BY SizeAssumption DEF TypeOK, exit_coin_amount, Least, Greatest

\* A step to a place between two splits leaves no order in flight.
LEMMA SizesAtRest ==
  ASSUME pc' \in {"call", "refused", "loop", "done", "stopped"} PROVE Sizes'
  BY DEF Sizes

\* The orders of an entry and of an exit.
LEMMA SizesOrders ==
  ASSUME TypeOK, Legs, Sizes, NEW size \in Int, size <= OrderSize, NEW cover, NEW sell,
         ShortEffect(size) \/ BuyEffect \/ CoverEffect(cover) \/ SellEffect(sell)
  PROVE  Sizes'
<1>1. CASE ShortEffect(size)
  <2>1. CASE pc' = pc
    <3>1. pc' = "loop"
      BY <1>1, <2>1 DEF ShortEffect
    <3> QED
      BY <3>1, SizesAtRest
  <2>2. CASE pc' # pc
    <3>1. PICK q \in Nat, done \in Nat :
            /\ q <= size /\ done <= q /\ pc' \in {"min_guard", "kr_buy"}
            /\ foreign_order' = Order("short", TRUE, q, done)
      BY <1>1, <2>2 DEF ShortEffect
    <3>2. foreign_order'.quantity = q /\ foreign_order'.done = done
      BY <3>1 DEF Order
    <3>3. q <= LargestOrder /\ done <= LargestOrder
      BY <3>1, SizeBounds, SizeAssumption
    <3> QED
      BY <3>1, <3>2, <3>3 DEF Sizes
  <2> QED
    BY <2>1, <2>2
<1>2. CASE BuyEffect
  <2>1. /\ pc = "kr_buy" /\ pc' = "entry_latch" /\ UNCHANGED foreign_order
        /\ foreign_order.quantity \in Nat
    BY <1>2 DEF BuyEffect, TypeOK, OrderType
  <2>2. PICK ok \in BOOLEAN, done \in Nat :
          /\ done <= foreign_order.quantity + Slip
          /\ korean_order' = Order("buy", ok, buy_order_quantity, done)
    BY <1>2 DEF BuyEffect
  <2>3. korean_order'.done = done
    BY <2>2 DEF Order
  <2>4. foreign_order.quantity <= LargestOrder /\ foreign_order.done <= LargestOrder
    BY <2>1 DEF Sizes
  <2>5. done <= MaxNaked
    BY <2>1, <2>2, <2>4, SizeBounds
  <2> QED
    BY <2>1, <2>3, <2>4, <2>5 DEF Sizes
<1>3. CASE CoverEffect(cover)
  <2>1. CASE pc' = pc
    <3>1. pc' = "loop"
      BY <1>3, <2>1 DEF CoverEffect
    <3> QED
      BY <3>1, SizesAtRest
  <2>2. CASE pc' # pc
    <3>1. PICK q \in Nat, done \in Nat :
            /\ q = close_qty(exit_coin_amount) /\ done <= q + Slip /\ pc' = "kr_sell"
            /\ foreign_order' = Order(cover, TRUE, q, done)
      BY <1>3, <2>2 DEF CoverEffect
    <3>2. foreign_order'.quantity = q /\ foreign_order'.done = done
      BY <3>1 DEF Order
    <3>3. held_amount > 0
      BY <1>3 DEF CoverEffect
    <3>4. q <= LargestOrder
      BY <3>1, <3>3, ExitSize, CloseBound
    <3>5. done <= MaxNaked
      BY <3>1, <3>4, SizeBounds
    <3> QED
      BY <3>1, <3>2, <3>4, <3>5 DEF Sizes
  <2> QED
    BY <2>1, <2>2
<1>4. CASE SellEffect(sell)
  <2>1. /\ pc = "kr_sell" /\ pc' = "exit_latch" /\ UNCHANGED foreign_order
        /\ foreign_order.quantity \in Nat
    BY <1>4 DEF SellEffect, TypeOK, OrderType
  <2>2. PICK ok \in BOOLEAN, done \in Nat :
          /\ done <= foreign_order.quantity
          /\ korean_order' = Order(sell, ok, foreign_order.quantity, done)
    BY <1>4 DEF SellEffect
  <2>3. korean_order'.done = done
    BY <2>2 DEF Order
  <2>4. foreign_order.quantity <= LargestOrder /\ foreign_order.done <= MaxNaked
    BY <2>1 DEF Sizes
  <2>5. done <= LargestOrder
    BY <2>1, <2>2, <2>4, SizeBounds
  <2> QED
    BY <2>1, <2>3, <2>4, <2>5 DEF Sizes
<1> QED
  BY <1>1, <1>2, <1>3, <1>4

\* What the latches find.
LEMMA SizesLatch ==
  ASSUME TypeOK, Legs, Sizes, EntryLatch \/ ExitLatch
  PROVE  Sizes'
<1> DEFINE f == resolved_fill_quantity(foreign_order)
           k == resolved_fill_quantity(korean_order)
<1>1. /\ pc \in {"entry_latch", "exit_latch"} /\ queries = {}
      /\ qty' = [fr |-> f, kr |-> k]
      /\ pc = "entry_latch" => pc' = IF korean_order.ok THEN "entry_cmp" ELSE "entry_rollback"
      /\ pc = "exit_latch" => pc' = IF korean_order.ok THEN "exit_cmp" ELSE "sell_retry"
  BY DEF EntryLatch, ExitLatch, LatchOpen
<1>2. foreign_order \in OrderType /\ korean_order \in OrderType
  BY DEF TypeOK
<1>3. f = foreign_order.done /\ foreign_order.done > 0 /\ foreign_order.done \in Int
  BY <1>1, <1>2, Resolved DEF Legs, ForeignLeg, Known, OrderType
<1>4. korean_order.ok => k = korean_order.done /\ korean_order.done > 0 /\ korean_order.done \in Int
  BY <1>1, <1>2, Resolved DEF Legs, Known, OrderType
<1>5. qty'.fr = f /\ qty'.kr = k
  BY <1>1
<1> HIDE DEF f, k
<1>6. CASE pc = "entry_latch"
  <2>1. f \in 1..LargestOrder /\ (korean_order.ok => k \in 1..MaxNaked)
    BY <1>3, <1>4, <1>6, SizeBounds DEF Sizes
  <2>2. \/ korean_order.ok /\ pc' = "entry_cmp"
        \/ pc' = "entry_rollback"
    BY <1>1, <1>6, Zenon
  <2> QED
    BY <1>5, <2>1, <2>2 DEF Sizes
<1>7. CASE pc = "exit_latch"
  <2>1. f \in 1..MaxNaked /\ (korean_order.ok => k \in 1..LargestOrder)
    BY <1>3, <1>4, <1>7, SizeBounds DEF Sizes
  <2>2. \/ korean_order.ok /\ pc' = "exit_cmp"
        \/ pc' = "sell_retry"
    BY <1>1, <1>7, Zenon
  <2> QED
    BY <1>5, <2>1, <2>2 DEF Sizes
<1> QED
  BY <1>1, <1>6, <1>7

\* What one correction leaves.
LEMMA SizesFix ==
  ASSUME TypeOK, Sizes, HonestVenues,
         EntryFixForeign \/ EntryFixKorean \/ ExitFixKorean \/ ExitFixForeign,
         pc' # "stopped"
  PROVE  Sizes'
<1>1. qty.fr \in Int /\ qty.kr \in Int
  BY DEF TypeOK
<1>2. ~EntryStop /\ ~ExitStop
  BY DEF EntryStop, ExitStop, trigger_critical_stop
<1>3. CASE EntryFixForeign
  <2>1. PICK done \in Nat :
          /\ 0 < done /\ done < qty.fr - qty.kr + Excess + Slip
          /\ qty' = [fr |-> qty.fr - done, kr |-> qty.kr]
    BY <1>2, <1>3 DEF EntryFixForeign, CoverFill, Excess
  <2>2. /\ pc' = "entry_hedged" /\ qty.fr \in 1..LargestOrder
        /\ qty.kr \in 1..MaxNaked /\ qty.fr > qty.kr
    BY <1>2, <1>3 DEF EntryFixForeign, Sizes
  <2>3. qty'.fr = qty.fr - done /\ qty'.kr = qty.kr
    BY <2>1
  <2>4. /\ qty.fr - done <= LargestOrder
        /\ Distance(qty.fr - done, qty.kr) <= MaxNaked
    BY <1>1, <2>1, <2>2, SizeBounds DEF Distance
  <2> QED
    BY <2>2, <2>3, <2>4 DEF Sizes
<1>4. CASE EntryFixKorean
  <2>1. PICK done \in Nat :
          /\ done <= qty.kr - qty.fr
          /\ qty' = [fr |-> qty.fr, kr |-> qty.kr - done]
    BY <1>2, <1>4 DEF EntryFixKorean
  <2>2. /\ pc' = "entry_hedged" /\ qty.fr \in 1..LargestOrder
        /\ qty.kr \in 1..MaxNaked /\ qty.fr <= qty.kr
    BY <1>2, <1>4 DEF EntryFixKorean, Sizes
  <2>3. qty'.fr = qty.fr /\ qty'.kr = qty.kr - done
    BY <2>1
  <2>4. /\ qty.kr - done \in 1..MaxNaked
        /\ Distance(qty.fr, qty.kr - done) <= MaxNaked
    BY <1>1, <2>1, <2>2, SizeBounds DEF Distance
  <2>5. qty.fr <= LargestOrder
    BY <2>2
  <2> QED
    BY <2>2, <2>3, <2>4, <2>5 DEF Sizes
<1>5. CASE ExitFixKorean
  <2>1. PICK done \in Nat :
          /\ done <= qty.fr - qty.kr
          /\ qty' = [fr |-> qty.fr, kr |-> qty.kr + done]
    BY <1>2, <1>5 DEF ExitFixKorean
  <2>2. /\ pc' = "exit_hedged" /\ qty.fr \in 1..MaxNaked
        /\ qty.kr \in 1..LargestOrder /\ qty.fr > qty.kr
    BY <1>2, <1>5 DEF ExitFixKorean, Sizes
  <2>3. qty'.fr = qty.fr /\ qty'.kr = qty.kr + done
    BY <2>1
  <2>4. /\ qty.kr + done \in 1..MaxNaked /\ qty.fr \in 1..(MaxNaked + Excess)
        /\ Distance(qty.fr, qty.kr + done) <= MaxNaked
    BY <1>1, <2>1, <2>2, SizeBounds DEF Distance
  <2> QED
    BY <2>2, <2>3, <2>4 DEF Sizes
<1>6. CASE ExitFixForeign
  <2>1. /\ pc' = "exit_hedged" /\ qty.fr \in 1..MaxNaked
        /\ qty.kr \in 1..LargestOrder /\ qty.fr <= qty.kr
    BY <1>2, <1>6 DEF ExitFixForeign, Sizes
  <2>2. qty.fr # qty.kr
    <3>1. ~quantities_match(qty.fr, qty.kr) /\ qty.fr >= 0
      BY <1>6, <2>1 DEF ExitFixForeign
    <3> QED
      BY <1>1, <3>1, MatchEqual
  <2>3. PICK done \in Nat :
          /\ 0 < done /\ done < qty.kr - qty.fr + Excess + Slip
          /\ qty' = [fr |-> qty.fr + done, kr |-> qty.kr]
    BY <1>2, <1>6, <2>2 DEF ExitFixForeign, CoverFill, Excess
  <2>4. qty'.fr = qty.fr + done /\ qty'.kr = qty.kr
    BY <2>3
  <2>5. /\ qty.fr + done \in 1..(MaxNaked + Excess) /\ qty.kr \in 1..MaxNaked
        /\ Distance(qty.fr + done, qty.kr) <= MaxNaked
    BY <1>1, <2>1, <2>3, SizeBounds DEF Distance
  <2> QED
    BY <2>1, <2>4, <2>5 DEF Sizes
<1> QED
  BY <1>3, <1>4, <1>5, <1>6

\* The sizes are kept by every step of a split.
LEMMA SizesStep ==
  ASSUME TypeOK, Legs, Sizes, HonestVenues, NEW size \in Int, size <= OrderSize,
         NEW cover, NEW sell, SplitStep(size, cover, sell)
  PROVE  Sizes'
<1>1. CASE ShortEffect(size) \/ BuyEffect \/ CoverEffect(cover) \/ SellEffect(sell)
  BY <1>1, SizesOrders
<1>2. CASE EntryLatch \/ ExitLatch
  BY <1>2, SizesLatch
<1>3. CASE EntryFixForeign \/ EntryFixKorean \/ ExitFixKorean \/ ExitFixForeign
  BY <1>3, SizesFix, SizesAtRest
<1>4. CASE \/ EntryStillMismatched \/ ExitStillMismatched
           \/ RollbackEffect(foreign_order.quantity) \/ RollbackEffect(qty.fr)
  <2>1. pc' \in {"loop", "stopped"}
    BY <1>4 DEF EntryStillMismatched, ExitStillMismatched, RollbackEffect, EntryStop,
       ExitStop, trigger_critical_stop
  <2> QED
    BY <2>1, SizesAtRest
<1>5. CASE RetryEffect
  <2>1. \/ pc' \in {"loop", "stopped"}
        \/ pc = "sell_retry" /\ UNCHANGED <<pc, foreign_order, korean_order, qty>>
    BY <1>5 DEF RetryEffect, RetryStop, trigger_critical_stop
  <2>2. CASE pc = "sell_retry" /\ UNCHANGED <<pc, foreign_order, korean_order, qty>>
    BY <2>2 DEF Sizes
  <2> QED
    BY <2>1, <2>2, SizesAtRest
<1>6. ASSUME NEW leg \in {"fr", "kr"}, QueryEffect(leg) PROVE Sizes'
  <2>1. UNCHANGED <<pc, qty>>
    BY <1>6 DEF QueryEffect
  <2>2. /\ foreign_order'.quantity = foreign_order.quantity
        /\ foreign_order'.done = foreign_order.done
        /\ korean_order'.done = korean_order.done
    BY <1>6 DEF QueryEffect, TypeOK, OrderType
  <2> QED
    BY <2>1, <2>2 DEF Sizes
<1> QED
  BY <1>1, <1>2, <1>3, <1>4, <1>5, <1>6 DEF SplitStep

LEMMA SizesOther ==
  ASSUME Sizes,
         Idle \/ Begin \/ UnwindBegin \/ EntryBook \/ ExitBook \/ UnwindBook \/ ReentryBook
  PROVE  Sizes'
<1>1. CASE Idle /\ UNCHANGED pc
  BY <1>1 DEF Idle, Sizes, local
<1>2. CASE pc' \in {"refused", "loop", "done"}
  BY <1>2, SizesAtRest
<1> QED
  BY <1>1, <1>2
    DEF Idle, Begin, UnwindBegin, EntryBook, ExitBook, UnwindBook, ReentryBook

LEMMA SizesInit == Init => Sizes
  BY DEF Init, Sizes

\* The legs in flight differ by no more than one split.
LEMMA InFlightBound ==
  ASSUME TypeOK, Sizes
  PROVE  Distance(InKr, InFr) <= MaxNaked
<1>1. /\ foreign_order.quantity \in Nat /\ foreign_order.done \in Nat
      /\ qty.fr \in Int /\ qty.kr \in Int /\ korean_order.done \in Nat
      /\ Counted(korean_order) \in Nat /\ Counted(korean_order) <= korean_order.done
  BY DEF TypeOK, OrderType, Counted
<1>2. CASE pc \in {"min_guard", "kr_buy", "entry_latch"}
  BY <1>1, <1>2, SizeBounds DEF Sizes, InFr, InKr, Distance
<1>3. CASE pc \in {"kr_sell", "exit_latch"}
  BY <1>1, <1>3, SizeBounds DEF Sizes, InFr, InKr, Distance
<1>4. CASE pc \in {"entry_rollback", "sell_retry"}
  BY <1>1, <1>4, SizeBounds DEF Sizes, InFr, InKr, Distance
<1>5. CASE pc \in {"entry_cmp", "exit_cmp"}
  BY <1>1, <1>5, SizeBounds DEF Sizes, InFr, InKr, Distance
<1>6. CASE pc \in {"entry_hedged", "exit_hedged"}
  BY <1>1, <1>6, SizeBounds DEF Sizes, InFr, InKr, Distance
<1>7. CASE pc \in {"call", "refused", "loop", "done", "stopped"}
  BY <1>7, SizeBounds DEF InFr, InKr, Distance
<1> QED
  BY <1>2, <1>3, <1>4, <1>5, <1>6, <1>7 DEF TypeOK


-----------------------------------------------------------------------------
(* How much is naked.                                                      *)

LEMMA SizesInvariant == ASSUME Benign PROVE Spec => [](AccountInv /\ Sizes)
<1>1. AccountInv /\ Sizes /\ [Next]_vars => Sizes'
  <2> SUFFICES ASSUME AccountInv, Sizes, [Next]_vars PROVE Sizes'
    OBVIOUS
  <2>1. TypeOK /\ Legs /\ HonestVenues
    BY BenignHonest DEF AccountInv
  <2>2. next_order_size \in Int /\ next_order_size <= OrderSize
    BY <2>1, SizeTypes
  <2>3. CASE LoopSplit
    BY <2>1, <2>2, <2>3, SizesStep DEF LoopSplit
  <2> QED
    BY <2>1, <2>3, NextCases, SizesOther
<1> QED
  BY <1>1, AccountInvariant, SizesInit, PTL DEF Spec

InSplit == pc \notin {"call", "refused", "stopped"}

\* With a book that is what was told, only the legs in flight can be naked.
LEMMA NakedInFlight ==
  AccountInv /\ Sizes => (InSplit => NakedAtMostOneSplit)
<1> SUFFICES ASSUME AccountInv, Sizes, InSplit PROVE NakedAtMostOneSplit
  OBVIOUS
<1>1. TypeOK /\ Booked
  BY DEF AccountInv
<1>2. /\ krTold \in Int /\ frTold \in Int /\ InKr \in Int /\ InFr \in Int
      /\ held_amount \in Int
  BY <1>1, VenueTyped, ToldTypes, InFlightTypes DEF TypeOK
<1>3. krTold - InKr = held_amount /\ frTold - InFr = held_amount
  BY <1>1 DEF Booked, InSplit
<1>4. Distance(krTold, frTold) = Distance(InKr, InFr)
  BY <1>2, <1>3 DEF Distance
<1> QED
  BY <1>1, <1>4, InFlightBound DEF NakedAtMostOneSplit

\* A step that ends a call tells the loop of nothing new.
LEMMA NakedStep ==
  AccountInv /\ NakedAtMostOneSplit /\ Benign /\ [Next]_vars
    => NakedAtMostOneSplit' \/ InSplit'
<1> SUFFICES ASSUME AccountInv, NakedAtMostOneSplit, Benign, [Next]_vars
             PROVE  NakedAtMostOneSplit' \/ InSplit'
  OBVIOUS
<1>1. TypeOK /\ Legs /\ HonestVenues
  BY BenignHonest DEF AccountInv
<1>2. CASE krTold' = krTold /\ frTold' = frTold
  BY <1>2 DEF NakedAtMostOneSplit
<1>3. CASE LoopSplit
  <2>1. next_order_size \in Int /\ "sell" # "buy"
    BY <1>1, SizeTypes
  <2>2. Accounted
    BY <1>1, <1>3, <2>1, LegsStep DEF LoopSplit
  <2>3. CASE Quiet
    BY <2>3 DEF Quiet, InSplit
  <2>4. CASE Stopped
    BY <1>2, <2>4 DEF Stopped
  <2>5. CASE RetryBooked
    BY <2>5 DEF RetryBooked, Benign, InSplit
  <2> QED
    BY <2>2, <2>3, <2>4, <2>5 DEF Accounted
<1> QED
  BY <1>1, <1>2, <1>3, NextCases, LegsIdle, LegsBook

\* However splits, fills, refusals and corrections follow each other, the loop
\* never knows of more than one split that is unhedged.
THEOREM NakedBounded ==
  ASSUME Benign, StartsWithin PROVE Spec => []NakedAtMostOneSplit
<1>1. Init => NakedAtMostOneSplit
  <2> SUFFICES ASSUME Init PROVE NakedAtMostOneSplit
    OBVIOUS
  <2> QED
    BY StartTold DEF StartsWithin, NakedAtMostOneSplit
<1>2. AccountInv /\ NakedAtMostOneSplit /\ [Next]_vars
        => NakedAtMostOneSplit' \/ InSplit'
  BY NakedStep
<1> QED
  BY <1>1, <1>2, SizesInvariant, NakedInFlight, PTL DEF Spec

-----------------------------------------------------------------------------
(* Both functions, with a tolerance: what the legs in flight are.          *)

RelayBase == RelayTypes /\ Legs /\ Sizes

\* A split's step of either function.
LEMMA RelaySplit ==
  ASSUME HonestVenues, RelayBase, LoopSplit \/ ReentrySplit
  PROVE  Accounted /\ Legs' /\ Sizes'
<1>1. TypeOK /\ original_amount \in Int /\ Legs /\ Sizes
  BY DEF RelayBase, RelayTypes
<1>2. CASE LoopSplit
  <2>1. next_order_size \in Int /\ next_order_size <= OrderSize /\ "sell" # "buy"
    BY <1>1, SizeTypes
  <2> QED
    BY <1>1, <1>2, <2>1, LegsStep, SizesStep DEF LoopSplit
<1>3. CASE ReentrySplit
  <2>1. reentry_size \in Int /\ reentry_size <= OrderSize /\ "unwind_sell" # "buy"
    BY <1>1, SizeTypes
  <2> QED
    BY <1>1, <1>3, <2>1, LegsStep, SizesStep DEF ReentrySplit
<1> QED
  BY <1>2, <1>3

LEMMA RelayBaseStep ==
  ASSUME HonestVenues, RelayBase, [RelayNext]_relayVars PROVE RelayBase'
<1>1. RelayTypes /\ Legs /\ Sizes
  BY DEF RelayBase
<1>2. RelayTypes'
  BY <1>1, RelayTypeStep
<1>3. Legs' /\ Sizes'
  BY <1>1, RelayCases, RelaySplit, LegsIdle, LegsBook, SizesOther
<1> QED
  BY <1>2, <1>3 DEF RelayBase

LEMMA RelayBaseInvariant == ASSUME HonestVenues PROVE RelaySpec => []RelayBase
<1>1. RelayInit => RelayBase
  BY RelayTypeInit, LegsInit, SizesInit DEF RelayInit, RelayBase
<1>2. RelayBase /\ [RelayNext]_relayVars => RelayBase'
  BY RelayBaseStep
<1> QED
  BY <1>1, <1>2, PTL DEF RelaySpec

\* Division by the tolerance's denominator.
LEMMA DivisionBound ==
  ASSUME NEW x \in Nat, NEW d \in Nat, d > 0, NEW n \in Nat, x * d <= n
  PROVE  x <= n \div d
<1>1. n \div d \in Int /\ n < d * (n \div d) + d
  BY Z3
<1> DEFINE e == n \div d
<1> HIDE DEF e
<1>2. SUFFICES ASSUME x >= e + 1 PROVE FALSE
  BY <1>1 DEF e
<1>3. x * d >= (e + 1) * d
  BY <1>1, <1>2, Z3 DEF e
<1>4. (e + 1) * d = d * e + d
  BY <1>1, Z3 DEF e
<1>5. x * d \in Int /\ d * e \in Int
  BY <1>1 DEF e
<1> QED
  BY <1>1, <1>3, <1>4, <1>5 DEF e

\* The residue of a split is a number of units.
LEMMA DriftType == DriftPerSplit \in Nat
<1> DEFINE n == TolNum * (MaxNaked + Greatest(Step, MinQty))
<1>1. n \in Nat
  BY LotAssumption, SizeBounds DEF Excess
<1> HIDE DEF n
<1>2. n \div TolDen \in Nat
  BY <1>1, LotAssumption, Z3
<1> QED
  BY <1>2 DEF DriftPerSplit, n

\* Legs that match are at most one residue apart.
LEMMA MatchBound ==
  ASSUME NEW a \in Int, NEW b \in Int, quantities_match(a, b),
         a <= MaxNaked + Excess, b <= MaxNaked + Excess
  PROVE  a - b <= DriftPerSplit /\ b - a <= DriftPerSplit
<1> DEFINE x == Distance(a, b)
           g == Greatest(a, b)
           m == MaxNaked + Excess
<1>1. x \in Nat /\ g \in Int /\ g <= m /\ m \in Nat /\ a - b <= x /\ b - a <= x
  BY SizeBounds DEF Distance, Greatest
<1>2. x * TolDen <= TolNum * g
  BY DEF quantities_match
<1> HIDE DEF x, g, m
<1>3. TolNum * g <= TolNum * m
  BY <1>1, LotAssumption, Z3
<1>4. TolNum * m \in Nat /\ TolNum * g \in Int /\ x * TolDen \in Nat
  BY <1>1, LotAssumption
<1>5. x * TolDen <= TolNum * m
  BY <1>2, <1>3, <1>4
<1>6. x <= (TolNum * m) \div TolDen
  BY <1>1, <1>4, <1>5, DivisionBound, LotAssumption
<1>7. DriftPerSplit = (TolNum * m) \div TolDen
  BY DEF DriftPerSplit, m, Excess
<1> QED
  BY <1>1, <1>6, <1>7, DriftType

\* One more split allows for one more residue.
LEMMA DriftGrows ==
  ASSUME NEW n \in Nat
  PROVE  /\ n * DriftPerSplit \in Nat
         /\ (n + 1) * DriftPerSplit = n * DriftPerSplit + DriftPerSplit
  BY DriftType, Z3

\* The quantities a booking compares.
LEMMA BookedSizes ==
  ASSUME RelayBase, EntryBook \/ ReentryBook \/ ExitBook
  PROVE  /\ qty.fr - qty.kr <= DriftPerSplit /\ qty.kr - qty.fr <= DriftPerSplit
         /\ qty.fr \in Int /\ qty.kr \in Int
<1>1. TypeOK /\ Sizes
  BY DEF RelayBase, RelayTypes
<1>2. qty.fr \in Int /\ qty.kr \in Int
  BY <1>1 DEF TypeOK
<1>3. /\ pc \in {"entry_cmp", "entry_hedged", "exit_cmp", "exit_hedged"}
      /\ quantities_match(qty.fr, qty.kr)
  BY DEF EntryBook, ReentryBook, ExitBook
<1>4. qty.fr <= MaxNaked + Excess /\ qty.kr <= MaxNaked + Excess
  BY <1>1, <1>2, <1>3, SizeBounds DEF Sizes
<1> QED
  BY <1>2, <1>3, <1>4, MatchBound

-----------------------------------------------------------------------------
(* The drift.                                                              *)

\* the residue of the splits booked so far
Residue == (krTold - InKr) - (frTold - InFr)

\* The unwinding function's covers and sells fill as they were asked to.
UnwindEven ==
  exiting =>
    /\ pc \in {"kr_sell", "exit_latch"} => foreign_order.done = foreign_order.quantity
    /\ pc = "exit_latch" /\ korean_order.ok => korean_order.done = foreign_order.done
    /\ pc = "exit_cmp" => qty.fr = qty.kr

Drift ==
  /\ pc = "call" =>
       /\ tracker.kr = krTold /\ tracker.fr = frTold
       /\ quantities_match(tracker.kr, tracker.fr) => krTold = frTold
  /\ InSplit => /\ Residue <= splits * DriftPerSplit
                /\ -Residue <= splits * DriftPerSplit

LEMMA UnwindEvenStep ==
  ASSUME HonestVenues, ExactUnwind, RelayBase, UnwindEven, [RelayNext]_relayVars
  PROVE  UnwindEven'
<1>1. TypeOK /\ Legs /\ RelayTypes
  BY DEF RelayBase, RelayTypes
<1>2. foreign_order \in OrderType /\ korean_order \in OrderType
  BY <1>1 DEF TypeOK
<1>3. CASE pc' \notin {"kr_sell", "exit_latch", "exit_cmp"}
  BY <1>3 DEF UnwindEven
<1>4. CASE ~exiting /\ UNCHANGED relay
  BY <1>4 DEF UnwindEven, relay
<1>5. CASE Idle /\ UNCHANGED relay
  BY <1>3, <1>5 DEF Idle, UnwindEven, local, relay
<1>6. CASE exiting /\ UNCHANGED relay /\ ReentrySplit
  <2>1. CASE CoverEffect("unwind_cover")
    <3>1. CASE pc' = "loop"
      BY <1>3, <3>1
    <3>2. CASE pc' # "loop"
      <4>1. PICK q \in Nat, done \in Nat :
              /\ done = q /\ pc' = "kr_sell"
              /\ foreign_order' = Order("unwind_cover", TRUE, q, done)
        BY <2>1, <3>2 DEF CoverEffect, ExactUnwind
      <4>2. foreign_order'.done = foreign_order'.quantity
        BY <4>1 DEF Order
      <4> QED
        BY <4>1, <4>2 DEF UnwindEven
    <3> QED
      BY <3>1, <3>2
  <2>2. CASE SellEffect("unwind_sell")
    <3>1. PICK ok \in BOOLEAN, done \in Nat :
            /\ ok => done = foreign_order.quantity
            /\ korean_order' = Order("unwind_sell", ok, foreign_order.quantity, done)
      BY <2>2 DEF SellEffect, ExactUnwind
    <3>2. korean_order'.ok = ok /\ korean_order'.done = done
      BY <3>1 DEF Order
    <3>3. pc = "kr_sell" /\ pc' = "exit_latch" /\ UNCHANGED foreign_order
      BY <2>2 DEF SellEffect
    <3> QED
      BY <1>6, <3>1, <3>2, <3>3 DEF UnwindEven
  <2>3. CASE ExitLatch
    <3>1. /\ pc = "exit_latch" /\ queries = {}
          /\ qty' = [fr |-> resolved_fill_quantity(foreign_order),
                     kr |-> resolved_fill_quantity(korean_order)]
          /\ pc' = IF korean_order.ok THEN "exit_cmp" ELSE "sell_retry"
      BY <2>3 DEF ExitLatch, LatchOpen
    <3>2. CASE korean_order.ok
      <4>1. resolved_fill_quantity(foreign_order) = foreign_order.done
        BY <1>1, <1>2, <3>1, Resolved DEF Legs, ForeignLeg
      <4>2. resolved_fill_quantity(korean_order) = korean_order.done
        BY <1>1, <1>2, <3>1, <3>2, Resolved DEF Legs
      <4>3. qty'.fr = qty'.kr
        BY <1>6, <3>1, <3>2, <4>1, <4>2 DEF UnwindEven
      <4> QED
        BY <3>1, <3>2, <4>3 DEF UnwindEven
    <3>3. CASE ~korean_order.ok
      BY <1>3, <3>1, <3>3
    <3> QED
      BY <3>2, <3>3
  <2>4. CASE \E leg \in {"fr", "kr"} : QueryEffect(leg)
    <3>1. UNCHANGED <<pc, qty>>
      BY <2>4 DEF QueryEffect
    <3>2. /\ foreign_order'.quantity = foreign_order.quantity
          /\ foreign_order'.done = foreign_order.done
          /\ korean_order'.done = korean_order.done
          /\ korean_order'.ok => korean_order.ok
      BY <1>2, <2>4 DEF QueryEffect, OrderType
    <3> QED
      BY <1>6, <3>1, <3>2 DEF UnwindEven
  <2>5. CASE \/ ShortEffect(reentry_size) \/ BuyEffect \/ EntryLatch
             \/ RollbackEffect(foreign_order.quantity) \/ RollbackEffect(qty.fr)
    <3>1. pc' \in {"loop", "min_guard", "kr_buy", "entry_latch", "entry_cmp",
                   "entry_rollback", "stopped"}
      BY <2>5 DEF ShortEffect, BuyEffect, EntryLatch, RollbackEffect,
         trigger_critical_stop
    <3> QED
      BY <1>3, <3>1
  <2>6. CASE \/ EntryFixForeign \/ EntryFixKorean \/ EntryStillMismatched
             \/ ExitFixForeign \/ ExitFixKorean \/ ExitStillMismatched \/ RetryEffect
    <3>1. pc' \in {"loop", "entry_hedged", "exit_hedged", "sell_retry", "stopped"}
      BY <2>6 DEF EntryFixForeign, EntryFixKorean, EntryStillMismatched, ExitFixForeign,
         ExitFixKorean, ExitStillMismatched, RetryEffect, EntryStop, ExitStop,
         RetryStop, trigger_critical_stop
    <3> QED
      BY <1>3, <3>1
  <2> QED
    BY <1>6, <2>1, <2>2, <2>3, <2>4, <2>5, <2>6 DEF ReentrySplit, SplitStep
<1>7. CASE UnwindBegin \/ UnwindBook \/ ReentryBook
  BY <1>3, <1>7 DEF UnwindBegin, UnwindBook, ReentryBook
<1> QED
  BY <1>1, <1>4, <1>5, <1>6, <1>7, RelayCases

LEMMA ResidueType ==
  ASSUME TypeOK
  PROVE  /\ krTold \in Int /\ frTold \in Int /\ InKr \in Int /\ InFr \in Int
         /\ Residue \in Int /\ splits * DriftPerSplit \in Nat /\ splits \in Nat
  BY VenueTyped, ToldTypes, InFlightTypes, DriftGrows DEF TypeOK, Residue

\* A split's step adds nothing to the residue, a retried sell included.
LEMMA DriftSplit ==
  ASSUME TypeOK, TypeOK', Drift, Accounted PROVE Drift'
<1>1. /\ krTold \in Int /\ frTold \in Int /\ Residue \in Int
      /\ splits * DriftPerSplit \in Nat /\ splits \in Nat /\ qty.fr \in Int
      /\ InKr \in Int /\ InFr \in Int
  BY ResidueType DEF TypeOK
<1>2. CASE Quiet
  <2>1. InSplit /\ pc' # "call" /\ UNCHANGED splits
    BY <1>2 DEF Quiet, InSplit
  <2>2. Residue' = Residue
    BY <1>2 DEF Quiet, Residue
  <2> QED
    BY <2>1, <2>2 DEF Drift
<1>3. CASE Stopped
  BY <1>3 DEF Stopped, Drift, InSplit
<1>4. CASE RetryBooked /\ pc' = "loop"
  <2>1. InFr = -qty.fr /\ InKr = 0 /\ InFr' = 0 /\ InKr' = 0
    BY <1>4 DEF RetryBooked, InFr, InKr
  <2>2. krTold' = krTold - qty.fr /\ frTold' = frTold /\ splits' = splits + 1
    BY <1>4 DEF RetryBooked
  <2>3. Residue' = Residue
    BY <1>1, <2>1, <2>2 DEF Residue
  <2>4. /\ Residue <= splits * DriftPerSplit /\ -Residue <= splits * DriftPerSplit
    BY <1>4 DEF Drift, RetryBooked, InSplit
  <2>5. splits' * DriftPerSplit = splits * DriftPerSplit + DriftPerSplit
    BY <1>1, <2>2, DriftGrows
  <2> QED
    BY <1>1, <1>4, <2>3, <2>4, <2>5, DriftType DEF Drift
<1>5. CASE RetryBooked /\ pc' # "loop"
  BY <1>5 DEF RetryBooked, RetryStop, trigger_critical_stop, Drift, InSplit
<1> QED
  BY <1>2, <1>3, <1>4, <1>5 DEF Accounted

\* A booking adds at most DriftPerSplit to it.
LEMMA DriftBook ==
  ASSUME RelayBase, UnwindEven, Drift,
         EntryBook \/ ReentryBook \/ ExitBook \/ (exiting /\ UnwindBook)
  PROVE  Drift'
<1>1. TypeOK
  BY DEF RelayBase, RelayTypes
<1>2. /\ krTold \in Int /\ frTold \in Int /\ Residue \in Int
      /\ splits * DriftPerSplit \in Nat /\ splits \in Nat
      /\ qty.fr \in Int /\ qty.kr \in Int
  BY <1>1, ResidueType DEF TypeOK
<1>3. /\ pc' = "loop" /\ InFr' = 0 /\ InKr' = 0 /\ splits' = splits + 1
      /\ krTold' = krTold /\ frTold' = frTold
  BY LegsBook
<1>4. qty.fr - qty.kr <= DriftPerSplit /\ qty.kr - qty.fr <= DriftPerSplit
  <2>1. CASE EntryBook \/ ReentryBook \/ ExitBook
    BY <2>1, BookedSizes
  <2>2. CASE exiting /\ UnwindBook
    BY <1>2, <2>2, DriftType DEF UnwindEven, UnwindBook
  <2> QED
    BY <2>1, <2>2
<1>5. \/ InFr = qty.fr /\ InKr = qty.kr
      \/ InFr = -qty.fr /\ InKr = -qty.kr
  BY DEF EntryBook, ReentryBook, ExitBook, UnwindBook, InFr, InKr
<1>6. Residue' = krTold - frTold
  BY <1>2, <1>3 DEF Residue
<1>7. Residue' - Residue <= DriftPerSplit /\ Residue - Residue' <= DriftPerSplit
  BY <1>2, <1>4, <1>5, <1>6, DriftType DEF Residue
<1>8. InSplit
  BY DEF EntryBook, ReentryBook, ExitBook, UnwindBook, InSplit
<1>9. Residue <= splits * DriftPerSplit /\ -Residue <= splits * DriftPerSplit
  BY <1>8 DEF Drift
<1>10. splits' * DriftPerSplit = splits * DriftPerSplit + DriftPerSplit
  BY <1>2, <1>3, DriftGrows
<1> QED
  BY <1>2, <1>3, <1>6, <1>7, <1>9, <1>10, DriftType DEF Drift

\* The other steps do not change it; a call begins without one.
LEMMA DriftOther ==
  ASSUME TypeOK, Legs, Drift, Idle \/ Begin \/ UnwindBegin PROVE Drift'
<1>1. /\ krTold \in Int /\ frTold \in Int /\ splits * DriftPerSplit \in Nat
  BY ResidueType
<1>2. /\ InFr' = InFr /\ InKr' = InKr /\ krTold' = krTold /\ frTold' = frTold
      /\ UNCHANGED <<splits, tracker>>
  BY LegsIdle
<1>3. Residue' = Residue
  BY <1>2 DEF Residue
<1>4. CASE Idle
  BY <1>2, <1>3, <1>4 DEF Idle, Drift, InSplit
<1>5. CASE Begin \/ UnwindBegin
  <2>1. pc = "call" /\ pc' = "loop" /\ quantities_match(tracker.kr, tracker.fr)
    BY <1>5 DEF Begin, UnwindBegin
  <2>2. krTold = frTold /\ InFr = 0 /\ InKr = 0
    BY <2>1 DEF Drift, InFr, InKr
  <2>3. Residue = 0
    BY <1>1, <2>2 DEF Residue
  <2> QED
    BY <1>1, <1>2, <1>3, <2>1, <2>3 DEF Drift
<1> QED
  BY <1>4, <1>5

DriftInv == RelayBase /\ UnwindEven /\ Drift

LEMMA DriftStep ==
  ASSUME HonestVenues, ExactUnwind, DriftInv, [RelayNext]_relayVars PROVE DriftInv'
<1>1. RelayBase /\ UnwindEven /\ Drift /\ RelayTypes /\ TypeOK /\ Legs
  BY DEF DriftInv, RelayBase, RelayTypes
<1>2. RelayBase' /\ UnwindEven' /\ TypeOK'
  BY <1>1, RelayBaseStep, UnwindEvenStep DEF RelayBase, RelayTypes
<1>3. ASSUME LoopSplit \/ ReentrySplit PROVE Drift'
  BY <1>1, <1>2, <1>3, RelaySplit, DriftSplit
<1>4. Drift'
  BY <1>1, <1>3, RelayCases, DriftBook, DriftOther
<1> QED
  BY <1>2, <1>4 DEF DriftInv

\* Whatever fills, refusals and corrections a run of either function meets, on
\* every pair of venues, the residues its tolerance leaves add up to at most
\* DriftPerSplit for each booked split.
THEOREM DriftBounded ==
  ASSUME HonestVenues, ExactUnwind, StartsEven PROVE RelaySpec => []BoundedDrift
<1>1. RelayInit => DriftInv
  <2> SUFFICES ASSUME RelayInit PROVE DriftInv
    OBVIOUS
  <2>1. Init /\ pc = "call"
    BY DEF RelayInit, Init
  <2>2. PICK p \in InitPositions :
          /\ krTold = p.kr /\ frTold = p.fr /\ tracker.kr = p.kr /\ tracker.fr = p.fr
    BY <2>1, StartTold
  <2>3. Drift
    BY <2>1, <2>2 DEF StartsEven, Drift, InSplit
  <2>4. RelayBase /\ UnwindEven
    BY <2>1, RelayTypeInit, LegsInit, SizesInit DEF RelayBase, UnwindEven
  <2> QED
    BY <2>3, <2>4 DEF DriftInv
<1>2. DriftInv /\ [RelayNext]_relayVars => DriftInv'
  BY DriftStep
<1>3. DriftInv => BoundedDrift
  <2> SUFFICES ASSUME DriftInv, AtRest
               PROVE  Distance(krTold, frTold) <= splits * DriftPerSplit
    BY DEF BoundedDrift
  <2>1. TypeOK /\ Drift
    BY DEF DriftInv, RelayBase, RelayTypes
  <2>2. InSplit /\ InFr = 0 /\ InKr = 0
    BY DEF AtRest, InSplit, InFr, InKr
  <2>3. Residue <= splits * DriftPerSplit /\ -Residue <= splits * DriftPerSplit
    BY <2>1, <2>2 DEF Drift
  <2> QED
    BY <2>1, <2>2, <2>3, ResidueType DEF Residue, Distance
<1> QED
  BY <1>1, <1>2, <1>3, PTL DEF RelaySpec

-----------------------------------------------------------------------------
(* The unwinding function does not grow its position.                      *)

\* A re-entry is no larger than what has been sold.
ReentryFits ==
  exiting =>
    /\ pc \in {"kr_buy", "entry_latch"} =>
         foreign_order.done <= original_amount - held_amount
    /\ pc \in {"entry_cmp", "entry_hedged"} => qty.fr <= original_amount - held_amount

LEMMA ReentryFitsSplit ==
  ASSUME HonestVenues, RelayBase, ReentryFits, exiting, UNCHANGED relay, ReentrySplit
  PROVE  ReentryFits'
<1> DEFINE room == original_amount - held_amount
<1>1. TypeOK /\ Legs /\ original_amount \in Int /\ held_amount \in Int
  BY DEF RelayBase, RelayTypes, TypeOK
<1>2. /\ room \in Int /\ qty.fr \in Int /\ foreign_order.done \in Int
      /\ foreign_order \in OrderType /\ korean_order \in OrderType
  BY <1>1 DEF TypeOK, OrderType
<1>3. CASE pc' \notin {"kr_buy", "entry_latch", "entry_cmp", "entry_hedged"}
  BY <1>3 DEF ReentryFits
<1>4. ASSUME UNCHANGED held_amount,
             /\ pc' \in {"kr_buy", "entry_latch"} => foreign_order'.done <= room
             /\ pc' \in {"entry_cmp", "entry_hedged"} => qty'.fr <= room
      PROVE  ReentryFits'
  BY <1>4 DEF ReentryFits, relay
<1>5. /\ pc \in {"kr_buy", "entry_latch"} => foreign_order.done <= room
      /\ pc \in {"entry_cmp", "entry_hedged"} => qty.fr <= room
  BY DEF ReentryFits
<1>6. reentry_size \in Int /\ reentry_size <= room
  BY <1>1, SizeTypes
<1> HIDE DEF room
<1>7. CASE ShortEffect(reentry_size) /\ pc' = "kr_buy"
  <2>1. PICK q \in Nat, done \in Nat :
          /\ q <= reentry_size /\ done <= q
          /\ foreign_order' = Order("short", TRUE, q, done)
    BY <1>7 DEF ShortEffect
  <2>2. foreign_order'.done = done
    BY <2>1 DEF Order
  <2>3. UNCHANGED held_amount
    BY <1>7 DEF ShortEffect
  <2>4. done <= room
    BY <1>2, <1>6, <2>1
  <2>5. foreign_order'.done <= room
    BY <2>2, <2>4
  <2> QED
    BY <1>4, <1>7, <2>3, <2>5
<1>8. CASE BuyEffect
  BY <1>4, <1>5, <1>8 DEF BuyEffect
<1>9. CASE EntryLatch
  <2>1. /\ pc = "entry_latch" /\ queries = {} /\ UNCHANGED held_amount
        /\ qty'.fr = resolved_fill_quantity(foreign_order)
        /\ pc' \in {"entry_cmp", "entry_rollback"}
    BY <1>9 DEF EntryLatch, LatchOpen
  <2>2. qty'.fr = foreign_order.done
    BY <1>1, <1>2, <2>1, Resolved DEF Legs, ForeignLeg
  <2> QED
    BY <1>4, <1>5, <2>1, <2>2
<1>10. CASE (EntryFixForeign \/ EntryFixKorean) /\ pc' # "stopped"
  <2>1. PICK f \in Nat : qty'.fr = qty.fr - f \/ qty'.fr = qty.fr
    BY <1>10 DEF EntryFixForeign, EntryFixKorean, EntryStop, trigger_critical_stop
  <2>2. pc = "entry_cmp" /\ pc' = "entry_hedged" /\ UNCHANGED held_amount
    BY <1>10 DEF EntryFixForeign, EntryFixKorean, FixUnchanged, EntryStop,
       trigger_critical_stop
  <2> QED
    BY <1>2, <1>4, <1>5, <2>1, <2>2
<1>11. CASE \E leg \in {"fr", "kr"} : QueryEffect(leg)
  <2>1. UNCHANGED <<pc, qty, held_amount>>
    BY <1>11 DEF QueryEffect
  <2>2. foreign_order'.done = foreign_order.done
    BY <1>2, <1>11 DEF QueryEffect, OrderType
  <2> QED
    BY <1>4, <1>5, <2>1, <2>2
<1>12. CASE \/ ShortEffect(reentry_size) /\ pc' # "kr_buy"
            \/ RollbackEffect(foreign_order.quantity) \/ RollbackEffect(qty.fr)
            \/ CoverEffect("unwind_cover") \/ SellEffect("unwind_sell") \/ ExitLatch
            \/ (EntryFixForeign \/ EntryFixKorean) /\ pc' = "stopped"
            \/ EntryStillMismatched \/ ExitFixKorean \/ ExitFixForeign
            \/ ExitStillMismatched \/ RetryEffect
  <2>1. pc' \in {"loop", "min_guard", "kr_sell", "exit_latch", "exit_cmp", "exit_hedged",
                 "sell_retry", "stopped"}
    BY <1>12 DEF ShortEffect, RollbackEffect, CoverEffect, SellEffect, ExitLatch,
       EntryStillMismatched, ExitFixKorean, ExitFixForeign, ExitStillMismatched,
       RetryEffect, EntryStop, ExitStop, RetryStop, trigger_critical_stop
  <2> QED
    BY <1>3, <2>1
<1> QED
  BY <1>7, <1>8, <1>9, <1>10, <1>11, <1>12 DEF ReentrySplit, SplitStep

LEMMA ReentryFitsStep ==
  ASSUME HonestVenues, RelayBase, ReentryFits, [RelayNext]_relayVars
  PROVE  ReentryFits'
<1>1. RelayTypes
  BY DEF RelayBase
<1>2. CASE ~exiting /\ UNCHANGED relay
  BY <1>2 DEF ReentryFits, relay
<1>3. CASE Idle /\ UNCHANGED relay
  BY <1>3 DEF ReentryFits, Idle, local, relay
<1>4. CASE UnwindBegin \/ UnwindBook \/ ReentryBook
  BY <1>4 DEF ReentryFits, UnwindBegin, UnwindBook, ReentryBook
<1> QED
  BY <1>1, <1>2, <1>3, <1>4, ReentryFitsSplit, RelayCases

\* The book and the short stay within the position that was to be unwound.
Within ==
  exiting =>
    /\ pc = "call" => tracker.fr = frTold
    /\ InSplit => /\ held_amount <= original_amount
                  /\ frTold - InFr <= held_amount + splits * DriftPerSplit

LEMMA WithinStep ==
  ASSUME HonestVenues, RelayBase, ReentryFits, Within, [RelayNext]_relayVars
  PROVE  Within'
<1>1. RelayTypes /\ TypeOK /\ Legs /\ Sizes
  BY DEF RelayBase, RelayTypes
<1>2. /\ frTold \in Int /\ InFr \in Int /\ held_amount \in Int /\ original_amount \in Int
      /\ splits * DriftPerSplit \in Nat /\ splits \in Nat
      /\ qty.fr \in Int /\ qty.kr \in Int
  BY <1>1, ResidueType DEF TypeOK, RelayTypes
<1>3. /\ DriftPerSplit \in Nat
      /\ (splits + 1) * DriftPerSplit = splits * DriftPerSplit + DriftPerSplit
  BY <1>2, DriftType, DriftGrows
<1>4. CASE ~exiting /\ UNCHANGED relay
  BY <1>4 DEF Within, relay
<1>5. CASE Idle /\ UNCHANGED relay
  <2>1. InFr' = InFr /\ frTold' = frTold /\ UNCHANGED <<splits, tracker>>
    BY <1>1, <1>5, LegsIdle
  <2> QED
    BY <1>5, <2>1 DEF Within, InSplit, Idle, local, relay
<1>6. CASE exiting /\ UnwindBegin /\ UNCHANGED exiting
  <2>1. InFr' = InFr /\ frTold' = frTold /\ UNCHANGED splits
    BY <1>1, <1>6, LegsIdle
  <2>2. /\ pc = "call" /\ pc' = "loop" /\ held_amount' = tracker.fr
        /\ original_amount' = tracker.fr
    BY <1>6 DEF UnwindBegin
  <2>3. InFr = 0 /\ tracker.fr = frTold
    BY <1>6, <2>2 DEF InFr, Within
  <2> QED
    BY <1>2, <2>1, <2>2, <2>3 DEF Within
<1>7. CASE exiting /\ UNCHANGED relay /\ ReentrySplit
  <2>1. Accounted
    BY <1>7, RelaySplit
  <2>2. CASE Quiet
    <3>1. InSplit /\ pc' # "call" /\ UNCHANGED <<splits, held_amount>>
      BY <2>2 DEF Quiet, InSplit
    <3>2. frTold' - InFr' = frTold - InFr
      BY <2>2 DEF Quiet
    <3> QED
      BY <1>7, <3>1, <3>2 DEF Within, relay
  <2>3. CASE Stopped
    BY <2>3 DEF Stopped, Within, InSplit
  <2>4. CASE RetryBooked /\ pc' = "loop"
    <3>1. /\ InFr = -qty.fr /\ InFr' = 0 /\ frTold' = frTold /\ splits' = splits + 1
          /\ held_amount' = held_amount - qty.fr
      BY <2>4 DEF RetryBooked, InFr
    <3>2. qty.fr > 0
      BY <1>1, <1>2, <2>4, SizeBounds DEF RetryBooked, Sizes
    <3>3. /\ held_amount <= original_amount
          /\ frTold - InFr <= held_amount + splits * DriftPerSplit
      BY <1>7, <2>4 DEF Within, RetryBooked, InSplit
    <3>4. /\ held_amount' <= original_amount
          /\ frTold' - InFr' <= held_amount' + splits' * DriftPerSplit
      BY <1>2, <1>3, <3>1, <3>2, <3>3
    <3> QED
      BY <1>7, <2>4, <3>4 DEF Within, relay
  <2>5. CASE RetryBooked /\ pc' # "loop"
    BY <2>5 DEF RetryBooked, RetryStop, trigger_critical_stop, Within, InSplit
  <2> QED
    BY <2>1, <2>2, <2>3, <2>4, <2>5 DEF Accounted
<1>8. CASE exiting /\ UNCHANGED relay /\ UnwindBook
  <2>1. /\ pc' = "loop" /\ InFr' = 0 /\ splits' = splits + 1 /\ frTold' = frTold
    BY <1>8, LegsBook
  <2>2. pc = "exit_cmp" /\ held_amount' = held_amount - qty.fr
    BY <1>8 DEF UnwindBook
  <2>3. InFr = -qty.fr /\ qty.fr > 0
    BY <1>1, <1>2, <2>2, SizeBounds DEF InFr, Sizes
  <2>4. /\ held_amount <= original_amount
        /\ frTold - InFr <= held_amount + splits * DriftPerSplit
    BY <1>8, <2>2 DEF Within, InSplit
  <2>5. /\ held_amount' <= original_amount
        /\ frTold' - InFr' <= held_amount' + splits' * DriftPerSplit
    BY <1>2, <1>3, <2>1, <2>2, <2>3, <2>4
  <2> QED
    BY <1>8, <2>1, <2>5 DEF Within, relay
<1>9. CASE exiting /\ UNCHANGED relay /\ ReentryBook
  <2>1. /\ pc' = "loop" /\ InFr' = 0 /\ splits' = splits + 1 /\ frTold' = frTold
    BY <1>9, LegsBook
  <2>2. /\ pc \in {"entry_cmp", "entry_hedged"}
        /\ held_amount' = held_amount + Least(qty.fr, qty.kr)
    BY <1>9 DEF ReentryBook
  <2>3. InFr = qty.fr /\ qty.fr <= original_amount - held_amount
    BY <1>9, <2>2 DEF InFr, ReentryFits
  <2>4. /\ frTold - InFr <= held_amount + splits * DriftPerSplit
    BY <1>9, <2>2 DEF Within, InSplit
  <2>5. qty.fr - qty.kr <= DriftPerSplit
    BY <1>9, BookedSizes
  <2>6. /\ Least(qty.fr, qty.kr) \in Int /\ Least(qty.fr, qty.kr) <= qty.fr
        /\ qty.fr - Least(qty.fr, qty.kr) <= DriftPerSplit
    BY <1>2, <1>3, <2>5 DEF Least
  <2>7. /\ held_amount' <= original_amount
        /\ frTold' - InFr' <= held_amount' + splits' * DriftPerSplit
    BY <1>2, <1>3, <2>1, <2>2, <2>3, <2>4, <2>6
  <2> QED
    BY <1>9, <2>1, <2>7 DEF Within, relay
<1> QED
  BY <1>1, <1>4, <1>5, <1>6, <1>7, <1>8, <1>9, RelayCases

\* Re-entries of the unwinding function never take the position beyond the one
\* it was called with, whatever is refused, corrected or retried in between.
THEOREM UnwindNeverGrows ==
  ASSUME HonestVenues PROVE RelaySpec => []NeverBeyondOriginal
<1>1. RelayInit => ReentryFits /\ Within
  <2> SUFFICES ASSUME RelayInit PROVE ReentryFits /\ Within
    OBVIOUS
  <2>1. Init /\ pc = "call"
    BY DEF RelayInit, Init
  <2>2. tracker.fr = frTold
    BY <2>1, StartTold
  <2> QED
    BY <2>1, <2>2 DEF ReentryFits, Within, InSplit
<1>2. RelayBase /\ ReentryFits /\ Within /\ [RelayNext]_relayVars
        => ReentryFits' /\ Within'
  BY ReentryFitsStep, WithinStep
<1>3. RelayBase /\ Within => NeverBeyondOriginal
  <2> SUFFICES ASSUME RelayBase, Within, exiting, AtRest
               PROVE  /\ held_amount <= original_amount
                      /\ frTold <= original_amount + splits * DriftPerSplit
    BY DEF NeverBeyondOriginal
  <2>1. TypeOK /\ original_amount \in Int /\ held_amount \in Int
    BY DEF RelayBase, RelayTypes, TypeOK
  <2>2. /\ InFr = 0 /\ held_amount <= original_amount
        /\ frTold - InFr <= held_amount + splits * DriftPerSplit
    BY DEF AtRest, InSplit, InFr, Within
  <2> QED
    BY <2>1, <2>2, ResidueType
<1> QED
  BY <1>1, <1>2, <1>3, RelayBaseInvariant, PTL DEF RelaySpec

-----------------------------------------------------------------------------
(* What a crash between two splits recovers.                               *)

\* Below a whole lot nothing matches a quantity but itself: with a tolerance
\* of less than one, zero matches no fill.
LEMMA MatchPositive ==
  ASSUME TolNum < TolDen, NEW a \in Nat, NEW b \in Nat, b > 0, quantities_match(a, b)
  PROVE  a > 0
<1> SUFFICES ASSUME a = 0 PROVE FALSE
  OBVIOUS
<1>1. Distance(a, b) = b /\ Greatest(a, b) = b
  BY DEF Distance, Greatest
<1>2. b * TolDen <= TolNum * b
  BY <1>1 DEF quantities_match
<1>3. TolNum * b < b * TolDen
  BY LotAssumption, Z3
<1> QED
  BY <1>2, <1>3, LotAssumption

\* The lots of the loop's splits on Bybit: an order against a book that was
\* closed too far is larger than what it was closed too far by, and a cover
\* exceeds the book by less than a lot.
LoopLots ==
  /\ pc \in {"kr_buy", "entry_latch"} =>
       /\ Aligned(foreign_order.done)
       /\ held_amount < 0 => foreign_order.quantity >= Step + Slip
  /\ pc = "entry_latch" /\ korean_order.ok /\ held_amount < 0 =>
       korean_order.done >= Step
  /\ pc = "entry_cmp" =>
       Aligned(qty.fr) /\ (held_amount < 0 => qty.kr >= Step)
  /\ pc = "entry_hedged" =>
       qty.fr >= 0 /\ (held_amount < 0 => qty.fr >= Step /\ qty.kr >= Step)
  /\ pc \in {"kr_sell", "exit_latch"} =>
       /\ foreign_order.quantity < held_amount + Step
       /\ foreign_order.done < held_amount + Step
  /\ pc = "exit_latch" => korean_order.done < held_amount + Step
  /\ pc = "sell_retry" => qty.fr < held_amount + Step
  /\ pc = "exit_cmp" => qty.fr < held_amount + Step /\ qty.kr < held_amount + Step
  /\ pc = "exit_hedged" => qty.fr < held_amount + Step \/ qty.kr < held_amount + Step

LEMMA LotsAtRest ==
  ASSUME pc' \in {"call", "refused", "loop", "done", "stopped", "min_guard",
                  "entry_rollback"}
  PROVE  LoopLots'
  BY DEF LoopLots

\* The orders of a split.
LEMMA LotsOrders ==
  ASSUME OrdersExceedLots, TypeOK, Legs, Sizes, LoopLots,
         \/ ShortEffect(next_order_size) \/ BuyEffect
         \/ CoverEffect("cover") \/ SellEffect("sell")
  PROVE  LoopLots'
<1>1. /\ held_amount \in Int /\ Step \in Nat /\ Slip \in Nat /\ OrderSize \in Nat
      /\ PositionSize \in Nat /\ ForeignExchange = "Bybit" /\ MinQty <= Step
      /\ 2 * Step + Slip <= OrderSize /\ OrderSize <= PositionSize
      /\ foreign_order.quantity \in Nat
  BY LotAssumption, SizeAssumption DEF TypeOK, OrderType, OrdersExceedLots
<1>2. CASE ShortEffect(next_order_size) /\ pc' = "kr_buy"
  <2>1. PICK q \in Nat, done \in Nat :
          /\ next_order_size < q + Step /\ Aligned(done)
          /\ foreign_order' = Order("short", TRUE, q, done)
    BY <1>2 DEF ShortEffect
  <2>2. foreign_order'.quantity = q /\ foreign_order'.done = done
    BY <2>1 DEF Order
  <2>3. UNCHANGED held_amount
    BY <1>2 DEF ShortEffect
  <2>4. held_amount < 0 => next_order_size = OrderSize
    BY <1>1 DEF next_order_size, Least, Greatest
  <2>5. held_amount < 0 => q >= Step + Slip
    BY <1>1, <2>1, <2>4
  <2> QED
    BY <1>2, <2>1, <2>2, <2>3, <2>5 DEF LoopLots
<1>3. CASE BuyEffect
  <2>1. /\ pc = "kr_buy" /\ pc' = "entry_latch"
        /\ UNCHANGED <<held_amount, foreign_order>>
    BY <1>3 DEF BuyEffect
  <2>2. PICK ok \in BOOLEAN, done \in Nat :
          /\ ok /\ foreign_order.quantity > 0 => done >= foreign_order.quantity - Slip
          /\ korean_order' = Order("buy", ok, buy_order_quantity, done)
    BY <1>3 DEF BuyEffect
  <2>3. korean_order'.ok = ok /\ korean_order'.done = done
    BY <2>2 DEF Order
  <2>4. foreign_order.quantity > 0
    BY <2>1 DEF Legs
  <2>5. ok /\ held_amount < 0 => done >= Step
    BY <1>1, <2>1, <2>2, <2>4 DEF LoopLots
  <2> QED
    BY <2>1, <2>3, <2>5 DEF LoopLots
<1>4. CASE CoverEffect("cover") /\ pc' # "loop"
  <2>1. PICK q \in Nat, done \in Nat :
          /\ q = close_qty(exit_coin_amount)
          /\ CoverFill(exit_coin_amount, done)
          /\ pc' = "kr_sell" /\ foreign_order' = Order("cover", TRUE, q, done)
    BY <1>4 DEF CoverEffect
  <2>2. foreign_order'.quantity = q /\ foreign_order'.done = done
    BY <2>1 DEF Order
  <2>3. held_amount > 0 /\ UNCHANGED held_amount
    BY <1>4 DEF CoverEffect
  <2>4. exit_coin_amount \in Int /\ exit_coin_amount > 0 /\ exit_coin_amount <= held_amount
    BY <2>3, ExitSize
  <2>5. q < exit_coin_amount + Step
    BY <1>1, <2>1, <2>4, CloseBound
  <2>6. done <= q
    BY <1>1, <2>1 DEF CoverFill
  <2>7. q < held_amount + Step /\ done < held_amount + Step
    BY <1>1, <2>4, <2>5, <2>6
  <2> QED
    BY <2>1, <2>2, <2>3, <2>7 DEF LoopLots
<1>5. CASE SellEffect("sell")
  <2>1. /\ pc = "kr_sell" /\ pc' = "exit_latch"
        /\ UNCHANGED <<held_amount, foreign_order>>
    BY <1>5 DEF SellEffect
  <2>2. PICK ok \in BOOLEAN, done \in Nat :
          /\ done <= foreign_order.quantity
          /\ korean_order' = Order("sell", ok, foreign_order.quantity, done)
    BY <1>5 DEF SellEffect
  <2>3. korean_order'.done = done
    BY <2>2 DEF Order
  <2>4. /\ foreign_order.quantity < held_amount + Step
        /\ foreign_order.done < held_amount + Step
    BY <2>1 DEF LoopLots
  <2>5. done < held_amount + Step
    BY <1>1, <2>2, <2>4
  <2> QED
    BY <2>1, <2>3, <2>4, <2>5 DEF LoopLots
<1>6. CASE \/ ShortEffect(next_order_size) /\ pc' # "kr_buy"
           \/ CoverEffect("cover") /\ pc' = "loop"
  <2>1. pc' \in {"loop", "min_guard"}
    BY <1>6 DEF ShortEffect
  <2> QED
    BY <2>1, LotsAtRest
<1> QED
  BY <1>2, <1>3, <1>4, <1>5, <1>6

\* What the latches find.
LEMMA LotsLatch ==
  ASSUME TypeOK, Legs, LoopLots, EntryLatch \/ ExitLatch PROVE LoopLots'
<1>1. /\ pc \in {"entry_latch", "exit_latch"} /\ queries = {} /\ UNCHANGED held_amount
      /\ qty' = [fr |-> resolved_fill_quantity(foreign_order),
                 kr |-> resolved_fill_quantity(korean_order)]
      /\ pc = "entry_latch" => pc' = IF korean_order.ok THEN "entry_cmp" ELSE "entry_rollback"
      /\ pc = "exit_latch" => pc' = IF korean_order.ok THEN "exit_cmp" ELSE "sell_retry"
  BY DEF EntryLatch, ExitLatch, LatchOpen
<1>2. foreign_order \in OrderType /\ korean_order \in OrderType
  BY DEF TypeOK
<1>3. resolved_fill_quantity(foreign_order) = foreign_order.done
  BY <1>1, <1>2, Resolved DEF Legs, ForeignLeg
<1>4. korean_order.ok => resolved_fill_quantity(korean_order) = korean_order.done
  BY <1>1, <1>2, Resolved DEF Legs
<1>5. qty'.fr = foreign_order.done /\ (korean_order.ok => qty'.kr = korean_order.done)
  BY <1>1, <1>3, <1>4
<1>6. \/ pc = "entry_latch" /\ korean_order.ok /\ pc' = "entry_cmp"
      \/ pc' = "entry_rollback"
      \/ pc = "exit_latch" /\ korean_order.ok /\ pc' = "exit_cmp"
      \/ pc = "exit_latch" /\ pc' = "sell_retry"
  BY <1>1, Zenon
<1> QED
  BY <1>1, <1>5, <1>6 DEF LoopLots

\* What one correction leaves.
LEMMA LotsFix ==
  ASSUME OrdersExceedLots, HonestVenues, TypeOK, Sizes, LoopLots, pc' # "stopped",
         EntryFixForeign \/ EntryFixKorean \/ ExitFixKorean \/ ExitFixForeign
  PROVE  LoopLots'
<1>1. /\ qty.fr \in Int /\ qty.kr \in Int /\ held_amount \in Int /\ Step \in Nat
      /\ Step > 0 /\ ForeignExchange = "Bybit" /\ MinQty <= Step
  BY LotAssumption DEF TypeOK, OrdersExceedLots
<1>2. ~EntryStop /\ ~ExitStop
  BY DEF EntryStop, ExitStop, trigger_critical_stop
<1>3. CASE EntryFixForeign
  <2>1. PICK done \in Nat :
          /\ CoverFill(qty.fr - qty.kr, done)
          /\ qty' = [fr |-> qty.fr - done, kr |-> qty.kr]
    BY <1>2, <1>3 DEF EntryFixForeign
  <2>2. /\ pc = "entry_cmp" /\ pc' = "entry_hedged" /\ UNCHANGED held_amount
        /\ qty.fr > qty.kr
    BY <1>2, <1>3 DEF EntryFixForeign, FixUnchanged
  <2>3. qty'.fr = qty.fr - done /\ qty'.kr = qty.kr
    BY <2>1
  <2>4. qty.kr > 0 /\ Aligned(qty.fr) /\ (held_amount < 0 => qty.kr >= Step)
    BY <1>1, <2>2, SizeBounds DEF Sizes, LoopLots
  <2>5. done <= CeilLot(qty.fr - qty.kr)
    BY <1>1, <2>1, <2>2, CloseBound DEF CoverFill
  <2>6. CeilLot(qty.fr - qty.kr) \in Int
    BY <1>1, CeilUp
  <2>7. CeilLot(qty.fr - qty.kr) <= qty.fr
    BY <1>1, <2>4, CeilBelow
  <2>8. held_amount < 0 => CeilLot(qty.fr - qty.kr) <= qty.fr - Step
    <3>1. Aligned(Step)
      <4>1. Step * 1 = Step
        BY <1>1
      <4> QED
        BY <4>1, CeilExact
    <3>2. Step \in Int
      BY <1>1
    <3>3. Aligned(qty.fr - Step)
      BY <1>1, <2>4, <3>1, <3>2, AlignedSum, Zenon
    <3> QED
      BY <1>1, <2>4, <3>2, <3>3, CeilBelow
  <2>9. qty'.fr >= 0 /\ (held_amount < 0 => qty'.fr >= Step /\ qty'.kr >= Step)
    BY <1>1, <2>3, <2>4, <2>5, <2>6, <2>7, <2>8
  <2> QED
    BY <2>2, <2>9 DEF LoopLots
<1>4. CASE EntryFixKorean
  <2>1. PICK done \in Nat :
          /\ done <= qty.kr - qty.fr
          /\ qty' = [fr |-> qty.fr, kr |-> qty.kr - done]
    BY <1>2, <1>4 DEF EntryFixKorean
  <2>2. /\ pc = "entry_cmp" /\ pc' = "entry_hedged" /\ UNCHANGED held_amount
        /\ qty.fr <= qty.kr
    BY <1>2, <1>4 DEF EntryFixKorean, FixUnchanged
  <2>3. qty'.fr = qty.fr /\ qty'.kr = qty.kr - done
    BY <2>1
  <2>4. qty.fr > 0 /\ Aligned(qty.fr)
    BY <1>1, <2>2, SizeBounds DEF Sizes, LoopLots
  <2>5. qty.fr >= Step
    BY <1>1, <2>4, AlignedStep
  <2>6. qty'.fr >= Step /\ qty'.kr >= Step
    BY <1>1, <2>1, <2>2, <2>3, <2>5
  <2>7. qty'.fr >= 0
    BY <1>1, <2>3, <2>4
  <2> QED
    BY <2>2, <2>6, <2>7 DEF LoopLots
<1>5. CASE ExitFixKorean
  <2>1. pc = "exit_cmp" /\ pc' = "exit_hedged" /\ UNCHANGED held_amount
    BY <1>2, <1>5 DEF ExitFixKorean, FixUnchanged
  <2>2. qty'.fr = qty.fr
    BY <1>2, <1>5 DEF ExitFixKorean
  <2> QED
    BY <2>1, <2>2 DEF LoopLots
<1>6. CASE ExitFixForeign
  <2>1. pc = "exit_cmp" /\ pc' = "exit_hedged" /\ UNCHANGED held_amount
    BY <1>2, <1>6 DEF ExitFixForeign, FixUnchanged
  <2>2. qty'.kr = qty.kr
    BY <1>2, <1>6 DEF ExitFixForeign
  <2> QED
    BY <2>1, <2>2 DEF LoopLots
<1> QED
  BY <1>3, <1>4, <1>5, <1>6

LEMMA LotsStep ==
  ASSUME OrdersExceedLots, HonestVenues, TypeOK, Legs, Sizes, LoopLots, LoopSplit
  PROVE  LoopLots'
<1>1. CASE \/ ShortEffect(next_order_size) \/ BuyEffect
           \/ CoverEffect("cover") \/ SellEffect("sell")
  BY <1>1, LotsOrders
<1>2. CASE EntryLatch \/ ExitLatch
  BY <1>2, LotsLatch
<1>3. CASE EntryFixForeign \/ EntryFixKorean \/ ExitFixKorean \/ ExitFixForeign
  BY <1>3, LotsFix, LotsAtRest
<1>4. CASE \/ EntryStillMismatched \/ ExitStillMismatched
           \/ RollbackEffect(foreign_order.quantity) \/ RollbackEffect(qty.fr)
  <2>1. pc' \in {"loop", "stopped"}
    BY <1>4 DEF EntryStillMismatched, ExitStillMismatched, RollbackEffect, EntryStop,
       ExitStop, trigger_critical_stop
  <2> QED
    BY <2>1, LotsAtRest
<1>5. CASE RetryEffect
  <2>1. \/ pc' \in {"loop", "stopped"}
        \/ pc = "sell_retry" /\ UNCHANGED <<pc, held_amount, qty>>
    BY <1>5 DEF RetryEffect, RetryStop, trigger_critical_stop
  <2>2. CASE pc = "sell_retry" /\ UNCHANGED <<pc, held_amount, qty>>
    BY <2>2 DEF LoopLots
  <2> QED
    BY <2>1, <2>2, LotsAtRest
<1>6. ASSUME NEW leg \in {"fr", "kr"}, QueryEffect(leg) PROVE LoopLots'
  <2>1. UNCHANGED <<pc, qty, held_amount>>
    BY <1>6 DEF QueryEffect
  <2>2. /\ foreign_order'.quantity = foreign_order.quantity
        /\ foreign_order'.done = foreign_order.done
        /\ korean_order'.done = korean_order.done
        /\ korean_order'.ok => korean_order.ok
    BY <1>6 DEF QueryEffect, TypeOK, OrderType
  <2> QED
    BY <2>1, <2>2 DEF LoopLots
<1> QED
  BY <1>1, <1>2, <1>3, <1>4, <1>5, <1>6 DEF LoopSplit, SplitStep

\* A saved book covers what is held, and has a position if something is.
LEMMA SnapshotCovers ==
  ASSUME NEW h \in Int, NEW p, p = Snapshot(h, h)
  PROVE  /\ p.kr >= h /\ p.fr >= h
         /\ p.active = (h > 0)
<1>1. CASE h > 0
  <2>1. p = [active |-> TRUE, kr |-> h, fr |-> h]
    BY <1>1 DEF Snapshot
  <2>2. (h > 0) = TRUE
    BY <1>1
  <2>3. p.active = TRUE /\ p.kr = h /\ p.fr = h
    BY <2>1
  <2>4. p.active = (h > 0)
    BY <2>2, <2>3, Zenon
  <2> QED
    BY <2>3, <2>4
<1>2. CASE ~(h > 0)
  <2>1. p = [active |-> FALSE, kr |-> 0, fr |-> 0]
    BY <1>2 DEF Snapshot, Flat
  <2>2. (h > 0) = FALSE
    BY <1>2
  <2>3. p.active = FALSE /\ p.kr = 0 /\ p.fr = 0
    BY <2>1
  <2>4. p.active = (h > 0)
    BY <2>2, <2>3, Zenon
  <2>5. 0 >= h
    BY <1>2
  <2> QED
    BY <2>3, <2>4, <2>5
<1> QED
  BY <1>1, <1>2

FileCovers ==
  /\ file.kr >= held_amount /\ file.fr >= held_amount
  /\ ~unsaved => file = Snapshot(held_amount, held_amount)

TrackerKnows ==
  /\ held_amount + Step > 0
  /\ held_amount > 0 => tracker.active
  /\ ~unsaved => tracker.active = (held_amount > 0)

\* the position a function is called with is the saved one
Handed ==
  /\ ~unsaved /\ tracker = file
  /\ \E kr \in Nat, fr \in Nat :
       /\ file = Snapshot(kr, fr) /\ tracker.kr = kr /\ tracker.fr = fr
       /\ held_amount = kr /\ (quantities_match(kr, fr) => kr = fr)

Saved ==
  /\ pc = "call" => Handed
  /\ InSplit => FileCovers
  /\ InSplit /\ ~exiting => TrackerKnows
  /\ ~exiting => LoopLots

\* The call of either function.
LEMMA SavedBegin ==
  ASSUME pc = "call", Handed, Begin \/ UnwindBegin
  PROVE  FileCovers' /\ (Begin => TrackerKnows')
<1>1. PICK kr \in Nat, fr \in Nat :
        /\ file = Snapshot(kr, fr) /\ tracker.kr = kr /\ tracker.fr = fr
        /\ held_amount = kr /\ (quantities_match(kr, fr) => kr = fr)
  BY DEF Handed
<1>2. /\ quantities_match(tracker.kr, tracker.fr) /\ UNCHANGED <<file, tracker, unsaved>>
      /\ held_amount' = held_amount \/ held_amount' = tracker.fr
      /\ Begin => held_amount' = held_amount
  BY DEF Begin, UnwindBegin, local, shared
<1>3. kr = fr /\ held_amount' = kr
  BY <1>1, <1>2
<1>4. file.kr >= kr /\ file.fr >= kr /\ file.active = (kr > 0)
  BY <1>1, <1>3, SnapshotCovers
<1>5. FileCovers'
  BY <1>1, <1>2, <1>3, <1>4 DEF FileCovers
<1>6. tracker'.active = (kr > 0) /\ kr + Step > 0
  BY <1>2, <1>4, LotAssumption DEF Handed
<1>7. TrackerKnows'
  BY <1>3, <1>6 DEF TrackerKnows
<1> QED
  BY <1>5, <1>7

\* A step that changes neither the book nor what is saved.
LEMMA SavedSame ==
  ASSUME UNCHANGED <<held_amount, unsaved, tracker, file>>
  PROVE  /\ FileCovers => FileCovers'
         /\ TrackerKnows => TrackerKnows'
         /\ Handed => Handed'
  BY DEF FileCovers, TrackerKnows, Handed

\* A retried sell takes something from the book and saves nothing.
LEMMA SavedRetry ==
  ASSUME RelayBase, FileCovers, RetryBooked, pc' = "loop"
  PROVE  /\ FileCovers'
         /\ TrackerKnows /\ LoopLots => TrackerKnows'
<1>1. TypeOK /\ Sizes
  BY DEF RelayBase, RelayTypes
<1>2. /\ held_amount \in Int /\ qty.fr \in Int /\ file.kr \in Int /\ file.fr \in Int
      /\ Step \in Nat
  BY <1>1, LotAssumption DEF TypeOK, PositionType
<1>3. /\ pc = "sell_retry" /\ held_amount' = held_amount - qty.fr
      /\ unsaved' = TRUE /\ UNCHANGED shared
  BY DEF RetryBooked, RetryStop, trigger_critical_stop
<1>4. qty.fr > 0
  BY <1>1, <1>2, <1>3, SizeBounds DEF Sizes
<1>5. UNCHANGED <<file, tracker>> /\ unsaved'
  BY <1>3 DEF shared
<1>6. FileCovers'
  BY <1>2, <1>3, <1>4, <1>5 DEF FileCovers
<1>7. ASSUME TrackerKnows, LoopLots PROVE TrackerKnows'
  <2>1. qty.fr < held_amount + Step
    BY <1>3, <1>7 DEF LoopLots
  <2>2. held_amount' + Step > 0 /\ (held_amount' > 0 => held_amount > 0)
    BY <1>2, <1>3, <1>4, <2>1
  <2> QED
    BY <1>5, <1>7, <2>2 DEF TrackerKnows
<1> QED
  BY <1>6, <1>7

\* The bookings of the unwinding function save the book as it is.
LEMMA SavedUnwind ==
  ASSUME TypeOK', UnwindBook \/ ReentryBook \/ ExitBook PROVE FileCovers'
<1>1. file' = Snapshot(held_amount', held_amount')
  BY DEF UnwindBook, ReentryBook, ExitBook
<1>2. held_amount' \in Int
  BY DEF TypeOK
<1>3. file'.kr >= held_amount' /\ file'.fr >= held_amount'
  BY <1>1, <1>2, SnapshotCovers
<1> QED
  BY <1>1, <1>3 DEF FileCovers

\* So does an exit of the loop, which forgets the tracker's position only when
\* nothing is held.
LEMMA SavedExit ==
  ASSUME RelayBase, LoopLots, TrackerKnows, ExitBook PROVE TrackerKnows'
<1>1. TypeOK /\ Sizes
  BY DEF RelayBase, RelayTypes
<1>2. held_amount \in Int /\ qty.fr \in Int /\ qty.kr \in Int /\ Step \in Nat
  BY <1>1, LotAssumption DEF TypeOK
<1> DEFINE m == Least(qty.fr, qty.kr)
<1>3. /\ pc \in {"exit_cmp", "exit_hedged"} /\ held_amount' = held_amount - m
      /\ tracker' = IF held_amount' <= 0 THEN Flat ELSE tracker
      /\ unsaved' = FALSE
  BY DEF ExitBook
<1>4. m \in Int /\ m > 0 /\ m < held_amount + Step
  BY <1>1, <1>2, <1>3, SizeBounds DEF Sizes, LoopLots, Least
<1> HIDE DEF m
<1>5. /\ held_amount' \in Int /\ held_amount' + Step > 0
      /\ held_amount' > 0 => held_amount > 0
  BY <1>2, <1>3, <1>4
<1>6. CASE held_amount' > 0
  <2>1. tracker' = tracker /\ tracker.active
    BY <1>3, <1>5, <1>6 DEF TrackerKnows
  <2>2. tracker.active \in BOOLEAN
    BY <1>1 DEF TypeOK, PositionType
  <2>3. tracker'.active = (held_amount' > 0)
    BY <1>6, <2>1, <2>2
  <2> QED
    BY <1>5, <2>1, <2>3 DEF TrackerKnows
<1>7. CASE ~(held_amount' > 0)
  <2>1. tracker' = Flat
    BY <1>3, <1>5, <1>7
  <2>2. tracker'.active = FALSE
    BY <2>1 DEF Flat
  <2>3. (held_amount' > 0) = FALSE
    BY <1>7
  <2> QED
    BY <1>5, <1>7, <2>2, <2>3 DEF TrackerKnows
<1> QED
  BY <1>6, <1>7

\* An entry of the loop ends with something held, although a close may have
\* gone too far before it.
LEMMA SavedEntry ==
  ASSUME OrdersExceedLots, RelayBase, LoopLots, TrackerKnows, EntryBook
  PROVE  FileCovers' /\ TrackerKnows'
<1>1. TypeOK /\ Sizes
  BY DEF RelayBase, RelayTypes
<1>2. held_amount \in Int /\ qty.fr \in Int /\ qty.kr \in Int /\ Step \in Nat
  BY <1>1, LotAssumption DEF TypeOK
<1> DEFINE m == Least(qty.fr, qty.kr)
           h == held_amount + m
<1>3. /\ pc \in {"entry_cmp", "entry_hedged"} /\ quantities_match(qty.fr, qty.kr)
      /\ held_amount' = h
      /\ tracker' = [active |-> TRUE, kr |-> h, fr |-> h]
      /\ file' = [active |-> TRUE, kr |-> h, fr |-> h]
  BY DEF EntryBook, persist_snapshot
<1>4. qty.fr > 0 /\ qty.kr > 0
  <2>1. qty.kr > 0 /\ qty.fr >= 0
    BY <1>1, <1>2, <1>3, SizeBounds DEF Sizes, LoopLots
  <2> QED
    BY <1>2, <1>3, <2>1, MatchPositive DEF OrdersExceedLots
<1>5. ASSUME held_amount < 0 PROVE qty.fr >= Step /\ qty.kr >= Step
  <2>1. CASE pc = "entry_hedged"
    BY <1>5, <2>1 DEF LoopLots
  <2>2. CASE pc = "entry_cmp"
    <3>1. Aligned(qty.fr) /\ qty.kr >= Step
      BY <1>5, <2>2 DEF LoopLots
    <3> QED
      BY <1>2, <1>4, <3>1, AlignedStep
  <2> QED
    BY <1>3, <2>1, <2>2
<1>6. h \in Int /\ h > 0 /\ h + Step > 0
  BY <1>2, <1>4, <1>5 DEF TrackerKnows, Least
<1>7. file' = Snapshot(h, h) /\ tracker' = Snapshot(h, h)
  BY <1>3, <1>6 DEF Snapshot
<1> HIDE DEF h, m
<1>8. /\ file'.kr >= h /\ file'.fr >= h /\ tracker'.active = (h > 0)
  BY <1>6, <1>7, SnapshotCovers
<1>9. FileCovers'
  BY <1>3, <1>7, <1>8 DEF FileCovers
<1>10. tracker'.active
  BY <1>3
<1>11. TrackerKnows'
  BY <1>3, <1>6, <1>8, <1>10 DEF TrackerKnows
<1> QED
  BY <1>9, <1>11

\* Every step of either function keeps the file and the tracker so.
LEMMA SavedStep ==
  ASSUME HonestVenues, OrdersExceedLots, RelayBase, Saved, [RelayNext]_relayVars
  PROVE  Saved'
<1>1. RelayTypes /\ TypeOK /\ Legs /\ Sizes /\ TypeOK'
  BY RelayBaseStep DEF RelayBase, RelayTypes
<1>2. CASE Idle /\ UNCHANGED relay
  <2>1. UNCHANGED <<held_amount, unsaved, tracker, file>>
    BY <1>2 DEF Idle, local
  <2>2. (InSplit' => InSplit) /\ (pc' = "call" => pc = "call") /\ UNCHANGED exiting
    BY <1>2 DEF Idle, InSplit, relay
  <2>3. LoopLots => LoopLots'
    <3>1. CASE UNCHANGED pc
      BY <1>2, <3>1 DEF Idle, local, LoopLots
    <3>2. CASE pc' \in {"refused", "done"}
      BY <3>2, LotsAtRest
    <3> QED
      BY <1>2, <3>1, <3>2 DEF Idle
  <2> QED
    BY <2>1, <2>2, <2>3, SavedSame DEF Saved
<1>3. CASE exiting /\ UnwindBegin /\ UNCHANGED exiting
  <2>1. pc = "call" /\ pc' = "loop"
    BY <1>3 DEF UnwindBegin
  <2>2. FileCovers'
    BY <1>3, <2>1, SavedBegin DEF Saved
  <2> QED
    BY <1>3, <2>1, <2>2 DEF Saved
<1>4. CASE ~exiting /\ UNCHANGED relay /\ Begin
  <2>1. pc = "call" /\ pc' = "loop"
    BY <1>4 DEF Begin
  <2>2. FileCovers' /\ TrackerKnows'
    BY <1>4, <2>1, SavedBegin DEF Saved
  <2> QED
    BY <1>4, <2>1, <2>2, LotsAtRest DEF Saved
<1>5. CASE /\ UNCHANGED relay
           /\ (exiting /\ ReentrySplit) \/ (~exiting /\ LoopSplit)
  <2>1. Accounted
    BY <1>5, RelaySplit
  <2>2. ~exiting' => ~exiting /\ LoopLots /\ LoopLots'
    BY <1>1, <1>5, LotsStep DEF Saved, relay
  <2>3. CASE Quiet
    <3>1. /\ UNCHANGED <<held_amount, unsaved, tracker, file>>
          /\ InSplit /\ pc' # "call"
      BY <2>3 DEF Quiet, InSplit, shared
    <3> QED
      BY <2>2, <3>1, SavedSame DEF Saved
  <2>4. CASE Stopped
    BY <2>2, <2>4 DEF Stopped, Saved, InSplit
  <2>5. CASE RetryBooked /\ pc' = "loop"
    <3>1. InSplit
      BY <2>5 DEF RetryBooked, InSplit
    <3> QED
      BY <2>2, <2>5, <3>1, SavedRetry DEF Saved
  <2>6. CASE RetryBooked /\ pc' # "loop"
    <3>1. pc' = "stopped"
      BY <2>6 DEF RetryBooked, RetryStop, trigger_critical_stop
    <3> QED
      BY <2>2, <3>1 DEF Saved, InSplit
  <2> QED
    BY <2>1, <2>3, <2>4, <2>5, <2>6 DEF Accounted
<1>6. CASE exiting /\ UNCHANGED relay /\ (UnwindBook \/ ReentryBook)
  <2>1. pc' = "loop" /\ exiting'
    BY <1>6, LegsBook DEF relay
  <2>2. FileCovers'
    BY <1>1, <1>6, SavedUnwind
  <2> QED
    BY <2>1, <2>2 DEF Saved
<1>7. CASE ~exiting /\ UNCHANGED relay /\ (EntryBook \/ ExitBook)
  <2>1. pc' = "loop"
    BY <1>7, LegsBook
  <2>2. InSplit
    BY <1>7 DEF EntryBook, ExitBook, InSplit
  <2>3. LoopLots /\ TrackerKnows
    BY <1>7, <2>2 DEF Saved
  <2>4. FileCovers' /\ TrackerKnows'
    BY <1>1, <1>7, <2>3, SavedEntry, SavedExit, SavedUnwind
  <2> QED
    BY <2>1, <2>4, LotsAtRest DEF Saved
<1>8. \/ Idle /\ UNCHANGED relay
      \/ exiting /\ UnwindBegin /\ UNCHANGED exiting
      \/ exiting /\ UNCHANGED relay /\ (ReentrySplit \/ UnwindBook \/ ReentryBook)
      \/ ~exiting /\ UNCHANGED relay /\ (LoopSplit \/ Begin \/ EntryBook \/ ExitBook)
  BY <1>1, RelayCases
<1> QED
  BY <1>2, <1>3, <1>4, <1>5, <1>6, <1>7, <1>8, Zenon

\* Whatever a crash between two splits leaves, active_position.json never
\* forgets a coin of the book, and is the book unless the last split was a
\* retried sell.
THEOREM CrashFindsBook ==
  ASSUME HonestVenues, StartsEven, OrdersExceedLots PROVE RelaySpec => []SavedBook
<1>1. RelayInit => Saved
  <2> SUFFICES ASSUME RelayInit PROVE Saved
    OBVIOUS
  <2>1. Init /\ pc = "call" /\ ~unsaved
    BY DEF RelayInit, Init
  <2>2. Handed
    <3>1. PICK p \in InitPositions :
            /\ p.kr \in Nat /\ p.fr \in Nat /\ held_amount = p.kr
            /\ tracker.kr = p.kr /\ tracker.fr = p.fr
            /\ tracker = Snapshot(p.kr, p.fr) /\ file = Snapshot(p.kr, p.fr)
      BY <2>1, StartTold
    <3>2. quantities_match(p.kr, p.fr) => p.kr = p.fr
      BY DEF StartsEven
    <3> QED
      BY <2>1, <3>1, <3>2 DEF Handed
  <2> QED
    BY <2>1, <2>2 DEF Saved, InSplit, LoopLots
<1>2. RelayBase /\ Saved /\ [RelayNext]_relayVars => Saved'
  BY SavedStep
<1>3. Saved => SavedBook
  BY DEF Saved, SavedBook, AtRest, InSplit, FileCovers, TrackerKnows
<1> QED
  BY <1>1, <1>2, <1>3, RelayBaseInvariant, PTL DEF RelaySpec
=============================================================================
