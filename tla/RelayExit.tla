----------------------------- MODULE RelayExit -----------------------------
(***************************************************************************)
(* OrderManager::execute_spot_relay_exit, the second lifecycle function:   *)
(* it unwinds a given position split by split and may re-enter what it has *)
(* sold when the entry premium returns, up to the position it was called   *)
(* with.  main.cpp gives no exit signal to it (the loop of RelayLifecycle  *)
(* exits by itself); the P&L test calls it.                                *)
(*                                                                         *)
(* Its statements are mostly those of RelayLifecycle, which it repeats: an *)
(* action that says so is that module's, with remaining_amount for         *)
(* held_amount.  It differs in what it trades, in what ends it and in how  *)
(* it books: an exit split is booked by the cover alone, and the tracker   *)
(* is touched only by a critical stop.  The two functions share no thread, *)
(* so a behaviour runs one of them.                                        *)
(***************************************************************************)
EXTENDS RelayLifecycle

VARIABLES exiting,         \* which of the two functions is called
          original_amount  \* the quantity it was called with

relay == <<exiting, original_amount>>
relayVars == <<vars, relay>>

-----------------------------------------------------------------------------
\* exchange missing, or the position passed in is mismatched
UnwindRefuse == Refuse /\ UNCHANGED original_amount

UnwindBegin ==
  /\ pc = "call"
  /\ quantities_match(tracker.kr, tracker.fr)
  /\ held_amount' = tracker.fr /\ original_amount' = tracker.fr
  /\ pc' = "loop"
  /\ UNCHANGED <<queries, foreign_order, korean_order, qty, tries, splits,
                 unsaved, shared, venue>>

\* everything is sold (success), or a shutdown leaves the rest to the caller
UnwindReturn ==
  /\ pc = "loop" /\ (held_amount <= 0 \/ ~running_)
  /\ pc' = "done"
  /\ UNCHANGED <<queries, local, shared, venue>>

\* the splits' orders and what follows a refused one
UnwindCover == CoverLeg("unwind_cover")
UnwindSell == SellLeg("unwind_sell")
UnwindLatch == ExitLatch
UnwindRetry == SellRetry

\* the sell is Filled: what was COVERED is booked and saved, whatever the
\* sell's own fill says
UnwindBook ==
  /\ pc = "exit_cmp"
  /\ held_amount' = held_amount - qty.fr
  /\ file' = Snapshot(held_amount', held_amount')
  /\ splits' = splits + 1
  /\ unsaved' = FALSE
  /\ pc' = "loop"
  /\ EndSplit
  /\ UNCHANGED <<running_, entry_suppressed, tracker, venue>>

-----------------------------------------------------------------------------
\* mutant: every re-entry is a whole order
reentry_size_whole == OrderSize

reentry_size == Least(OrderSize, original_amount - held_amount)

ReentryShort ==
  /\ pc = "loop" /\ running_ /\ splits < MaxSplits
  /\ 0 < held_amount /\ held_amount < original_amount
  /\ OpenShort(reentry_size)

ReentryGuard == MinOrderGuard
ReentryBuy == KoreanBuy
ReentryLatch == EntryLatch
ReentryRollback == EntryRollback
ReentryFlattenForeign == EntryFlattenForeign
ReentryFlattenKorean == EntryFlattenKorean
ReentryStillMismatched == EntryStillMismatched

ReentryBook ==
  /\ pc \in {"entry_cmp", "entry_hedged"}
  /\ quantities_match(qty.fr, qty.kr)
  /\ held_amount' = held_amount + Least(qty.fr, qty.kr)
  /\ file' = Snapshot(held_amount', held_amount')
  /\ splits' = splits + 1
  /\ unsaved' = FALSE
  /\ pc' = "loop"
  /\ EndSplit
  /\ UNCHANGED <<running_, entry_suppressed, tracker, venue>>

-----------------------------------------------------------------------------
UnwindSplit ==
  \/ UnwindCover \/ UnwindSell \/ UnwindLatch \/ UnwindRetry \/ UnwindBook
  \/ ReentryShort \/ ReentryGuard \/ ReentryBuy \/ ReentryLatch
  \/ ReentryRollback \/ ReentryFlattenForeign \/ ReentryFlattenKorean
  \/ ReentryStillMismatched \/ ReentryBook

UnwindStep ==
  /\ exiting /\ UNCHANGED exiting
  /\ \/ UnwindRefuse
     \/ UnwindBegin
     \/ (UnwindReturn \/ UnwindSplit) /\ UNCHANGED original_amount

LoopStep == ~exiting /\ LifecycleStep /\ UNCHANGED relay

Query(leg) == FillQuery(leg) /\ UNCHANGED relay

RelayInit == Init /\ exiting \in BOOLEAN /\ original_amount = 0

RelayNext ==
  \/ UnwindStep \/ LoopStep
  \/ \E leg \in {"fr", "kr"} : Query(leg)
  \/ (Shutdown \/ Finished) /\ UNCHANGED relay

RelaySpec == RelayInit /\ [][RelayNext]_relayVars

-----------------------------------------------------------------------------
\* Re-entries never take the position beyond the one that was to be unwound,
\* whatever is refused, corrected or retried between the splits: not the book,
\* and what the function knows to be short only by the residues of its matched
\* splits.
NeverBeyondOriginal ==
  exiting /\ AtRest =>
    /\ held_amount <= original_amount
    /\ frTold <= original_amount + splits * DriftPerSplit

\* What a crash between two splits recovers: the book itself, unless the last
\* split was a retried sell, which neither function saves; then the file holds
\* more, but never forgets a coin that is still held.  The tracker, which only
\* the loop keeps, has a position whenever something is held.
SavedBook ==
  AtRest =>
    /\ file.kr >= held_amount /\ file.fr >= held_amount
    /\ ~unsaved => file = Snapshot(held_amount, held_amount)
    /\ ~exiting => /\ held_amount > 0 => tracker.active
                   /\ ~unsaved => tracker.active = (held_amount > 0)

-----------------------------------------------------------------------------
(* The hypotheses under which these properties hold for every size.        *)

\* Fill reports are final, as in Benign, but matching may be tolerant.
HonestVenues == \A st \in Stage, f \in {"unknown", "early"} : ~May(st, f)

\* The unwinding function compares no fills: its market orders must fill.
ExactUnwind == ~May("unwind_cover", "uneven") /\ ~May("unwind_sell", "uneven")

\* Positions that match when a function is called are equal.
StartsEven ==
  \A p \in InitPositions : quantities_match(p.kr, p.fr) => p.kr = p.fr

\* Covers are whole lots, so a close may overshoot a book that is not by part
\* of a lot; the next order is larger than that.
OrdersExceedLots ==
  /\ ForeignExchange = "Bybit" /\ MinQty <= Step
  /\ TolNum < TolDen /\ 2 * Step + Slip <= OrderSize /\ OrderSize <= PositionSize
=============================================================================
