---------------------------- MODULE MCRelayExit ----------------------------
(* Instances of the two lifecycle functions with a matching tolerance.      *)
EXTENDS MCRelayLifecycle, RelayExit

\* any leg may be refused or fill unevenly, and Upbit restates any of them, a
\* retried sell included; the unwinding function compares no fills, its covers
\* and sells are exact
ToleranceFaults ==
  (Stage \X {"reject"})
    \cup ((Stage \ {"unwind_cover", "unwind_sell"}) \X {"uneven"})
    \cup ({"buy", "sell", "unwind_sell", "retry"} \X {"restated"})

\* a position large enough to be unwound in more than one split
MCUnwindStart == MCStart \cup {[kr |-> 8, fr |-> 8]}

\* the theorems' hypotheses hold on this instance
ASSUME HonestInstance == HonestVenues /\ ExactUnwind /\ StartsEven /\ OrdersExceedLots
=============================================================================
