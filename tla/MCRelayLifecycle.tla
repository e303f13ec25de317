-------------------------- MODULE MCRelayLifecycle --------------------------
(* Instances of RelayLifecycle for TLC: fault sets and initial positions.   *)
EXTENDS RelayLifecycle

\* everything but a wrong fill report: any order may be refused, fill
\* unevenly or execute unnoticed, and Upbit restates legs of a split
MCFaults == (Stage \X {"reject", "uneven", "lost"}) \cup ({"buy", "sell"} \X {"restated"})

\* nothing but Upbit's query turning a Filled order into one that is not
RestatedBuy == {<<"buy", "restated">>}

MCStart == {[kr |-> 0, fr |-> 0], [kr |-> 4, fr |-> 4], [kr |-> 4, fr |-> 2]}
=============================================================================
