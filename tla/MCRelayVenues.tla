--------------------------- MODULE MCRelayVenues ---------------------------
(* The lifecycle loop on both foreign venues: the constants are Bybit's,    *)
(* and a behaviour may follow the same loop on OKX instead.  The hypotheses *)
(* of the theorems about venues and initial positions hold on the instance: *)
(* TLC evaluates them before it checks the theorems' conclusions.           *)
EXTENDS MCRelayLifecycle

VARIABLE wired            \* the foreign venue of this behaviour

Okx == INSTANCE RelayLifecycle WITH ForeignExchange <- "OKX"

ASSUME BenignInstance == Benign /\ StartsWithin /\ ForeignExchange = "Bybit"

wiredVars == <<wired, vars>>
On(OnBybit, OnOkx) ==
  /\ \/ wired = "Bybit" /\ OnBybit
     \/ wired = "OKX" /\ OnOkx
  /\ UNCHANGED wired

VenuesInit == Init /\ wired \in {"Bybit", "OKX"}
VenuesSpec == VenuesInit /\ [][On(Next, Okx!Next)]_wiredVars

\* the fairness of FairSpec, on the venue of the behaviour
VenuesFairSpec ==
  /\ VenuesSpec
  /\ WF_wiredVars(On(LifecycleStep, Okx!LifecycleStep))
  /\ \A leg \in {"fr", "kr"} :
       WF_wiredVars(On(FillQuery(leg), Okx!FillQuery(leg)))
=============================================================================
