-------------------------- MODULE VenueAdapters_proofs --------------------------
(***************************************************************************)
(* The venue adapters, for any number of orders, quantities, prices,       *)
(* batches, moves of the venue, lost sessions and failed attempts: what a  *)
(* fill query reports, and the market data of Bybit and OKX (every symbol  *)
(* is streamed), of Upbit (no price outlives its session) and of Bithumb   *)
(* (a snapshot and the deltas on the way make the venue's book).           *)
(***************************************************************************)
EXTENDS FillQueries, MarketData, SequenceTheorems, TLAPS

FillEvent ==
  [order : Orders, qty : 0..Qty, state : {"open", "filled", "cancelled"}]

\* the events that are true of the venue's orders: a cumulative quantity is
\* never ahead of the order, and "filled" comes with all of it
TrueEvent ==
  {e \in FillEvent :
     /\ e.qty <= filled[e.order]
     /\ e.state = "filled" => ended[e.order] = "filled" /\ e.qty = filled[e.order]}

\* a cache entry is true as well, and of Bybit and OKX final
CacheOK ==
  \A o \in Orders :
    /\ fill_cache_[o] <= filled[o]
    /\ fill_cache_[o] > 0 /\ exchange \in {"Bybit", "OKX"}
         => ended[o] = "filled" /\ fill_cache_[o] = filled[o]

\* Upbit has no private WebSocket
NoFeed ==
  exchange = "Upbit" => /\ ~session /\ events = <<>>
                     /\ \A o \in Orders : fill_cache_[o] = 0

FillInv ==
  /\ FillTypeOK /\ NoFeed
  /\ \A o \in Orders : ended[o] = "filled" => filled[o] = Qty
  /\ events \in Seq(TrueEvent)
  /\ CacheOK
  /\ ReportIsReal /\ ReportIsFinal

LEMMA SeqMonotone ==
  ASSUME NEW S, NEW T, S \subseteq T, NEW s \in Seq(S) PROVE s \in Seq(T)
<1>1. s \in [1..Len(s) -> T] /\ Len(s) \in Nat
  BY LenProperties
<1> QED
  BY <1>1

\* an order that goes on trading makes no true event, entry or report false
LEMMA TruthStays ==
  ASSUME FillInv, NEW o \in Orders, ended[o] = "open",
         NEW q \in 0..Qty, filled[o] <= q, NEW s \in {"open", "filled", "cancelled"},
         s = "filled" => q = Qty,
         filled' = [filled EXCEPT ![o] = q], ended' = [ended EXCEPT ![o] = s],
         UNCHANGED <<exchange, fill_cache_, order>>
  PROVE  /\ TrueEvent \subseteq TrueEvent'
         /\ \A u \in Orders : ended'[u] = "filled" => filled'[u] = Qty
         /\ CacheOK' /\ ReportIsReal' /\ ReportIsFinal'
         /\ filled' \in [Orders -> 0..Qty]
         /\ ended' \in [Orders -> {"open", "filled", "cancelled"}]
<1>1. /\ filled'[o] = q /\ ended'[o] = s
      /\ \A u \in Orders : u # o => filled'[u] = filled[u] /\ ended'[u] = ended[u]
      /\ \A u \in Orders : filled[u] \in Nat /\ filled'[u] \in Nat
  BY FillAssumption DEF FillInv, FillTypeOK
<1>2. \A u \in Orders : /\ filled[u] <= filled'[u]
                        /\ ended[u] = "filled" => ended'[u] = "filled" /\ filled'[u] = filled[u]
  BY <1>1, FillAssumption
<1>3. TrueEvent \subseteq TrueEvent'
  <2> SUFFICES ASSUME NEW e \in TrueEvent PROVE e \in TrueEvent'
    OBVIOUS
  <2>1. e \in FillEvent /\ e.order \in Orders /\ e.qty \in Nat
    BY FillAssumption DEF TrueEvent, FillEvent
  <2> QED
    BY <1>1, <1>2, <2>1 DEF TrueEvent
<1>4. CacheOK'
  <2>1. \A u \in Orders : fill_cache_[u] \in Nat
    BY FillAssumption DEF FillInv, FillTypeOK
  <2> QED
    BY <1>1, <1>2, <2>1 DEF FillInv, CacheOK
<1>5. ReportIsReal' /\ ReportIsFinal'
  <2>1. \A u \in Orders : order[u].filled_quantity \in Nat
    BY FillAssumption DEF FillInv, FillTypeOK
  <2> QED
    BY <1>1, <1>2, <2>1 DEF FillInv, ReportIsReal, ReportIsFinal
<1>6. \A u \in Orders : ended'[u] = "filled" => filled'[u] = Qty
  BY <1>1 DEF FillInv
<1> QED
  BY <1>3, <1>4, <1>5, <1>6 DEF FillInv, FillTypeOK

LEMMA EmitTrue ==
  ASSUME FillInv, NEW o \in Orders, NEW q \in 0..Qty,
         NEW s \in {"open", "filled", "cancelled"}, Emit(o, q, s),
         TrueEvent \subseteq TrueEvent',
         q <= filled'[o], s = "filled" => ended'[o] = "filled" /\ q = filled'[o]
  PROVE  events' \in Seq(TrueEvent') /\ events' \in Seq(FillEvent)
<1> DEFINE e == [order |-> o, qty |-> q, state |-> s]
<1>1. events \in Seq(TrueEvent')
  BY SeqMonotone DEF FillInv
<1>2. e \in TrueEvent'
  BY DEF TrueEvent, FillEvent
<1>3. events' \in {events, Append(events, e)}
  BY DEF Emit
<1> HIDE DEF e
<1>4. events' \in Seq(TrueEvent')
  BY <1>1, <1>2, <1>3
<1> QED
  BY <1>4, SeqMonotone DEF TrueEvent

LEMMA TradeTrue == ASSUME FillInv, NEW o \in Orders, Trade(o) PROVE FillInv'
<1> DEFINE q == filled[o] + 1
           s == IF q = Qty THEN "filled" ELSE "open"
<1>1. /\ ended[o] = "open" /\ filled[o] \in Nat /\ q \in 0..Qty /\ filled[o] <= q
      /\ s \in {"open", "filled", "cancelled"} /\ (s = "filled" => q = Qty)
  BY FillAssumption DEF Trade, FillInv, FillTypeOK
<1>2. /\ filled' = [filled EXCEPT ![o] = q] /\ ended' = [ended EXCEPT ![o] = s]
      /\ Emit(o, q, s) /\ UNCHANGED <<exchange, fill_cache_, order>>
  BY DEF Trade
<1>3. filled'[o] = q /\ ended'[o] = s
  BY <1>2 DEF FillInv, FillTypeOK
<1> HIDE DEF q, s
<1>4. /\ TrueEvent \subseteq TrueEvent'
      /\ \A u \in Orders : ended'[u] = "filled" => filled'[u] = Qty
      /\ CacheOK' /\ ReportIsReal' /\ ReportIsFinal'
      /\ filled' \in [Orders -> 0..Qty]
      /\ ended' \in [Orders -> {"open", "filled", "cancelled"}]
  BY <1>1, <1>2, TruthStays
<1>5. events' \in Seq(TrueEvent') /\ events' \in Seq(FillEvent)
  BY <1>1, <1>2, <1>3, <1>4, EmitTrue
<1>6. FillTypeOK'
  BY <1>4, <1>5 DEF Trade, FillInv, FillTypeOK, FillEvent
<1>7. NoFeed'
  BY DEF Trade, Emit, FillInv, NoFeed
<1> QED
  BY <1>4, <1>5, <1>6, <1>7 DEF FillInv

LEMMA CancelTrue == ASSUME FillInv, NEW o \in Orders, CancelRest(o) PROVE FillInv'
<1> DEFINE q == filled[o]
<1>1. ended[o] = "open" /\ q \in 0..Qty /\ q \in Nat
  BY FillAssumption DEF CancelRest, FillInv, FillTypeOK
<1>2. /\ filled' = [filled EXCEPT ![o] = q]
      /\ ended' = [ended EXCEPT ![o] = "cancelled"] /\ filled'[o] = q
      /\ Emit(o, q, "cancelled") /\ UNCHANGED <<exchange, fill_cache_, order>>
  BY DEF CancelRest, FillInv, FillTypeOK
<1> HIDE DEF q
<1>3. filled[o] <= q
  BY <1>1 DEF q
<1>4. /\ TrueEvent \subseteq TrueEvent'
      /\ \A u \in Orders : ended'[u] = "filled" => filled'[u] = Qty
      /\ CacheOK' /\ ReportIsReal' /\ ReportIsFinal'
      /\ filled' \in [Orders -> 0..Qty]
      /\ ended' \in [Orders -> {"open", "filled", "cancelled"}]
  BY <1>1, <1>2, <1>3, TruthStays
<1>5. events' \in Seq(TrueEvent') /\ events' \in Seq(FillEvent)
  BY <1>1, <1>2, <1>4, EmitTrue
<1>6. FillTypeOK'
  BY <1>4, <1>5 DEF CancelRest, FillInv, FillTypeOK, FillEvent
<1>7. NoFeed'
  BY DEF CancelRest, Emit, FillInv, NoFeed
<1> QED
  BY <1>4, <1>5, <1>6, <1>7 DEF FillInv

\* sessions come and go; what is on its way is delivered or lost
LEMMA SessionTrue ==
  ASSUME FillInv, authenticate_private_ws \/ \E clean \in BOOLEAN : PrivateDrop(clean)
  PROVE  FillInv'
<1>1. /\ UNCHANGED <<exchange, filled, ended, fill_cache_, query, order>>
      /\ events' \in {events, <<>>} /\ session' \in BOOLEAN
  BY DEF authenticate_private_ws, PrivateDrop, venueVars
<1>2. private_ws_authenticated_' \in BOOLEAN /\ drops' \in 0..MaxDrops
  <2>1. private_ws_authenticated_ \in BOOLEAN /\ drops \in 0..MaxDrops
    BY DEF FillInv, FillTypeOK
  <2>2. CASE authenticate_private_ws
    BY <2>1, <2>2 DEF authenticate_private_ws
  <2>3. ASSUME NEW clean \in BOOLEAN, PrivateDrop(clean)
        PROVE  private_ws_authenticated_' \in BOOLEAN /\ drops' \in 0..MaxDrops
    <3>1. private_ws_authenticated_' \in BOOLEAN
      <4>1. private_ws_authenticated_' = (private_ws_authenticated_ /\ ~clean)
        BY <2>3, Zenon DEF PrivateDrop
      <4> QED
        BY <4>1, Zenon
    <3>2. drops < MaxDrops /\ drops' = drops + 1
      BY <2>3, Zenon DEF PrivateDrop
    <3> QED
      BY <2>1, <3>1, <3>2, FillAssumption
  <2> QED
    BY <2>2, <2>3
<1>3. events' \in Seq(TrueEvent') /\ events' \in Seq(FillEvent)
  <2>1. TrueEvent' = TrueEvent /\ TrueEvent \subseteq FillEvent
    BY <1>1 DEF TrueEvent
  <2>2. events' \in Seq(TrueEvent)
    BY <1>1, EmptySeq DEF FillInv
  <2> QED
    BY <2>1, <2>2, SeqMonotone
<1>4. FillTypeOK'
  BY <1>1, <1>2, <1>3 DEF FillInv, FillTypeOK, FillEvent
<1>5. NoFeed'
  BY <1>1 DEF authenticate_private_ws, PrivateDrop, FillInv, NoFeed
<1> QED
  BY <1>1, <1>3, <1>4, <1>5 DEF FillInv, CacheOK, ReportIsReal, ReportIsFinal

LEMMA MessageTrue == ASSUME FillInv, on_private_ws_message PROVE FillInv'
<1> DEFINE e == Head(events)
<1>1. /\ UNCHANGED <<exchange, filled, ended, session, private_ws_authenticated_,
                     drops, query, order>>
      /\ fill_cache_' = IF Cacheable(e)
                        THEN [fill_cache_ EXCEPT ![e.order] = CacheEntry(e)]
                        ELSE fill_cache_
  BY DEF on_private_ws_message, venueVars
<1>2. e \in TrueEvent /\ events' \in Seq(TrueEvent)
  BY HeadTailProperties DEF on_private_ws_message, FillInv
<1> HIDE DEF e
<1>3. /\ e.order \in Orders /\ e.qty \in 0..Qty /\ e.qty <= filled[e.order]
      /\ e.state = "filled"
           => ended[e.order] = "filled" /\ e.qty = filled[e.order]
  BY <1>2 DEF TrueEvent, FillEvent
<1>4. events' \in Seq(TrueEvent') /\ events' \in Seq(FillEvent)
  <2>1. TrueEvent' = TrueEvent /\ TrueEvent \subseteq FillEvent
    BY <1>1 DEF TrueEvent
  <2> QED
    BY <1>2, <2>1, SeqMonotone
<1>0. exchange # "Upbit" /\ NoFeed'
  BY <1>1 DEF on_private_ws_message, FillInv, NoFeed
<1>5. CASE ~Cacheable(e)
  <2>1. fill_cache_' = fill_cache_
    BY <1>1, <1>5
  <2>2. FillTypeOK'
    BY <1>1, <1>4, <2>1 DEF FillInv, FillTypeOK, FillEvent
  <2> QED
    BY <1>0, <1>1, <1>4, <2>1, <2>2 DEF FillInv, CacheOK, ReportIsReal, ReportIsFinal
<1>6. CASE Cacheable(e)
  <2>1. fill_cache_' = [fill_cache_ EXCEPT ![e.order] = e.qty]
    BY <1>1, <1>6 DEF CacheEntry
  <2>2. fill_cache_' \in [Orders -> 0..Qty]
    BY <1>3, <2>1 DEF FillInv, FillTypeOK
  <2>3. FillTypeOK'
    BY <1>1, <1>4, <2>2 DEF FillInv, FillTypeOK, FillEvent
  <2>4. CacheOK'
    <3>1. exchange \in {"Bybit", "OKX"} => e.state = "filled"
      BY <1>6 DEF Cacheable
    <3> QED
      BY <1>1, <1>3, <2>1, <3>1 DEF FillInv, FillTypeOK, CacheOK
  <2> QED
    BY <1>0, <1>1, <1>4, <2>3, <2>4 DEF FillInv, ReportIsReal, ReportIsFinal
<1> QED
  BY <1>5, <1>6


-----------------------------------------------------------------------------
(* The queries.                                                            *)

Report ==
  [filled_quantity : 0..Qty, ok : BOOLEAN, by : {"none", "cache", "rest"}]
Query == [pc : {"out", "wait", "rest", "done"}, attempt : 0..MaxAttempts-1]

\* what the two properties ask of one report
Honest(o, r) ==
  /\ r.filled_quantity <= filled[o]
  /\ r.ok => r.filled_quantity > 0
  /\ /\ r.ok
     /\ exchange = "Upbit" \/ (exchange \in {"Bybit", "OKX"} /\ r.by = "cache")
     => ended[o] = "filled" /\ r.filled_quantity = filled[o]

\* A step of a query only takes entries away and only adds honest reports.
LEMMA QueryTrue ==
  ASSUME FillInv,
         UNCHANGED <<exchange, filled, ended, session, private_ws_authenticated_,
                     events, drops>>,
         query' \in [Orders -> Query],
         fill_cache_' \in [Orders -> 0..Qty],
         \A u \in Orders : fill_cache_'[u] \in {fill_cache_[u], 0},
         order' \in [Orders -> Report],
         \A u \in Orders : order'[u] = order[u] \/ Honest(u, order'[u])
  PROVE  FillInv'
<1>1. events' \in Seq(TrueEvent')
  BY DEF FillInv, TrueEvent
<1>2. FillTypeOK'
  BY DEF FillInv, FillTypeOK, Report, Query
<1>3. CacheOK'
  <2>1. \A u \in Orders : filled[u] \in Nat
    BY FillAssumption DEF FillInv, FillTypeOK
  <2> QED
    BY <2>1, SMTT(40) DEF FillInv, CacheOK
<1>4. \A u \in Orders : Honest(u, order'[u])
  BY DEF FillInv, ReportIsReal, ReportIsFinal, Honest
<1>5. ReportIsReal' /\ ReportIsFinal'
  BY <1>4 DEF Honest, ReportIsReal, ReportIsFinal
<1>6. NoFeed'
  BY DEF FillInv, NoFeed
<1> QED
  BY <1>1, <1>2, <1>3, <1>5, <1>6 DEF FillInv

LEMMA GotoType ==
  ASSUME FillInv, NEW o \in Orders, NEW pc \in {"wait", "rest", "done"}, Goto(o, pc)
  PROVE  query' \in [Orders -> Query]
BY DEF FillInv, FillTypeOK, Goto, Query

LEMMA AttemptType ==
  ASSUME FillInv, NEW o \in Orders, NextQuery(o)
  PROVE  query' \in [Orders -> Query]
<1>1. query \in [Orders -> Query] /\ query[o].attempt \in 0..MaxAttempts-1
  BY DEF FillInv, FillTypeOK, Query
<1>2. CASE query[o].attempt + 1 < MaxAttempts
  <2>1. query' = [query EXCEPT ![o].attempt = query[o].attempt + 1]
    BY <1>2 DEF NextQuery
  <2>2. query[o].attempt + 1 \in 0..MaxAttempts-1
    BY <1>1, <1>2, FillAssumption
  <2> QED
    BY <1>1, <2>1, <2>2 DEF Query
<1>3. CASE ~(query[o].attempt + 1 < MaxAttempts)
  BY <1>3, GotoType DEF NextQuery
<1> QED
  BY <1>2, <1>3

LEMMA ReturnTrue ==
  ASSUME FillInv, NEW o \in Orders, NEW r \in Report, Honest(o, r),
         order' = [order EXCEPT ![o] = r]
  PROVE  /\ order' \in [Orders -> Report]
         /\ \A u \in Orders : order'[u] = order[u] \/ Honest(u, order'[u])
<1>1. order \in [Orders -> Report]
  BY DEF FillInv, FillTypeOK, Report
<1>2. order'[o] = r /\ \A u \in Orders : u # o => order'[u] = order[u]
  BY <1>1
<1> QED
  BY <1>1, <1>2

\* taking an entry out of the cache
LEMMA TakeTrue ==
  ASSUME FillInv, NEW o \in Orders, Cached(o), Take(o),
         UNCHANGED <<exchange, filled, ended, session, private_ws_authenticated_,
                     events, drops>>
  PROVE  FillInv'
<1> DEFINE r == [filled_quantity |-> fill_cache_[o], ok |-> TRUE, by |-> "cache"]
<1>1. /\ order' = [order EXCEPT ![o] = r]
      /\ fill_cache_' = [fill_cache_ EXCEPT ![o] = 0] /\ Goto(o, "done")
  BY DEF Take, Return
<1>2. r \in Report
  BY DEF Report, FillInv, FillTypeOK
<1>3. Honest(o, r)
  BY DEF Honest, Cached, FillInv, CacheOK, NoFeed
<1> HIDE DEF r
<1>4. /\ order' \in [Orders -> Report]
      /\ \A u \in Orders : order'[u] = order[u] \/ Honest(u, order'[u])
  BY <1>1, <1>2, <1>3, ReturnTrue
<1>5. /\ fill_cache_' \in [Orders -> 0..Qty]
      /\ \A u \in Orders : fill_cache_'[u] \in {fill_cache_[u], 0}
  BY <1>1, FillAssumption DEF FillInv, FillTypeOK
<1>6. query' \in [Orders -> Query]
  BY <1>1, GotoType
<1> QED
  BY <1>4, <1>5, <1>6, QueryTrue

\* a report over REST
LEMMA AnswerTrue ==
  ASSUME FillInv, NEW o \in Orders, NEW r \in Report, Honest(o, r),
         order' = [order EXCEPT ![o] = r], query' \in [Orders -> Query],
         UNCHANGED <<venueVars, wsVars>>
  PROVE  FillInv'
<1>1. /\ order' \in [Orders -> Report]
      /\ \A u \in Orders : order'[u] = order[u] \/ Honest(u, order'[u])
  BY ReturnTrue
<1>2. /\ fill_cache_' \in [Orders -> 0..Qty] /\ fill_cache_' = fill_cache_
      /\ UNCHANGED <<exchange, filled, ended, session, private_ws_authenticated_,
                     events, drops>>
  BY DEF venueVars, wsVars, FillInv, FillTypeOK
<1> QED
  BY <1>1, <1>2, QueryTrue

\* a step that leaves the cache and the reports alone
LEMMA MoveTrue ==
  ASSUME FillInv, query' \in [Orders -> Query],
         UNCHANGED <<venueVars, wsVars, order>>
  PROVE  FillInv'
<1>1. /\ fill_cache_' \in [Orders -> 0..Qty] /\ order' \in [Orders -> Report]
      /\ UNCHANGED <<exchange, filled, ended, session, private_ws_authenticated_,
                     events, drops>>
      /\ fill_cache_' = fill_cache_ /\ order' = order
  BY DEF venueVars, wsVars, FillInv, FillTypeOK, Report
<1> QED
  BY <1>1, QueryTrue

LEMMA QueryingTrue ==
  ASSUME FillInv, NEW o \in Orders, Querying(o) PROVE FillInv'
<1>0. filled[o] \in 0..Qty /\ filled[o] \in Nat
  BY FillAssumption DEF FillInv, FillTypeOK
<1>1. CASE query_order_fill(o)
  <2>1. UNCHANGED <<exchange, filled, ended, session, private_ws_authenticated_,
                    events, drops>>
    BY <1>1 DEF query_order_fill, venueVars
  <2>2. CASE LooksAtCache /\ Cached(o) /\ Take(o)
    BY <2>1, <2>2, TakeTrue
  <2>3. CASE /\ Goto(o, IF private_ws_authenticated_ THEN "wait" ELSE "rest")
             /\ UNCHANGED <<fill_cache_, order>>
    <3>1. query' \in [Orders -> Query]
      BY <2>3, GotoType
    <3>2. UNCHANGED <<venueVars, wsVars, order>>
      BY <2>1, <2>3 DEF venueVars, wsVars
    <3> QED
      BY <3>1, <3>2, MoveTrue
  <2> QED
    BY <1>1, <2>2, <2>3 DEF query_order_fill
<1>2. CASE Found(o)
  BY <1>2, TakeTrue DEF Found, venueVars
<1>3. CASE Missed(o)
  BY <1>3, GotoType, MoveTrue DEF Missed
<1>4. CASE RestFails(o)
  BY <1>4, GotoType, AttemptType, MoveTrue DEF RestFails
<1>5. CASE RestAnswers(o)
  <2>1. UNCHANGED <<venueVars, wsVars>> /\ exchange # "Upbit"
    BY <1>5 DEF RestAnswers
  <2>2. CASE filled[o] > 0
    <3> DEFINE r == [filled_quantity |-> filled[o], ok |-> TRUE, by |-> "rest"]
    <3>1. Goto(o, "done") /\ order' = [order EXCEPT ![o] = r]
      BY <1>5, <2>2 DEF RestAnswers, Return
    <3>2. r \in Report /\ Honest(o, r)
      BY <1>0, <2>1, <2>2 DEF Report, Honest
    <3> HIDE DEF r
    <3> QED
      BY <2>1, <3>1, <3>2, GotoType, AnswerTrue
  <2>3. CASE ~(filled[o] > 0)
    BY <1>5, <2>1, <2>3, AttemptType, MoveTrue DEF RestAnswers
  <2> QED
    BY <2>2, <2>3
<1>6. CASE UpbitAnswers(o)
  <2> DEFINE r == populate_upbit_order_from_body(o)
  <2>1. /\ UNCHANGED <<venueVars, wsVars>> /\ order' = [order EXCEPT ![o] = r]
        /\ Goto(o, "done") \/ NextQuery(o)
    BY <1>6 DEF UpbitAnswers
  <2>2. r \in Report
    <3>1. UpbitFilled(o) \in BOOLEAN
      BY DEF UpbitFilled
    <3> QED
      BY <1>0, <3>1 DEF Report, populate_upbit_order_from_body
  <2>3. Honest(o, r)
    <3>1. r.filled_quantity = filled[o] /\ (r.ok => ended[o] = "filled")
      BY DEF populate_upbit_order_from_body, UpbitFilled
    <3> QED
      BY <1>0, <3>1, FillAssumption DEF Honest, FillInv
  <2> HIDE DEF r
  <2> QED
    BY <2>1, <2>2, <2>3, GotoType, AttemptType, AnswerTrue
<1> QED
  BY <1>1, <1>2, <1>3, <1>4, <1>5, <1>6 DEF Querying

LEMMA InitFill == FillInit => FillInv
<1> SUFFICES ASSUME FillInit PROVE FillInv
  OBVIOUS
<1>1. FillTypeOK
  <2>1. 0 \in 0..Qty /\ 0 \in 0..MaxAttempts-1 /\ 0 \in 0..MaxDrops
    BY FillAssumption
  <2>2. events \in Seq(FillEvent)
    BY EmptySeq DEF FillInit
  <2>3. session \in BOOLEAN /\ private_ws_authenticated_ \in BOOLEAN
    BY Zenon DEF FillInit
  <2>4. order \in [Orders -> Report]
    <3>1. [filled_quantity |-> 0, ok |-> FALSE, by |-> "none"] \in Report
      BY <2>1 DEF Report
    <3> QED
      BY <3>1, Zenon DEF FillInit
  <2>5. query \in [Orders -> Query]
    BY <2>1 DEF FillInit, Query
  <2> QED
    BY <2>1, <2>2, <2>3, <2>4, <2>5 DEF FillInit, FillTypeOK, FillEvent, Report, Query
<1>2. events \in Seq(TrueEvent)
  BY EmptySeq DEF FillInit
<1> QED
  BY <1>1, <1>2, FillAssumption
  DEF FillInit, FillInv, NoFeed, CacheOK, ReportIsReal, ReportIsFinal

LEMMA StepFill == FillInv /\ [FillNext]_fillVars => FillInv'
<1> SUFFICES ASSUME FillInv, [FillNext]_fillVars PROVE FillInv'
  OBVIOUS
<1>1. CASE UNCHANGED fillVars
  BY <1>1 DEF fillVars, venueVars, wsVars, FillInv, FillTypeOK, NoFeed, TrueEvent,
              CacheOK, ReportIsReal, ReportIsFinal
<1>2. CASE FillNext
  BY <1>2, TradeTrue, CancelTrue, SessionTrue, MessageTrue, QueryingTrue DEF FillNext
<1> QED
  BY <1>1, <1>2

\* A fill query reports no more than its order has filled, and a success is
\* never empty (query_order_fill, query_order_detail of every venue).
THEOREM ReportsAreReal == FillSpec => []ReportIsReal
<1>1. FillInv => ReportIsReal
  BY DEF FillInv
<1> QED
  BY <1>1, InitFill, StepFill, PTL DEF FillSpec

\* A report from the fill cache of Bybit and OKX, and every success of Upbit,
\* is the whole order, whatever sessions were lost on the way.
THEOREM ReportsAreFinal == FillSpec => []ReportIsFinal
<1>1. FillInv => ReportIsFinal
  BY DEF FillInv
<1> QED
  BY <1>1, InitFill, StepFill, PTL DEF FillSpec
-----------------------------------------------------------------------------
(* Upbit: the resync thread is joined before the prices are zeroed.        *)

UpbitPlace == {"off", "tickers", "subscribe", "get", "bid", "ask", "overlay",
               "start", "sleep", "opened", "join"}
UpbitThread ==
  [pc : UpbitPlace, quote : Nat, next : {"off", "start", "sleep"}]
UpbitMessage == [type : {"ticker"}] \cup [type : {"orderbook"}, quote : Nat]

UpbitType ==
  /\ uvenue \in Nat /\ ucount \in [ticks : Nat, faults : Nat]
  /\ uup \in BOOLEAN /\ uconnected \in BOOLEAN /\ urunning \in BOOLEAN
  /\ ustream \in [tickers : BOOLEAN, depth : BOOLEAN]
  /\ uwant \in [tickers : BOOLEAN, depth : BOOLEAN]
  /\ uwire \in Seq(UpbitMessage)
  /\ ubbo \in [known : BOOLEAN, bid : Nat, ask : Nat]
  /\ uthread \in [Upbit!Threads -> UpbitThread]

\* what main and the resync thread do, and where a store leads them
UpbitPlaces ==
  /\ uthread["main"].pc \in {"tickers", "subscribe", "get", "bid", "ask", "start", "off"}
  /\ uthread["main"].pc \in {"bid", "ask"} => uthread["main"].next = "start"
  /\ uthread["resync"].pc \in {"off", "sleep", "get", "bid", "ask"}
  /\ uthread["resync"].pc \in {"bid", "ask"} => uthread["resync"].next = "sleep"

\* a handler of the strand runs in a session, whose callback has run first;
\* only a lost session is joined
UpbitStrand ==
  /\ uup /\ uthread["io"].pc # "opened" => uconnected
  /\ uthread["io"].pc \notin {"off", "join"} => uup
  /\ uthread["io"].pc = "join" => ~uup /\ ~uconnected

\* until main has subscribed to the order book nobody has a price to store
UpbitUntouched ==
  uthread["main"].pc \in {"tickers", "subscribe"} =>
    /\ ~uwant.depth /\ ~ustream.depth /\ ~urunning
    /\ uwire \in Seq([type : {"ticker"}])
    /\ uthread["resync"].pc = "off"
    /\ uthread["io"].pc \in {"off", "overlay", "opened", "join"}
    /\ ubbo.bid = 0 /\ ubbo.ask = 0

\* the resync thread runs as long as it is wanted, and has ended when the
\* strand leaves on_ws_disconnected
UpbitResync ==
  /\ urunning => uthread["resync"].pc # "off"
  /\ ~uconnected /\ ~urunning /\ uthread["io"].pc = "off"
       => uthread["resync"].pc = "off"

UpbitInv ==
  /\ UpbitType /\ UpbitPlaces /\ UpbitStrand
  /\ UpbitUntouched /\ UpbitResync /\ UpbitZeroed

-----------------------------------------------------------------------------
(* Bybit and OKX: every batch is streamed or still to be sent.             *)

ForeignType ==
  /\ fup \in BOOLEAN /\ fwant \in BOOLEAN /\ fstream \subseteq Batches
  /\ fthread \in [Foreign!Threads ->
       [pc : {"off", "store", "check", "send", "opened"}, left : SUBSET Batches]]

\* who will still send batch b in this session
ToSend(t, b) ==
  \/ fthread[t].pc \in {"opened", "store", "check"}
  \/ fthread[t].pc = "send" /\ b \in fthread[t].left

ForeignCovered ==
  /\ fthread["io"].pc # "off" => fup
  /\ fthread["main"].pc # "store" => fwant
  /\ fthread["main"].pc # "opened"
  /\ fup => \A b \in Batches :
              b \in fstream \/ ToSend("io", b) \/ ToSend("main", b)

ForeignInv == ForeignType /\ ForeignCovered

-----------------------------------------------------------------------------
(* Bithumb: a snapshot and the deltas on the way.                          *)

Delta == [type : {"depth"}, side : Sides, price : Prices, present : BOOLEAN,
          number : Nat]
Message == Delta \cup [type : {"ticker"}]

\* a fetching thread has these fields; its snapshot is a book
Fetching(f) ==
  /\ f = [pc |-> f.pc, levels |-> f.levels, since |-> f.since, bid |-> f.bid]
  /\ f.levels \in [Sides -> SUBSET Prices] /\ f.since \in 0..Gap

BithumbType ==
  /\ venue \in [Sides -> SUBSET Prices]
  /\ count \in [moves : 0..MaxMoves, ticks : Nat, drops : Nat, failures : Nat]
  /\ count.drops + count.failures <= MaxFaults
  /\ stream \in [tickers : BOOLEAN, depth : BOOLEAN]
  /\ want \in [tickers : BOOLEAN, depth : BOOLEAN]
  /\ wire \in Seq(Message)
  /\ book \in [levels : [Sides -> SUBSET Prices], initialized : BOOLEAN]
  /\ fetch = [t \in Threads |-> fetch[t]]
  /\ \A t \in Threads : Fetching(fetch[t])
  /\ handled \in Nat /\ exact \in BOOLEAN /\ reach \in [Sides -> SUBSET Prices]

IsDelta(i) == i \in 1..Len(wire) /\ wire[i].type = "depth"
About(i, s, p) == IsDelta(i) /\ wire[i].side = s /\ wire[i].price = p

\* deltas come in the order of the venue's moves, after those that were read
InOrder ==
  /\ handled <= count.moves
  /\ \A i \in 1..Len(wire) : IsDelta(i) =>
       /\ stream.depth
       /\ wire[i].number \in (handled + 1)..count.moves
       /\ \A j \in 1..Len(wire) : IsDelta(j) /\ i < j => wire[i].number < wire[j].number

\* the last delta about a level tells how the level is now
LastIsTrue ==
  \A s \in Sides, p \in Prices, i \in 1..Len(wire) :
    /\ About(i, s, p)
    /\ \A j \in 1..Len(wire) : i < j => ~About(j, s, p)
    => (wire[i].present <=> p \in venue[s])

\* what the levels of a side say of price p: they hold it only if the venue
\* does, and if the venue does, unless the snapshot could have cut it off
Right(p, levels, told, real) ==
  (p \in levels => p \in real) /\ (p \in told /\ p \in real => p \in levels)

\* a snapshot that is waiting for the mutex differs from the venue only in
\* levels that a later delta on the way is about, unless one was read already
SnapshotIsTrue ==
  \A t \in Threads : fetch[t].since # Gap =>
    /\ stream.depth /\ fetch[t].since <= count.moves
    /\ handled <= fetch[t].since =>
         \A s \in Sides, p \in Prices :
           (\A i \in 1..Len(wire) : About(i, s, p) => wire[i].number <= fetch[t].since)
             => Right(p, fetch[t].levels[s],
                      Reach(s, fetch[t].levels[s], Depth(t)), venue[s])

\* an exact book differs from the venue only in levels that a delta on the
\* way is about
BookIsTrue ==
  exact =>
    /\ stream.depth /\ book.initialized
    /\ \A s \in Sides, p \in Prices :
         (\A i \in 1..Len(wire) : ~About(i, s, p))
           => Right(p, book.levels[s], reach[s], venue[s])

BithumbInv ==
  BithumbType /\ InOrder /\ LastIsTrue /\ SnapshotIsTrue /\ BookIsTrue

-----------------------------------------------------------------------------
(* Proofs for Bybit and OKX.                                               *)

LEMMA ForeignStart == MarketInit => ForeignInv
<1> SUFFICES ASSUME MarketInit PROVE ForeignInv
  OBVIOUS
<1>1. /\ fup = TRUE /\ fwant = FALSE /\ fstream = {}
      /\ fthread = [t \in Foreign!Threads |->
                      IF t = "main" THEN [Foreign!Rest EXCEPT !.pc = "store"]
                      ELSE Foreign!Rest]
  BY DEF MarketInit, Foreign!Init
<1>2. [Foreign!Rest EXCEPT !.pc = "store"] = [pc |-> "store", left |-> {}]
  BY DEF Foreign!Rest
<1>3. /\ fthread["main"] = [pc |-> "store", left |-> {}]
      /\ fthread["io"] = [pc |-> "off", left |-> {}]
      /\ fthread \in [Foreign!Threads ->
           [pc : {"off", "store", "check", "send", "opened"}, left : SUBSET Batches]]
  BY <1>1, <1>2 DEF Foreign!Threads, Foreign!Rest
<1>4. ForeignType
  BY <1>1, <1>3 DEF ForeignType
<1>5. ForeignCovered
  BY <1>1, <1>3 DEF ForeignCovered, ToSend
<1> QED
  BY <1>4, <1>5 DEF ForeignInv

\* a thread that only changes its place
LEMMA ForeignGoto ==
  ASSUME NEW P, NEW S, NEW r \in [pc : P, left : S], NEW pc \in P
  PROVE  /\ [r EXCEPT !.pc = pc] = [pc |-> pc, left |-> r.left]
         /\ [pc |-> pc, left |-> r.left] \in [pc : P, left : S]
  OBVIOUS

\* a step that moves thread t to the given place
LEMMA ForeignMove ==
  ASSUME ForeignInv, NEW t \in Foreign!Threads,
         NEW r \in [pc : {"off", "store", "check", "send", "opened"},
                    left : SUBSET Batches],
         fthread' = [fthread EXCEPT ![t] = r]
  PROVE  /\ fthread' \in [Foreign!Threads ->
              [pc : {"off", "store", "check", "send", "opened"},
               left : SUBSET Batches]]
         /\ fthread'[t] = r
         /\ \A u \in Foreign!Threads : u # t => fthread'[u] = fthread[u]
  BY DEF ForeignInv, ForeignType

LEMMA ForeignStore ==
  ASSUME ForeignInv, NEW t \in Foreign!Threads, Foreign!StoreList(t)
  PROVE  ForeignInv'
<1> DEFINE r == [pc |-> "check", left |-> fthread[t].left]
<1>1. /\ fthread[t].pc = "store" /\ fwant' = TRUE
      /\ fthread' = [fthread EXCEPT ![t].pc = "check"]
      /\ UNCHANGED <<fup, fstream>>
  BY DEF Foreign!StoreList, Foreign!Stored, ForeignInv, ForeignType
<1>2. /\ fthread' = [fthread EXCEPT ![t] = r]
      /\ r \in [pc : {"off", "store", "check", "send", "opened"}, left : SUBSET Batches]
  <2>1. fthread[t] \in [pc : {"off", "store", "check", "send", "opened"},
                         left : SUBSET Batches]
    BY DEF ForeignInv, ForeignType
  <2>2. r = [fthread[t] EXCEPT !.pc = "check"]
    BY <2>1, ForeignGoto
  <2> QED
    BY <1>1, <2>1, <2>2, ForeignGoto
<1> HIDE DEF r
<1>3. /\ fthread'[t] = r
      /\ \A u \in Foreign!Threads : u # t => fthread'[u] = fthread[u]
      /\ fthread' \in [Foreign!Threads ->
           [pc : {"off", "store", "check", "send", "opened"}, left : SUBSET Batches]]
  BY <1>2, ForeignMove
<1>4. r.pc = "check"
  BY DEF r
<1> QED
  BY <1>1, <1>3, <1>4 DEF ForeignInv, ForeignType, ForeignCovered, ToSend, Foreign!Threads

LEMMA ForeignCheck ==
  ASSUME ForeignInv, NEW t \in Foreign!Threads, Foreign!CheckConnected(t)
  PROVE  ForeignInv'
<1> DEFINE r == IF fup THEN [pc |-> "send", left |-> Batches]
                ELSE [pc |-> "off", left |-> {}]
<1>1. /\ fthread[t].pc = "check"
      /\ fthread' = [fthread EXCEPT ![t] = r]
      /\ UNCHANGED <<fup, fstream, fwant>>
  BY DEF Foreign!CheckConnected, Foreign!Rest
<1>2. r \in [pc : {"off", "store", "check", "send", "opened"}, left : SUBSET Batches]
  BY DEF ForeignInv, ForeignType
<1>3. /\ fup => r.pc = "send" /\ r.left = Batches
      /\ ~fup => r.pc = "off"
  OBVIOUS
<1> HIDE DEF r
<1>4. /\ fthread'[t] = r
      /\ \A u \in Foreign!Threads : u # t => fthread'[u] = fthread[u]
      /\ fthread' \in [Foreign!Threads ->
           [pc : {"off", "store", "check", "send", "opened"}, left : SUBSET Batches]]
  BY <1>1, <1>2, ForeignMove
<1> QED
  BY <1>1, <1>3, <1>4 DEF ForeignInv, ForeignType, ForeignCovered, ToSend, Foreign!Threads

LEMMA ForeignSend ==
  ASSUME ForeignInv, NEW t \in Foreign!Threads, Foreign!SendBatch(t)
  PROVE  ForeignInv'
<1>1. PICK b \in fthread[t].left :
        /\ fthread' = [fthread EXCEPT ![t] =
                         IF @.left = {b} THEN Foreign!Rest
                         ELSE [pc |-> "send", left |-> @.left \ {b}]]
        /\ fstream' = IF fup THEN fstream \cup {b} ELSE fstream
  BY DEF Foreign!SendBatch
<1>2. fthread[t].pc = "send" /\ UNCHANGED <<fup, fwant>>
  BY DEF Foreign!SendBatch
<1>3. fthread[t] \in [pc : {"off", "store", "check", "send", "opened"},
                      left : SUBSET Batches]
  BY DEF ForeignInv, ForeignType
<1> DEFINE r == IF fthread[t].left = {b} THEN [pc |-> "off", left |-> {}]
                ELSE [pc |-> "send", left |-> fthread[t].left \ {b}]
<1>4. /\ r \in [pc : {"off", "store", "check", "send", "opened"}, left : SUBSET Batches]
      /\ \A c \in fthread[t].left : c # b => r.pc = "send" /\ c \in r.left
      /\ r.pc \in {"off", "send"}
  BY <1>3
<1>5. fthread' = [fthread EXCEPT ![t] = r]
  BY <1>1 DEF Foreign!Rest
<1> HIDE DEF r
<1>6. /\ fthread'[t] = r
      /\ \A u \in Foreign!Threads : u # t => fthread'[u] = fthread[u]
      /\ fthread' \in [Foreign!Threads ->
           [pc : {"off", "store", "check", "send", "opened"}, left : SUBSET Batches]]
  BY <1>4, <1>5, ForeignMove
<1>7. ForeignType'
  BY <1>1, <1>2, <1>3, <1>6 DEF ForeignInv, ForeignType
<1>8. ASSUME fup', NEW c \in Batches
      PROVE  c \in fstream' \/ ToSend("io", c)' \/ ToSend("main", c)'
  <2>1. c \in fstream \/ ToSend("io", c) \/ ToSend("main", c)
    BY <1>2, <1>8 DEF ForeignInv, ForeignCovered
  <2>2. ASSUME NEW u \in Foreign!Threads, ToSend(u, c) PROVE c \in fstream' \/ ToSend(u, c)'
    <3>1. CASE u # t
      BY <2>2, <3>1, <1>6 DEF ToSend
    <3>2. CASE u = t
      <4>1. c \in fthread[t].left
        BY <2>2, <3>2, <1>2 DEF ToSend
      <4>2. CASE c = b
        BY <4>2, <1>1, <1>2, <1>8
      <4>3. CASE c # b
        BY <4>1, <4>3, <1>4, <1>6, <3>2 DEF ToSend
      <4> QED
        BY <4>2, <4>3
    <3> QED
      BY <3>1, <3>2
  <2>3. c \in fstream => c \in fstream'
    BY <1>1
  <2> QED
    BY <2>1, <2>2, <2>3 DEF Foreign!Threads
<1>9. /\ fthread'["io"].pc # "off" => fup'
      /\ fthread'["main"].pc # "store" => fwant'
      /\ fthread'["main"].pc # "opened"
  BY <1>2, <1>4, <1>6 DEF ForeignInv, ForeignCovered, Foreign!Threads
<1> QED
  BY <1>7, <1>8, <1>9 DEF ForeignInv, ForeignCovered

LEMMA ForeignSession ==
  ASSUME ForeignInv, Foreign!Drop \/ Foreign!Reconnect \/ Foreign!on_ws_connected
  PROVE  ForeignInv'
<1>1. CASE Foreign!Drop
  <2>1. fup' = FALSE /\ fstream' = {} /\ UNCHANGED <<fwant, fthread>>
        /\ fthread["io"].pc = "off"
    BY <1>1 DEF Foreign!Drop
  <2> QED
    BY <2>1 DEF ForeignInv, ForeignType, ForeignCovered
<1>2. CASE Foreign!Reconnect \/ Foreign!on_ws_connected
  <2> DEFINE pc == CASE Foreign!Reconnect -> "opened"
                     [] OTHER -> IF fwant THEN "store" ELSE "off"
             r == [pc |-> pc, left |-> fthread["io"].left]
  <2>1. /\ fthread' = [fthread EXCEPT !["io"].pc = pc]
        /\ UNCHANGED <<fwant, fstream>> /\ fup' = TRUE
        /\ pc \in {"opened", "store", "off"} /\ (pc = "off" => ~fwant /\ fup)
    BY <1>2 DEF Foreign!Reconnect, Foreign!on_ws_connected, ForeignInv, ForeignType,
                ForeignCovered
  <2> HIDE DEF pc
  <2>2. /\ fthread' = [fthread EXCEPT !["io"] = r]
        /\ r \in [pc : {"off", "store", "check", "send", "opened"}, left : SUBSET Batches]
        /\ r.pc = pc
    <3>1. fthread["io"] \in [pc : {"off", "store", "check", "send", "opened"},
                             left : SUBSET Batches]
      BY DEF ForeignInv, ForeignType, Foreign!Threads
    <3>2. r = [fthread["io"] EXCEPT !.pc = pc]
      BY <2>1, <3>1, ForeignGoto
    <3> QED
      BY <2>1, <3>1, <3>2, ForeignGoto
  <2> HIDE DEF r
  <2>3. /\ fthread'["io"] = r /\ fthread'["main"] = fthread["main"]
        /\ fthread' \in [Foreign!Threads ->
             [pc : {"off", "store", "check", "send", "opened"}, left : SUBSET Batches]]
    BY <2>2, ForeignMove DEF Foreign!Threads
  <2> QED
    BY <2>1, <2>2, <2>3 DEF ForeignInv, ForeignType, ForeignCovered, ToSend
<1> QED
  BY <1>1, <1>2

LEMMA ForeignStep == ForeignInv /\ [MarketNext]_allvars => ForeignInv'
<1> SUFFICES ASSUME ForeignInv, [MarketNext]_allvars PROVE ForeignInv'
  OBVIOUS
<1>1. CASE UNCHANGED fvars
  BY <1>1 DEF fvars, ForeignInv, ForeignType, ForeignCovered, ToSend
<1>2. CASE Foreign!Next
  <2>1. CASE Foreign!VenueMoves \/ Foreign!on_ws_message
    <3>1. UNCHANGED <<fup, fwant, fstream, fthread>>
      BY <2>1 DEF Foreign!VenueMoves, Foreign!on_ws_message
    <3> QED
      BY <3>1 DEF ForeignInv, ForeignType, ForeignCovered, ToSend
  <2>2. ASSUME NEW t \in Foreign!Threads, Foreign!Runs(t) PROVE ForeignInv'
    BY <2>2, ForeignStore, ForeignCheck, ForeignSend DEF Foreign!Runs
  <2> QED
    BY <1>2, <2>1, <2>2, ForeignSession
    DEF Foreign!Next, Foreign!StrandRuns, Foreign!Threads
<1> QED
  BY <1>1, <1>2
  DEF MarketNext, InBithumb, InUpbit, InForeign, allvars

\* However many batches there are and sessions are lost, and however main's
\* subscription and those of the strand interleave, a session in which both
\* are done streams every batch (subscribe_orderbook, on_ws_connected).
THEOREM EverySymbolStreams == MarketSpec => []ForeignSubscribed
<1>1. ForeignInv => ForeignSubscribed
  BY DEF ForeignInv, ForeignType, ForeignCovered, ToSend, ForeignSubscribed,
         Foreign!AllSubscribed
<1> QED
  BY <1>1, ForeignStart, ForeignStep, PTL DEF MarketSpec

-----------------------------------------------------------------------------
(* Proofs for Upbit.                                                       *)

LEMMA UpbitGoto ==
  ASSUME NEW r \in UpbitThread, NEW pc \in UpbitPlace
  PROVE  /\ [r EXCEPT !.pc = pc] \in UpbitThread
         /\ [r EXCEPT !.pc = pc].pc = pc
         /\ [r EXCEPT !.pc = pc].next = r.next
  BY DEF UpbitThread

LEMMA UpbitMove ==
  ASSUME UpbitType, NEW t \in Upbit!Threads, NEW r \in UpbitThread,
         uthread' = [uthread EXCEPT ![t] = r]
  PROVE  /\ uthread' \in [Upbit!Threads -> UpbitThread]
         /\ uthread'[t] = r
         /\ \A u \in Upbit!Threads : u # t => uthread'[u] = uthread[u]
  BY DEF UpbitType

\* a thread that only changes its place
LEMMA UpbitGoes ==
  ASSUME UpbitType, NEW t \in Upbit!Threads, NEW pc \in UpbitPlace,
         uthread' = [uthread EXCEPT ![t].pc = pc]
  PROVE  /\ uthread' \in [Upbit!Threads -> UpbitThread]
         /\ uthread'[t].pc = pc /\ uthread'[t].next = uthread[t].next
         /\ \A u \in Upbit!Threads : u # t => uthread'[u] = uthread[u]
<1> DEFINE r == [uthread[t] EXCEPT !.pc = pc]
<1>1. uthread[t] \in UpbitThread
  BY DEF UpbitType
<1>2. r \in UpbitThread /\ r.pc = pc /\ r.next = uthread[t].next
  BY <1>1, UpbitGoto
<1>3. uthread' = [uthread EXCEPT ![t] = r]
  OBVIOUS
<1> HIDE DEF r
<1> QED
  BY <1>2, <1>3, UpbitMove

LEMMA UpbitAt ==
  ASSUME NEW pc \in UpbitPlace
  PROVE  Upbit!At(pc) \in UpbitThread /\ Upbit!At(pc).pc = pc
  BY DEF Upbit!At, UpbitThread

LEMMA UpbitStart == MarketInit => UpbitInv
<1> SUFFICES ASSUME MarketInit PROVE UpbitInv
  OBVIOUS
<1>1. /\ uvenue = 1 /\ ucount = [ticks |-> 0, faults |-> 0]
      /\ uup = TRUE /\ uconnected = TRUE /\ urunning = FALSE
      /\ ustream = [tickers |-> FALSE, depth |-> FALSE] /\ uwire = <<>>
      /\ uwant = [tickers |-> FALSE, depth |-> FALSE]
      /\ ubbo = [known |-> FALSE, bid |-> 0, ask |-> 0]
      /\ uthread = [t \in Upbit!Threads |->
                      Upbit!At(IF t = "main" THEN "tickers" ELSE "off")]
  BY DEF MarketInit, Upbit!Init
<1>2. /\ uthread \in [Upbit!Threads -> UpbitThread]
      /\ uthread["main"].pc = "tickers" /\ uthread["io"].pc = "off"
      /\ uthread["resync"].pc = "off"
  <2>1. \A t \in Upbit!Threads :
          (IF t = "main" THEN "tickers" ELSE "off") \in UpbitPlace
    BY DEF UpbitPlace
  <2> QED
    BY <1>1, <2>1, UpbitAt DEF Upbit!Threads
<1>3. uwire \in Seq(UpbitMessage) /\ uwire \in Seq([type : {"ticker"}])
  BY <1>1, EmptySeq
<1>4. UpbitType
  BY <1>1, <1>2, <1>3 DEF UpbitType
<1>5. ~uwant.depth /\ ~ustream.depth /\ ~urunning /\ ubbo.bid = 0 /\ ubbo.ask = 0
  BY <1>1
<1>6. UpbitPlaces /\ UpbitStrand /\ UpbitUntouched /\ UpbitResync /\ UpbitZeroed
  BY <1>1, <1>2, <1>3, <1>5
  DEF UpbitPlaces, UpbitStrand, UpbitUntouched, UpbitResync, UpbitZeroed,
      Upbit!ZeroedWhileDown
<1> QED
  BY <1>4, <1>6 DEF UpbitInv

LEMMA UpbitVenue ==
  ASSUME UpbitInv, Upbit!VenueMoves \/ Upbit!VenueTicks
  PROVE  UpbitInv'
<1>1. UNCHANGED <<uup, ustream, uconnected, uwant, urunning, ubbo, uthread>>
  BY DEF Upbit!VenueMoves, Upbit!VenueTicks
<1>2. uvenue' \in Nat /\ ucount' \in [ticks : Nat, faults : Nat]
  <2>1. CASE Upbit!VenueMoves
    BY <2>1 DEF Upbit!VenueMoves, UpbitInv, UpbitType
  <2>2. CASE Upbit!VenueTicks
    BY <2>2 DEF Upbit!VenueTicks, UpbitInv, UpbitType
  <2> QED
    BY <2>1, <2>2
<1>3. /\ uwire' \in Seq(UpbitMessage)
      /\ ~ustream.depth /\ uwire \in Seq([type : {"ticker"}])
           => uwire' \in Seq([type : {"ticker"}])
  <2>1. CASE Upbit!VenueMoves
    <3>1. [type |-> "orderbook", quote |-> uvenue'] \in UpbitMessage
      BY <1>2 DEF UpbitMessage
    <3> QED
      BY <2>1, <3>1, AppendProperties DEF Upbit!VenueMoves, UpbitInv, UpbitType
  <2>2. CASE Upbit!VenueTicks
    <3>1. [type |-> "ticker"] \in UpbitMessage /\ [type |-> "ticker"] \in [type : {"ticker"}]
      BY DEF UpbitMessage
    <3> QED
      BY <2>2, <3>1, AppendProperties DEF Upbit!VenueTicks, UpbitInv, UpbitType
  <2> QED
    BY <2>1, <2>2
<1>4. UpbitType'
  BY <1>1, <1>2, <1>3 DEF UpbitInv, UpbitType
<1>5. UpbitUntouched'
  BY <1>1, <1>3 DEF UpbitInv, UpbitUntouched
<1> QED
  BY <1>1, <1>4, <1>5
  DEF UpbitInv, UpbitPlaces, UpbitStrand, UpbitResync, UpbitZeroed, Upbit!ZeroedWhileDown

LEMMA UpbitStore ==
  ASSUME UpbitInv, NEW t \in Upbit!Threads, Upbit!StoreBid(t) \/ Upbit!StoreAsk(t)
  PROVE  UpbitInv'
<1>1. /\ uthread[t].pc \in {"bid", "ask"}
      /\ UNCHANGED <<uvenue, ucount, uup, ustream, uwire, uconnected, uwant, urunning>>
  BY DEF Upbit!StoreBid, Upbit!StoreAsk
<1>2. uthread[t] \in UpbitThread /\ uthread[t].quote \in Nat
      /\ uthread[t].next \in {"off", "start", "sleep"}
  BY DEF UpbitInv, UpbitType, UpbitThread
<1>3. ubbo' \in [known : BOOLEAN, bid : Nat, ask : Nat]
  BY <1>2 DEF Upbit!StoreBid, Upbit!StoreAsk, UpbitInv, UpbitType
<1>4. /\ uthread' \in [Upbit!Threads -> UpbitThread]
      /\ \A u \in Upbit!Threads : u # t => uthread'[u] = uthread[u]
      /\ \/ uthread'[t].pc = "ask" /\ uthread'[t].next = uthread[t].next
         \/ uthread'[t].pc = uthread[t].next
  <2>1. CASE Upbit!StoreBid(t)
    <3>1. uthread' = [uthread EXCEPT ![t].pc = "ask"] /\ "ask" \in UpbitPlace
      BY <2>1 DEF Upbit!StoreBid, UpbitPlace
    <3> QED
      BY <3>1, UpbitGoes DEF UpbitInv
  <2>2. CASE Upbit!StoreAsk(t)
    <3>1. /\ uthread' = [uthread EXCEPT ![t] = Upbit!At(uthread[t].next)]
          /\ uthread[t].next \in UpbitPlace
      BY <2>2, <1>2 DEF Upbit!StoreAsk, UpbitPlace
    <3> QED
      BY <3>1, UpbitMove, UpbitAt DEF UpbitInv
  <2> QED
    BY <2>1, <2>2
<1>5. UpbitType'
  BY <1>1, <1>3, <1>4 DEF UpbitInv, UpbitType
\* nobody stores while main has not subscribed, and nobody but the resync
\* thread ends in a place that ZeroedWhileDown looks at without a session
<1>6. uthread["main"].pc \notin {"tickers", "subscribe"}
  BY <1>1 DEF UpbitInv, UpbitUntouched, UpbitPlaces, Upbit!Threads
<1>7. /\ t = "main" => uthread'["main"].pc \in {"ask", "start"}
      /\ t = "resync" => uthread'["resync"].pc \in {"ask", "sleep"}
      /\ t = "io" => uconnected
  BY <1>1, <1>4 DEF UpbitInv, UpbitPlaces, UpbitStrand
<1>8. UpbitPlaces' /\ UpbitStrand' /\ UpbitUntouched' /\ UpbitResync'
  <2>1. /\ uthread'["main"].pc \notin {"tickers", "subscribe"}
        /\ t # "main" => uthread'["main"] = uthread["main"]
        /\ t # "resync" => uthread'["resync"] = uthread["resync"]
        /\ t # "io" => uthread'["io"] = uthread["io"]
        /\ t = "io" => uup
    BY <1>1, <1>4, <1>6, <1>7 DEF UpbitInv, UpbitStrand, Upbit!Threads
  <2>2. UpbitPlaces'
    BY <1>1, <1>4, <1>7, <2>1 DEF UpbitInv, UpbitPlaces
  <2>3. UpbitStrand' /\ UpbitUntouched'
    BY <1>1, <1>4, <1>7, <2>1, <1>2 DEF UpbitInv, UpbitStrand, UpbitUntouched
  <2>4. UpbitResync'
    BY <1>1, <1>7, <2>1 DEF UpbitInv, UpbitResync
  <2> QED
    BY <2>2, <2>3, <2>4
<1>9. UpbitZeroed'
  <2> SUFFICES ASSUME ~uconnected', ~urunning', uthread'["io"].pc = "off",
                      uthread'["main"].pc = "off"
               PROVE  FALSE
    BY DEF UpbitZeroed, Upbit!ZeroedWhileDown
  <2> QED
    BY <1>1, <1>4, <1>7 DEF UpbitInv, UpbitResync, Upbit!Threads
<1> QED
  BY <1>5, <1>8, <1>9 DEF UpbitInv

LEMMA UpbitGet ==
  ASSUME UpbitInv, NEW t \in Upbit!Threads, Upbit!Get(t)
  PROVE  UpbitInv'
<1>1. /\ uthread[t].pc = "get"
      /\ UNCHANGED <<uvenue, uup, ustream, uwire, uconnected, uwant, urunning, ubbo>>
  BY DEF Upbit!Get
<1>2. ucount' \in [ticks : Nat, faults : Nat]
  <2>1. ucount \in [ticks : Nat, faults : Nat]
    BY DEF UpbitInv, UpbitType
  <2>2. UNCHANGED ucount \/ ucount' = [ucount EXCEPT !.faults = @ + 1]
    BY DEF Upbit!Get
  <2> QED
    BY <2>1, <2>2
<1>3. Upbit!Fetched(t) \in {"sleep", "start"} /\ Upbit!Fetched(t) \in UpbitPlace
  BY DEF Upbit!Fetched, UpbitPlace
<1>4. /\ uthread' \in [Upbit!Threads -> UpbitThread]
      /\ \A u \in Upbit!Threads : u # t => uthread'[u] = uthread[u]
      /\ \/ uthread'[t].pc = "bid" /\ uthread'[t].next = Upbit!Fetched(t)
         \/ uthread'[t].pc = Upbit!Fetched(t)
  <2> DEFINE r == [pc |-> "bid", quote |-> uvenue, next |-> Upbit!Fetched(t)]
  <2>1. r \in UpbitThread /\ r.pc = "bid" /\ r.next = Upbit!Fetched(t)
    BY <1>3 DEF UpbitInv, UpbitType, UpbitThread, UpbitPlace
  <2>2. \/ uthread' = [uthread EXCEPT ![t] = r]
        \/ uthread' = [uthread EXCEPT ![t].pc = Upbit!Fetched(t)]
    BY DEF Upbit!Get
  <2> HIDE DEF r
  <2> QED
    BY <1>3, <2>1, <2>2, UpbitMove, UpbitGoes DEF UpbitInv
<1>5. UpbitType'
  BY <1>1, <1>2, <1>4 DEF UpbitInv, UpbitType
<1>6. uthread["main"].pc \notin {"tickers", "subscribe"}
  BY <1>1 DEF UpbitInv, UpbitUntouched, UpbitPlaces, Upbit!Threads
<1>7. /\ t = "main" => /\ uthread'["main"].pc \in {"bid", "start"}
                       /\ uthread'["main"].pc = "bid" => uthread'["main"].next = "start"
      /\ t = "resync" => /\ uthread'["resync"].pc \in {"bid", "sleep"}
                         /\ uthread'["resync"].pc = "bid" => uthread'["resync"].next = "sleep"
      /\ t = "io" => uconnected /\ uup /\ uthread'["io"].pc \in {"bid", "start"}
  BY <1>1, <1>4 DEF UpbitInv, UpbitStrand, Upbit!Fetched
<1>8. UpbitPlaces' /\ UpbitStrand' /\ UpbitUntouched' /\ UpbitResync'
  BY <1>1, <1>4, <1>6, <1>7
  DEF UpbitInv, UpbitPlaces, UpbitStrand, UpbitUntouched, UpbitResync, Upbit!Threads
<1>9. UpbitZeroed'
  BY <1>1, <1>4, <1>7 DEF UpbitInv, UpbitZeroed, Upbit!ZeroedWhileDown, Upbit!Threads
<1> QED
  BY <1>5, <1>8, <1>9 DEF UpbitInv

LEMMA UpbitMessages ==
  ASSUME UpbitInv,
         Upbit!OrderbookMessage \/ Upbit!TickerMessage \/ Upbit!Overlay
  PROVE  UpbitInv'
<1>1. /\ UNCHANGED <<uvenue, ucount, uup, ustream, uconnected, uwant, urunning, ubbo>>
      /\ uthread["io"].pc \in {"off", "overlay"} /\ uup /\ uconnected
  BY DEF Upbit!OrderbookMessage, Upbit!TickerMessage, Upbit!Overlay, UpbitInv, UpbitStrand
<1>2. /\ uwire' \in Seq(UpbitMessage)
      /\ uwire \in Seq([type : {"ticker"}]) => uwire' \in Seq([type : {"ticker"}])
  <2>1. uwire' = uwire \/ (uwire # <<>> /\ uwire' = Tail(uwire))
    BY DEF Upbit!OrderbookMessage, Upbit!TickerMessage, Upbit!Overlay
  <2>2. ASSUME NEW S, uwire \in Seq(S) PROVE uwire' \in Seq(S)
    BY <2>1, <2>2, HeadTailProperties
  <2>3. uwire \in Seq(UpbitMessage)
    BY DEF UpbitInv, UpbitType
  <2> QED
    BY <2>2, <2>3
<1>3. /\ uthread' \in [Upbit!Threads -> UpbitThread]
      /\ \A u \in Upbit!Threads : u # "io" => uthread'[u] = uthread[u]
      /\ uthread'["io"].pc \in {"off", "overlay", "bid"}
      /\ uthread'["io"].pc = "bid" => Upbit!OrderbookMessage
  <2>1. CASE Upbit!OrderbookMessage
    <3> DEFINE r == [pc |-> "bid", quote |-> Head(uwire).quote, next |-> "off"]
    <3>1. Head(uwire) \in UpbitMessage /\ Head(uwire).type = "orderbook"
      BY <2>1, HeadTailProperties DEF Upbit!OrderbookMessage, UpbitInv, UpbitType
    <3>2. Head(uwire).quote \in Nat
      BY <3>1 DEF UpbitMessage
    <3>3. r \in UpbitThread /\ r.pc = "bid"
      BY <3>2 DEF UpbitThread, UpbitPlace
    <3>4. uthread' = [uthread EXCEPT !["io"] = r]
      BY <2>1 DEF Upbit!OrderbookMessage
    <3> HIDE DEF r
    <3> QED
      BY <2>1, <3>3, <3>4, UpbitMove DEF UpbitInv, Upbit!Threads
  <2>2. CASE Upbit!TickerMessage
    <3> DEFINE r == [pc |-> "overlay", quote |-> ubbo.bid, next |-> "off"]
    <3>1. r \in UpbitThread /\ r.pc = "overlay"
      BY DEF UpbitThread, UpbitPlace, UpbitInv, UpbitType
    <3>2. uthread' = [uthread EXCEPT !["io"] = r] \/ uthread' = uthread
      BY <2>2 DEF Upbit!TickerMessage
    <3> HIDE DEF r
    <3>3. CASE uthread' = uthread
      BY <2>2, <3>3 DEF UpbitInv, UpbitType, Upbit!TickerMessage
    <3> QED
      BY <3>1, <3>2, <3>3, UpbitMove DEF UpbitInv, Upbit!Threads
  <2>3. CASE Upbit!Overlay
    <3>1. uthread' = [uthread EXCEPT !["io"] = Upbit!At("off")] /\ "off" \in UpbitPlace
      BY <2>3 DEF Upbit!Overlay, UpbitPlace
    <3> QED
      BY <3>1, UpbitMove, UpbitAt DEF UpbitInv, Upbit!Threads
  <2> QED
    BY <2>1, <2>2, <2>3
\* while main has not subscribed there is no order book message to read
<1>4. uthread["main"].pc \in {"tickers", "subscribe"} => uthread'["io"].pc # "bid"
  <2>1. SUFFICES ASSUME uthread["main"].pc \in {"tickers", "subscribe"},
                        Upbit!OrderbookMessage
                 PROVE  FALSE
    BY <1>3
  <2>2. uwire \in Seq([type : {"ticker"}]) /\ uwire # <<>>
        /\ Head(uwire).type = "orderbook"
    BY <2>1 DEF UpbitInv, UpbitUntouched, Upbit!OrderbookMessage
  <2>3. Head(uwire) \in [type : {"ticker"}]
    BY <2>2, HeadTailProperties
  <2> QED
    BY <2>2, <2>3
<1>5. UpbitType'
  BY <1>1, <1>2, <1>3 DEF UpbitInv, UpbitType
<1>6. UpbitPlaces' /\ UpbitStrand' /\ UpbitUntouched' /\ UpbitResync' /\ UpbitZeroed'
  BY <1>1, <1>2, <1>3, <1>4
  DEF UpbitInv, UpbitPlaces, UpbitStrand, UpbitUntouched, UpbitResync, UpbitZeroed,
      Upbit!ZeroedWhileDown, Upbit!Threads
<1> QED
  BY <1>5, <1>6 DEF UpbitInv

LEMMA UpbitSubscribe ==
  ASSUME UpbitInv, NEW t \in Upbit!Threads, Upbit!subscribe_orderbook(t)
  PROVE  UpbitInv'
<1> DEFINE pc == IF uconnected THEN "get" ELSE "off"
<1>1. /\ uthread[t].pc = "subscribe"
      /\ uthread' = [uthread EXCEPT ![t].pc = pc] /\ pc \in UpbitPlace
      /\ UNCHANGED <<uvenue, ucount, uup, uwire, uconnected, urunning>>
  BY DEF Upbit!subscribe_orderbook, UpbitPlace
<1>2. /\ ubbo' \in [known : BOOLEAN, bid : Nat, ask : Nat]
      /\ ubbo'.bid = ubbo.bid /\ ubbo'.ask = ubbo.ask
  BY DEF Upbit!subscribe_orderbook, UpbitInv, UpbitType
<1>3. /\ ustream' \in [tickers : BOOLEAN, depth : BOOLEAN]
      /\ uwant' \in [tickers : BOOLEAN, depth : BOOLEAN]
  BY DEF Upbit!subscribe_orderbook, UpbitInv, UpbitType
<1>4. (pc = "get" /\ uconnected) \/ (pc = "off" /\ ~uconnected)
  OBVIOUS
<1> HIDE DEF pc
<1>5. /\ uthread' \in [Upbit!Threads -> UpbitThread]
      /\ uthread'[t].pc = pc
      /\ \A u \in Upbit!Threads : u # t => uthread'[u] = uthread[u]
  BY <1>1, UpbitGoes DEF UpbitInv
<1>6. UpbitType'
  BY <1>1, <1>2, <1>3, <1>5 DEF UpbitInv, UpbitType
\* the strand is in "subscribe" only after main
<1>7. /\ t \in {"main", "io"}
      /\ t = "io" => uthread["main"].pc \notin {"tickers", "subscribe"} /\ uconnected /\ uup
      /\ t = "main" => ubbo.bid = 0 /\ ubbo.ask = 0 /\ uthread["resync"].pc = "off"
                       /\ ~urunning
  BY <1>1 DEF UpbitInv, UpbitPlaces, UpbitStrand, UpbitUntouched, Upbit!Threads
<1>8. UpbitPlaces' /\ UpbitStrand' /\ UpbitUntouched' /\ UpbitResync' /\ UpbitZeroed'
  BY <1>1, <1>2, <1>4, <1>5, <1>7
  DEF UpbitInv, UpbitPlaces, UpbitStrand, UpbitUntouched, UpbitResync, UpbitZeroed,
      Upbit!ZeroedWhileDown, Upbit!Threads
<1> QED
  BY <1>6, <1>8 DEF UpbitInv

LEMMA UpbitStartLoop ==
  ASSUME UpbitInv, NEW t \in Upbit!Threads, Upbit!start_orderbook_resync_loop(t)
  PROVE  UpbitInv'
<1>1. /\ uthread[t].pc = "start" /\ urunning' = TRUE
      /\ \/ urunning /\ uthread' = [uthread EXCEPT ![t].pc = "off"]
         \/ ~urunning /\ uthread' = [uthread EXCEPT ![t].pc = "off", !["resync"].pc = "sleep"]
      /\ UNCHANGED <<uvenue, ucount, uup, ustream, uwire, uconnected, uwant, ubbo>>
  BY DEF Upbit!start_orderbook_resync_loop, UpbitInv, UpbitType
<1>2. /\ t # "resync" /\ uthread["main"].pc \notin {"tickers", "subscribe"}
      /\ t = "io" => uconnected
  BY <1>1 DEF UpbitInv, UpbitPlaces, UpbitStrand, UpbitUntouched, Upbit!Threads
<1>3. /\ uthread' \in [Upbit!Threads -> UpbitThread]
      /\ uthread'[t].pc = "off" /\ uthread'["resync"].pc \in UpbitPlace
      /\ \/ urunning /\ uthread'["resync"] = uthread["resync"]
         \/ uthread'["resync"].pc = "sleep"
      /\ \A u \in Upbit!Threads \ {t, "resync"} : uthread'[u] = uthread[u]
  <2> DEFINE r == [uthread[t] EXCEPT !.pc = "off"]
             q == [uthread["resync"] EXCEPT !.pc = "sleep"]
  <2>1. uthread[t] \in UpbitThread /\ uthread["resync"] \in UpbitThread
        /\ "off" \in UpbitPlace /\ "sleep" \in UpbitPlace
    BY DEF UpbitInv, UpbitType, Upbit!Threads, UpbitPlace
  <2>2. r \in UpbitThread /\ r.pc = "off" /\ q \in UpbitThread /\ q.pc = "sleep"
    BY <2>1, UpbitGoto
  <2>3. \/ urunning /\ uthread' = [uthread EXCEPT ![t] = r]
        \/ uthread' = [uthread EXCEPT ![t] = r, !["resync"] = q]
    BY <1>1, <1>2 DEF UpbitInv, UpbitType
  <2> HIDE DEF r, q
  <2>4. \A u \in Upbit!Threads : uthread[u].pc \in UpbitPlace
    BY DEF UpbitInv, UpbitType, UpbitThread
  <2> QED
    BY <1>2, <2>1, <2>2, <2>3, <2>4 DEF UpbitInv, UpbitType, Upbit!Threads
<1>4. UpbitType'
  BY <1>1, <1>3 DEF UpbitInv, UpbitType
<1>5. UpbitPlaces' /\ UpbitStrand' /\ UpbitUntouched' /\ UpbitResync' /\ UpbitZeroed'
  BY <1>1, <1>2, <1>3
  DEF UpbitInv, UpbitPlaces, UpbitStrand, UpbitUntouched, UpbitResync, UpbitZeroed,
      Upbit!ZeroedWhileDown, Upbit!Threads
<1> QED
  BY <1>4, <1>5 DEF UpbitInv

\* main's subscription of the tickers, and a turn of the resync loop
LEMMA UpbitTurn ==
  ASSUME UpbitInv, Upbit!subscribe_ticker \/ Upbit!Resync
  PROVE  UpbitInv'
<1>1. CASE Upbit!subscribe_ticker
  <2>1. /\ uthread["main"].pc = "tickers" /\ "subscribe" \in UpbitPlace
        /\ uthread' = [uthread EXCEPT !["main"].pc = "subscribe"]
        /\ UNCHANGED <<uvenue, ucount, uup, uwire, uconnected, urunning, ubbo>>
    BY <1>1 DEF Upbit!subscribe_ticker, UpbitPlace
  <2>2. /\ ustream' \in [tickers : BOOLEAN, depth : BOOLEAN]
        /\ uwant' \in [tickers : BOOLEAN, depth : BOOLEAN]
        /\ ustream'.depth = ustream.depth /\ uwant'.depth = uwant.depth
    BY <1>1 DEF Upbit!subscribe_ticker, UpbitInv, UpbitType
  <2>3. /\ uthread' \in [Upbit!Threads -> UpbitThread]
        /\ uthread'["main"].pc = "subscribe"
        /\ \A u \in Upbit!Threads : u # "main" => uthread'[u] = uthread[u]
    BY <2>1, UpbitGoes DEF UpbitInv, Upbit!Threads
  <2>4. UpbitType'
    BY <2>1, <2>2, <2>3 DEF UpbitInv, UpbitType
  <2>5. UpbitPlaces' /\ UpbitStrand' /\ UpbitUntouched' /\ UpbitResync' /\ UpbitZeroed'
    BY <2>1, <2>2, <2>3
    DEF UpbitInv, UpbitPlaces, UpbitStrand, UpbitUntouched, UpbitResync, UpbitZeroed,
        Upbit!ZeroedWhileDown, Upbit!Threads
  <2> QED
    BY <2>4, <2>5 DEF UpbitInv
<1>2. CASE Upbit!Resync
  <2> DEFINE pc == IF urunning THEN "get" ELSE "off"
  <2>1. /\ uthread["resync"].pc = "sleep" /\ pc \in UpbitPlace
        /\ uthread' = [uthread EXCEPT !["resync"].pc = pc]
        /\ urunning => pc = "get"
        /\ UNCHANGED <<uvenue, ucount, uup, ustream, uwire, uconnected, uwant, urunning, ubbo>>
        /\ pc \in {"get", "off"}
    BY <1>2 DEF Upbit!Resync, UpbitPlace
  <2> HIDE DEF pc
  <2>2. /\ uthread' \in [Upbit!Threads -> UpbitThread]
        /\ uthread'["resync"].pc = pc
        /\ \A u \in Upbit!Threads : u # "resync" => uthread'[u] = uthread[u]
    BY <2>1, UpbitGoes DEF UpbitInv, Upbit!Threads
  <2>3. UpbitType'
    BY <2>1, <2>2 DEF UpbitInv, UpbitType
  <2>4. UpbitPlaces' /\ UpbitStrand' /\ UpbitUntouched' /\ UpbitResync' /\ UpbitZeroed'
    BY <2>1, <2>2
    DEF UpbitInv, UpbitPlaces, UpbitStrand, UpbitUntouched, UpbitResync, UpbitZeroed,
        Upbit!ZeroedWhileDown, Upbit!Threads
  <2> QED
    BY <2>3, <2>4 DEF UpbitInv
<1> QED
  BY <1>1, <1>2

LEMMA UpbitLost == ASSUME UpbitInv, Upbit!Drop PROVE UpbitInv'
<1>1. /\ uup /\ uthread["io"].pc = "off" /\ uup' = FALSE /\ uwire' = <<>>
      /\ ustream' = [tickers |-> FALSE, depth |-> FALSE]
      /\ UNCHANGED <<uvenue, uwant, ubbo>>
      /\ \/ /\ uconnected' = FALSE /\ urunning' = FALSE
            /\ uthread' = [uthread EXCEPT !["io"].pc = "join"]
         \/ UNCHANGED <<uconnected, urunning, uthread>>
  BY DEF Upbit!Drop
<1>2. uconnected
  BY <1>1 DEF UpbitInv, UpbitStrand
<1>3. ucount' \in [ticks : Nat, faults : Nat]
  BY DEF Upbit!Drop, UpbitInv, UpbitType
<1>4. uwire' \in Seq(UpbitMessage) /\ uwire' \in Seq([type : {"ticker"}])
      /\ ustream' \in [tickers : BOOLEAN, depth : BOOLEAN] /\ ~ustream'.depth
  BY <1>1, EmptySeq
<1>5. CASE UNCHANGED <<uconnected, urunning, uthread>>
  <2>1. UpbitType'
    BY <1>1, <1>3, <1>4, <1>5 DEF UpbitInv, UpbitType
  <2> QED
    BY <1>1, <1>2, <1>4, <1>5, <2>1
    DEF UpbitInv, UpbitPlaces, UpbitStrand, UpbitUntouched, UpbitResync, UpbitZeroed,
        Upbit!ZeroedWhileDown
<1>6. CASE /\ uconnected' = FALSE /\ urunning' = FALSE
           /\ uthread' = [uthread EXCEPT !["io"].pc = "join"]
  <2>1. /\ uthread' \in [Upbit!Threads -> UpbitThread]
        /\ uthread'["io"].pc = "join"
        /\ \A u \in Upbit!Threads : u # "io" => uthread'[u] = uthread[u]
    BY <1>6, UpbitGoes DEF UpbitInv, Upbit!Threads, UpbitPlace
  <2>2. UpbitType'
    BY <1>1, <1>3, <1>4, <1>6, <2>1 DEF UpbitInv, UpbitType
  <2> QED
    BY <1>1, <1>2, <1>4, <1>6, <2>1, <2>2
    DEF UpbitInv, UpbitPlaces, UpbitStrand, UpbitUntouched, UpbitResync, UpbitZeroed,
        Upbit!ZeroedWhileDown, Upbit!Threads
<1> QED
  BY <1>1, <1>5, <1>6

\* the rest of on_ws_disconnected, and a new session
LEMMA UpbitCallbacks ==
  ASSUME UpbitInv, Upbit!ZeroPrices \/ Upbit!Reconnect \/ Upbit!on_ws_connected
  PROVE  UpbitInv'
<1>1. CASE Upbit!ZeroPrices
  <2>1. /\ uthread["io"].pc = "join" /\ uthread["resync"].pc = "off"
        /\ uthread' = [uthread EXCEPT !["io"].pc = "off"] /\ "off" \in UpbitPlace
        /\ UNCHANGED <<uvenue, ucount, uup, ustream, uwire, uconnected, uwant, urunning>>
    BY <1>1 DEF Upbit!ZeroPrices, Upbit!Joined, UpbitPlace
  <2>2. /\ ubbo' \in [known : BOOLEAN, bid : Nat, ask : Nat]
        /\ ubbo'.bid = 0 /\ ubbo'.ask = 0
    BY <1>1 DEF Upbit!ZeroPrices, UpbitInv, UpbitType
  <2>3. /\ uthread' \in [Upbit!Threads -> UpbitThread]
        /\ uthread'["io"].pc = "off"
        /\ \A u \in Upbit!Threads : u # "io" => uthread'[u] = uthread[u]
    BY <2>1, UpbitGoes DEF UpbitInv, Upbit!Threads
  <2>4. UpbitType'
    BY <2>1, <2>2, <2>3 DEF UpbitInv, UpbitType
  <2>5. UpbitPlaces' /\ UpbitStrand' /\ UpbitUntouched' /\ UpbitResync' /\ UpbitZeroed'
    BY <2>1, <2>2, <2>3
    DEF UpbitInv, UpbitPlaces, UpbitStrand, UpbitUntouched, UpbitResync, UpbitZeroed,
        Upbit!ZeroedWhileDown, Upbit!Threads
  <2> QED
    BY <2>4, <2>5 DEF UpbitInv
<1>2. CASE Upbit!Reconnect
  <2>1. /\ uthread["io"].pc = "off" /\ uup' = TRUE
        /\ uthread' = [uthread EXCEPT !["io"].pc = "opened"] /\ "opened" \in UpbitPlace
        /\ UNCHANGED <<uvenue, ucount, ustream, uwire, uconnected, uwant, urunning, ubbo>>
    BY <1>2 DEF Upbit!Reconnect, UpbitPlace
  <2>2. /\ uthread' \in [Upbit!Threads -> UpbitThread]
        /\ uthread'["io"].pc = "opened"
        /\ \A u \in Upbit!Threads : u # "io" => uthread'[u] = uthread[u]
    BY <2>1, UpbitGoes DEF UpbitInv, Upbit!Threads
  <2>3. UpbitType'
    BY <2>1, <2>2 DEF UpbitInv, UpbitType
  <2>4. UpbitPlaces' /\ UpbitStrand' /\ UpbitUntouched' /\ UpbitResync' /\ UpbitZeroed'
    BY <2>1, <2>2
    DEF UpbitInv, UpbitPlaces, UpbitStrand, UpbitUntouched, UpbitResync, UpbitZeroed,
        Upbit!ZeroedWhileDown, Upbit!Threads
  <2> QED
    BY <2>3, <2>4 DEF UpbitInv
<1>3. CASE Upbit!on_ws_connected
  <2> DEFINE pc == IF uwant.depth THEN "subscribe" ELSE "off"
  <2>1. /\ uthread["io"].pc = "opened" /\ uconnected' = TRUE
        /\ UNCHANGED <<uvenue, ucount, uup, uwire, uwant, urunning, ubbo>>
        /\ uthread' = [uthread EXCEPT !["io"].pc = pc] /\ pc \in UpbitPlace
        /\ (pc = "subscribe" /\ uwant.depth) \/ pc = "off"
    BY <1>3 DEF Upbit!on_ws_connected, UpbitPlace
  <2>2. ustream' \in [tickers : BOOLEAN, depth : BOOLEAN] /\ ustream'.depth = ustream.depth
    BY <1>3 DEF Upbit!on_ws_connected, UpbitInv, UpbitType
  <2> HIDE DEF pc
  <2>3. /\ uthread' \in [Upbit!Threads -> UpbitThread]
        /\ uthread'["io"].pc = pc
        /\ \A u \in Upbit!Threads : u # "io" => uthread'[u] = uthread[u]
    BY <2>1, UpbitGoes DEF UpbitInv, Upbit!Threads
  <2>4. UpbitType'
    BY <2>1, <2>2, <2>3 DEF UpbitInv, UpbitType
  <2>5. uup
    BY <2>1 DEF UpbitInv, UpbitStrand
  <2>6. UpbitPlaces' /\ UpbitStrand' /\ UpbitUntouched' /\ UpbitResync' /\ UpbitZeroed'
    BY <2>1, <2>2, <2>3, <2>5
    DEF UpbitInv, UpbitPlaces, UpbitStrand, UpbitUntouched, UpbitResync, UpbitZeroed,
        Upbit!ZeroedWhileDown, Upbit!Threads
  <2> QED
    BY <2>4, <2>6 DEF UpbitInv
<1> QED
  BY <1>1, <1>2, <1>3

LEMMA UpbitStep == UpbitInv /\ [MarketNext]_allvars => UpbitInv'
<1> SUFFICES ASSUME UpbitInv, [MarketNext]_allvars PROVE UpbitInv'
  OBVIOUS
<1>1. CASE UNCHANGED uvars
  BY <1>1
  DEF uvars, UpbitInv, UpbitType, UpbitPlaces, UpbitStrand, UpbitUntouched, UpbitResync,
      UpbitZeroed, Upbit!ZeroedWhileDown
<1>2. CASE Upbit!Next
  <2>1. ASSUME NEW t \in Upbit!Threads, Upbit!Runs(t) PROVE UpbitInv'
    BY <2>1, UpbitStore, UpbitGet, UpbitSubscribe, UpbitStartLoop DEF Upbit!Runs
  <2> QED
    BY <1>2, <2>1, UpbitVenue, UpbitMessages, UpbitTurn, UpbitLost, UpbitCallbacks
    DEF Upbit!Next, Upbit!StrandRuns, Upbit!Threads
<1> QED
  BY <1>1, <1>2 DEF MarketNext, InBithumb, InUpbit, InForeign, allvars

\* Whatever quotes, sessions and failures there are, Upbit's best prices are
\* zero between two sessions: the strand has joined the resync thread before it
\* zeroes them, and nobody else stores a price until the next session
\* (on_ws_disconnected, stop_orderbook_resync_loop).
THEOREM PricesZeroedWhileDown == MarketSpec => []UpbitZeroed
<1>1. UpbitInv => UpbitZeroed
  BY DEF UpbitInv
<1> QED
  BY <1>1, UpbitStart, UpbitStep, PTL DEF MarketSpec

-----------------------------------------------------------------------------
(* Proofs for Bithumb.                                                     *)

LEMMA GapType == Gap \in Nat /\ MaxMoves \in Nat /\ Gap = MaxMoves + 1
  BY BoundsAssumption DEF Gap

LEMMA FetchAt ==
  ASSUME NEW pc
  PROVE  Fetching(At(pc)) /\ At(pc).since = Gap
<1>1. At(pc) = [pc |-> pc, levels |-> Empty, since |-> Gap, bid |-> 0]
  BY DEF At
<1>2. Empty \in [Sides -> SUBSET Prices] /\ Gap \in 0..Gap
  BY GapType DEF Empty
<1> QED
  BY <1>1, <1>2 DEF Fetching

LEMMA FetchGoto ==
  ASSUME NEW f, Fetching(f), NEW pc
  PROVE  /\ Fetching([f EXCEPT !.pc = pc])
         /\ [f EXCEPT !.pc = pc].since = f.since
         /\ [f EXCEPT !.pc = pc].levels = f.levels
<1> DEFINE g == [pc |-> pc, levels |-> f.levels, since |-> f.since, bid |-> f.bid]
<1>1. [f EXCEPT !.pc = pc] = g
  BY DEF Fetching
<1>2. Fetching(g) /\ g.since = f.since /\ g.levels = f.levels
  BY DEF Fetching
<1> QED
  BY <1>1, <1>2

LEMMA FetchSet ==
  ASSUME NEW f, Fetching(f), NEW pc, NEW bid
  PROVE  [[f EXCEPT !.pc = pc] EXCEPT !.bid = bid]
           = [pc |-> pc, levels |-> f.levels, since |-> f.since, bid |-> bid]
<1> DEFINE g == [pc |-> pc, levels |-> f.levels, since |-> f.since, bid |-> f.bid]
<1>1. [f EXCEPT !.pc = pc] = g
  BY DEF Fetching
<1>2. [g EXCEPT !.bid = bid]
        = [pc |-> pc, levels |-> f.levels, since |-> f.since, bid |-> bid]
  OBVIOUS
<1> HIDE DEF g
<1> QED
  BY <1>1, <1>2, Zenon

\* what a step of one fetching thread leaves alone
FetchType ==
  fetch = [t \in Threads |-> fetch[t]] /\ \A t \in Threads : Fetching(fetch[t])

LEMMA FetchMove ==
  ASSUME FetchType, NEW t \in Threads, NEW r, Fetching(r),
         fetch' = [fetch EXCEPT ![t] = r]
  PROVE  /\ FetchType' /\ fetch'[t] = r
         /\ \A u \in Threads : u # t => fetch'[u] = fetch[u]
<1>1. fetch' = [u \in Threads |-> IF u = t THEN r ELSE fetch[u]]
  BY DEF FetchType
<1>2. fetch'[t] = r /\ \A u \in Threads : u # t => fetch'[u] = fetch[u]
  BY <1>1
<1>3. fetch' = [u \in Threads |-> fetch'[u]]
  BY <1>1
<1>4. \A u \in Threads : Fetching(fetch'[u])
  BY <1>2 DEF FetchType
<1> QED
  BY <1>2, <1>3, <1>4 DEF FetchType, Fetching

LEMMA FetchGoes ==
  ASSUME FetchType, NEW t \in Threads, NEW pc, fetch' = [fetch EXCEPT ![t].pc = pc]
  PROVE  /\ FetchType'
         /\ \A u \in Threads : /\ fetch'[u].since = fetch[u].since
                               /\ fetch'[u].levels = fetch[u].levels
<1> DEFINE r == [fetch[t] EXCEPT !.pc = pc]
<1>1. Fetching(r) /\ r.since = fetch[t].since /\ r.levels = fetch[t].levels
  BY FetchGoto DEF FetchType
<1>2. fetch' = [fetch EXCEPT ![t] = r]
  OBVIOUS
<1> HIDE DEF r
<1>3. /\ FetchType' /\ fetch'[t] = r
      /\ \A u \in Threads : u # t => fetch'[u] = fetch[u]
  BY <1>1, <1>2, FetchMove
<1> QED
  BY <1>1, <1>3, Zenon

\* a step that neither moves the venue, nor touches the messages on the way,
\* the book or a snapshot that it keeps
LEMMA BithumbKeeps ==
  ASSUME BithumbInv, BithumbType', UNCHANGED <<venue, wire, handled>>,
         count'.moves = count.moves, stream.depth => stream'.depth,
         exact' => exact /\ book' = book /\ reach' = reach,
         \A t \in Threads :
           \/ fetch'[t].since = Gap
           \/ fetch'[t].since = fetch[t].since /\ fetch'[t].levels = fetch[t].levels
  PROVE  BithumbInv'
<1>1. InOrder' /\ LastIsTrue' /\ BookIsTrue'
  BY DEF BithumbInv, InOrder, LastIsTrue, BookIsTrue, IsDelta, About
<1>2. SnapshotIsTrue'
  BY DEF BithumbInv, SnapshotIsTrue, IsDelta, About
<1> QED
  BY <1>1, <1>2 DEF BithumbInv

LEMMA BithumbStart == MarketInit => BithumbInv
<1> SUFFICES ASSUME MarketInit PROVE BithumbInv
  OBVIOUS
<1>1. /\ venue = Opening
      /\ count = [moves |-> 0, ticks |-> 0, drops |-> 0, failures |-> 0]
      /\ stream = [tickers |-> FALSE, depth |-> FALSE] /\ wire = <<>>
      /\ want = [tickers |-> FALSE, depth |-> FALSE]
      /\ book = [levels |-> Empty, initialized |-> FALSE]
      /\ fetch = [t \in Threads |-> At(IF t = Main THEN "tickers" ELSE "off")]
      /\ handled = 0 /\ exact = FALSE /\ reach = Empty
  BY DEF MarketInit, Init
<1>2. venue \in [Sides -> SUBSET Prices] /\ Empty \in [Sides -> SUBSET Prices]
  BY <1>1, BoundsAssumption DEF Sides, Empty
<1>3. /\ \A t \in Threads : Fetching(fetch[t]) /\ fetch[t].since = Gap
      /\ fetch = [t \in Threads |-> fetch[t]]
  BY <1>1, FetchAt
<1>4. BithumbType
  <2>1. /\ count \in [moves : 0..MaxMoves, ticks : Nat, drops : Nat, failures : Nat]
        /\ count.drops + count.failures <= MaxFaults
    BY <1>1, BoundsAssumption
  <2>2. /\ book \in [levels : [Sides -> SUBSET Prices], initialized : BOOLEAN]
        /\ stream \in [tickers : BOOLEAN, depth : BOOLEAN]
        /\ want \in [tickers : BOOLEAN, depth : BOOLEAN]
    BY <1>1, <1>2
  <2>3. /\ wire \in Seq(Message) /\ handled \in Nat /\ exact \in BOOLEAN
        /\ reach \in [Sides -> SUBSET Prices]
    BY <1>1, <1>2, EmptySeq
  <2> QED
    BY <1>2, <1>3, <2>1, <2>2, <2>3 DEF BithumbType
<1>5. Len(wire) = 0 /\ 1..Len(wire) = {}
  BY <1>1
<1>6. handled <= count.moves /\ ~exact
  BY <1>1
<1> QED
  BY <1>3, <1>4, <1>5, <1>6
  DEF BithumbInv, InOrder, LastIsTrue, SnapshotIsTrue, BookIsTrue

LEMMA ThreadsOf ==
  /\ Main \in Threads /\ ResyncThread \in Threads
  /\ \A d \in 0..MaxFaults : d \in Threads
  BY BoundsAssumption DEF Main, ResyncThread, Threads, Detached

\* the steps that leave the venue, the messages and the book alone
BithumbOthers ==
  \/ Reconnect \/ on_ws_connected \/ Resubscribe \/ StrandStep
  \/ subscribe_ticker \/ Resync
  \/ \E t \in Threads : Publish(t) \/ GiveUp(t) \/ subscribe_orderbook(t)

LEMMA BithumbRest == ASSUME BithumbInv, BithumbOthers PROVE BithumbInv'
<1>t. BithumbType /\ FetchType
  BY DEF BithumbInv, BithumbType, FetchType
<1>1. CASE Reconnect \/ StrandStep
  <2>1. UNCHANGED <<venue, count, stream, want, wire, book, fetch, handled, exact, reach>>
    BY <1>1 DEF Reconnect, StrandStep
  <2>2. BithumbType'
    BY <1>t, <2>1 DEF BithumbType, Fetching
  <2> QED
    BY <2>1, <2>2, BithumbKeeps
<1>2. CASE on_ws_connected
  <2>1. /\ UNCHANGED <<venue, count, stream, want, wire, fetch, handled>>
        /\ exact' = FALSE /\ book' = [levels |-> Empty, initialized |-> FALSE]
        /\ reach' = Empty
    BY <1>2 DEF on_ws_connected, Invalidated
  <2>2. /\ book' \in [levels : [Sides -> SUBSET Prices], initialized : BOOLEAN]
        /\ reach' \in [Sides -> SUBSET Prices]
    BY <2>1 DEF Empty
  <2>3. BithumbType'
    BY <1>t, <2>1, <2>2 DEF BithumbType, Fetching
  <2> QED
    BY <2>1, <2>3, BithumbKeeps
<1>3. CASE Resubscribe
  <2>1. /\ UNCHANGED <<venue, count, want, wire, book, handled, exact, reach>>
        /\ stream' = [stream EXCEPT !.tickers = want.tickers]
        /\ \/ UNCHANGED fetch
           \/ fetch' = [fetch EXCEPT ![count.drops].pc = "get"]
    BY <1>3 DEF Resubscribe
  <2>2. stream' \in [tickers : BOOLEAN, depth : BOOLEAN] /\ stream'.depth = stream.depth
    BY <1>t, <2>1 DEF BithumbType
  <2>3. count.drops \in Threads
    BY <1>t, ThreadsOf, BoundsAssumption DEF BithumbType
  <2>4. FetchType' /\ \A u \in Threads : /\ fetch'[u].since = fetch[u].since
                                         /\ fetch'[u].levels = fetch[u].levels
    <3>1. CASE UNCHANGED fetch
      BY <1>t, <3>1 DEF FetchType, Fetching
    <3> QED
      BY <1>t, <2>1, <2>3, <3>1, FetchGoes
  <2>5. BithumbType'
    BY <1>t, <2>1, <2>2, <2>4 DEF BithumbType, FetchType
  <2> QED
    BY <2>1, <2>2, <2>4, <2>5, BithumbKeeps
<1>4. CASE subscribe_ticker \/ Resync
  <2>1. /\ UNCHANGED <<venue, count, wire, book, handled, exact, reach>>
        /\ \E t \in Threads : fetch' = [fetch EXCEPT ![t].pc = "get"]
    BY <1>4, ThreadsOf DEF subscribe_ticker, Resync
  <2>2. /\ stream' \in [tickers : BOOLEAN, depth : BOOLEAN] /\ stream'.depth = stream.depth
        /\ want' \in [tickers : BOOLEAN, depth : BOOLEAN]
    <3>1. CASE subscribe_ticker
      <4>1. /\ stream' = [stream EXCEPT !.tickers = @ \/ up]
            /\ want' = [want EXCEPT !.tickers = TRUE]
        BY <3>1 DEF subscribe_ticker
      <4> QED
        BY <1>t, <4>1 DEF BithumbType
    <3>2. CASE Resync
      BY <1>t, <3>2 DEF Resync, BithumbType
    <3> QED
      BY <1>4, <3>1, <3>2
  <2>3. FetchType' /\ \A u \in Threads : /\ fetch'[u].since = fetch[u].since
                                         /\ fetch'[u].levels = fetch[u].levels
    BY <1>t, <2>1, FetchGoes
  <2>4. BithumbType'
    BY <1>t, <2>1, <2>2, <2>3 DEF BithumbType, FetchType
  <2> QED
    BY <2>1, <2>2, <2>3, <2>4, BithumbKeeps
<1>5. ASSUME NEW t \in Threads, GiveUp(t) \/ subscribe_orderbook(t) PROVE BithumbInv'
  <2>1. UNCHANGED <<venue, count, wire, book, handled, exact, reach>>
    BY <1>5 DEF GiveUp, subscribe_orderbook
  <2>2. /\ stream' \in [tickers : BOOLEAN, depth : BOOLEAN]
        /\ want' \in [tickers : BOOLEAN, depth : BOOLEAN]
        /\ stream.depth => stream'.depth
    <3>1. /\ stream' = stream \/ stream' = [stream EXCEPT !.depth = TRUE]
          /\ want' = want \/ want' = [want EXCEPT !.depth = TRUE]
      BY <1>5 DEF GiveUp, subscribe_orderbook
    <3> QED
      BY <1>t, <3>1 DEF BithumbType
  <2>3. FetchType' /\ \A u \in Threads : /\ fetch'[u].since = fetch[u].since
                                         /\ fetch'[u].levels = fetch[u].levels
    <3> DEFINE pc == Started(fetch[ResyncThread].pc)
    <3>1. \/ fetch' = [fetch EXCEPT ![t].pc = "off"]
          \/ fetch' = [fetch EXCEPT ![t].pc = "off", ![ResyncThread].pc = pc]
      BY <1>5 DEF GiveUp, subscribe_orderbook
    <3> HIDE DEF pc
    <3>2. CASE fetch' = [fetch EXCEPT ![t].pc = "off"]
      BY <1>t, <3>2, FetchGoes
    <3>3. CASE fetch' = [fetch EXCEPT ![t].pc = "off", ![ResyncThread].pc = pc]
      <4> DEFINE g == [fetch EXCEPT ![t].pc = "off"]
                 q == [g[ResyncThread] EXCEPT !.pc = pc]
                 r == [fetch[t] EXCEPT !.pc = "off"]
      <4>1. fetch' = [g EXCEPT ![ResyncThread] = q]
        BY <3>3, Zenon
      <4>2. g = [u \in Threads |-> IF u = t THEN r ELSE fetch[u]]
        BY <1>t DEF FetchType
      <4>3. Fetching(r) /\ r.since = fetch[t].since /\ r.levels = fetch[t].levels
        BY <1>t, FetchGoto DEF FetchType
      <4> HIDE DEF r, g
      <4>4. \A u \in Threads : /\ Fetching(g[u]) /\ g[u].since = fetch[u].since
                               /\ g[u].levels = fetch[u].levels
        BY <1>t, <4>2, <4>3 DEF FetchType
      <4>5. Fetching(q) /\ q.since = g[ResyncThread].since
            /\ q.levels = g[ResyncThread].levels
        BY <4>4, FetchGoto, ThreadsOf
      <4> HIDE DEF q
      <4>6. fetch' = [u \in Threads |-> IF u = ResyncThread THEN q ELSE g[u]]
        BY <4>1, <4>2
      <4>7. fetch' = [u \in Threads |-> fetch'[u]]
        BY <4>6
      <4>8. \A u \in Threads : /\ Fetching(fetch'[u]) /\ fetch'[u].since = fetch[u].since
                               /\ fetch'[u].levels = fetch[u].levels
        BY <4>4, <4>5, <4>6, ThreadsOf
      <4> QED
        BY <4>7, <4>8 DEF FetchType, Fetching
    <3> QED
      BY <3>1, <3>2, <3>3
  <2>4. BithumbType'
    BY <1>t, <2>1, <2>2, <2>3 DEF BithumbType, FetchType
  <2> QED
    BY <2>1, <2>2, <2>3, <2>4, BithumbKeeps
<1>6. ASSUME NEW t \in Threads, Publish(t) PROVE BithumbInv'
  <2>1. UNCHANGED <<venue, count, stream, want, wire, book, handled, exact, reach>>
    BY <1>6 DEF Publish
  <2>2. FetchType' /\ \A u \in Threads :
                        \/ fetch'[u].since = Gap
                        \/ /\ fetch'[u].since = fetch[u].since
                           /\ fetch'[u].levels = fetch[u].levels
    <3>1. \/ fetch' = [fetch EXCEPT ![t].pc = "bid"]
          \/ fetch' = [fetch EXCEPT ![t].pc = "ask", ![t].bid = bbo.bid]
          \/ fetch' = [fetch EXCEPT ![t] = At(Done(t))]
      BY <1>6 DEF Publish
    <3>2. CASE fetch' = [fetch EXCEPT ![t].pc = "bid"]
      BY <1>t, <3>2, FetchGoes
    <3>3. CASE fetch' = [fetch EXCEPT ![t].pc = "ask", ![t].bid = bbo.bid]
      <4> DEFINE r == [pc |-> "ask", levels |-> fetch[t].levels,
                       since |-> fetch[t].since, bid |-> bbo.bid]
      <4>1. Fetching(fetch[t])
        BY <1>t DEF FetchType
      <4>2. Fetching(r) /\ r.since = fetch[t].since /\ r.levels = fetch[t].levels
        BY <4>1 DEF Fetching
      <4>3. [[fetch[t] EXCEPT !.pc = "ask"] EXCEPT !.bid = bbo.bid] = r
        BY <4>1, FetchSet
      <4>4. fetch' = [fetch EXCEPT ![t] = r]
        BY <1>t, <3>3, <4>3 DEF FetchType
      <4> HIDE DEF r
      <4> QED
        BY <1>t, <4>2, <4>4, FetchMove
    <3>4. CASE fetch' = [fetch EXCEPT ![t] = At(Done(t))]
      BY <1>t, <3>4, FetchMove, FetchAt
    <3> QED
      BY <3>1, <3>2, <3>3, <3>4
  <2>3. BithumbType'
    BY <1>t, <2>1, <2>2 DEF BithumbType, FetchType
  <2> QED
    BY <2>1, <2>2, <2>3, BithumbKeeps
<1> QED
  BY <1>1, <1>2, <1>3, <1>4, <1>5, <1>6 DEF BithumbOthers

LEMMA LevelIs ==
  ASSUME NEW b \in [Sides -> SUBSET Prices], NEW side \in Sides, NEW price \in Prices,
         NEW present \in BOOLEAN
  PROVE  /\ Level(b, side, price, present) \in [Sides -> SUBSET Prices]
         /\ price \in Level(b, side, price, present)[side] <=> present
         /\ \A s \in Sides, p \in Prices : s # side \/ p # price =>
              (p \in Level(b, side, price, present)[s] <=> p \in b[s])
<1>1. CASE present
  <2>1. Level(b, side, price, present) = [b EXCEPT ![side] = b[side] \cup {price}]
    BY <1>1 DEF Level
  <2> QED
    BY <1>1, <2>1
<1>2. CASE ~present
  <2>1. Level(b, side, price, present) = [b EXCEPT ![side] = b[side] \ {price}]
    BY <1>2 DEF Level
  <2> QED
    BY <1>2, <2>1
<1> QED
  BY <1>1, <1>2

LEMMA WireAppend ==
  ASSUME wire \in Seq(Message), NEW m \in Message, wire' = Append(wire, m)
  PROVE  /\ wire' \in Seq(Message) /\ Len(wire) \in Nat
         /\ Len(wire') = Len(wire) + 1 /\ wire'[Len(wire) + 1] = m
         /\ \A i \in 1..Len(wire) : wire'[i] = wire[i]
  BY AppendProperties, LenProperties

LEMMA WireTail ==
  ASSUME wire \in Seq(Message), wire # <<>>, wire' = Tail(wire)
  PROVE  /\ wire' \in Seq(Message) /\ Len(wire) \in Nat \ {0}
         /\ Len(wire') = Len(wire) - 1 /\ wire[1] = Head(wire)
         /\ wire[1] \in Message
         /\ \A i \in 1..(Len(wire) - 1) : wire'[i] = wire[i + 1]
<1>1. Len(wire) \in Nat \ {0} /\ Head(wire) = wire[1] /\ Head(wire) \in Message
  BY HeadTailProperties, LenProperties, EmptySeq
<1> QED
  BY <1>1, HeadTailProperties

\* a ticker is no delta
LEMMA BithumbTicks == ASSUME BithumbInv, VenueTicks PROVE BithumbInv'
<1> DEFINE m == [type |-> "ticker"]
<1>1. /\ wire' = Append(wire, m) /\ m \in Message /\ m.type = "ticker"
      /\ count' = [count EXCEPT !.ticks = @ + 1]
      /\ UNCHANGED <<venue, stream, want, book, fetch, handled, exact, reach>>
  BY DEF VenueTicks, Message
<1> HIDE DEF m
<1>2. /\ wire' \in Seq(Message) /\ Len(wire) \in Nat
      /\ Len(wire') = Len(wire) + 1 /\ wire'[Len(wire) + 1] = m
      /\ \A i \in 1..Len(wire) : wire'[i] = wire[i]
  BY <1>1, WireAppend DEF BithumbInv, BithumbType
<1>3. /\ count' \in [moves : 0..MaxMoves, ticks : Nat, drops : Nat, failures : Nat]
      /\ count'.drops = count.drops /\ count'.failures = count.failures
      /\ count'.moves = count.moves
  <2>1. count \in [moves : 0..MaxMoves, ticks : Nat, drops : Nat, failures : Nat]
    BY DEF BithumbInv, BithumbType
  <2> QED
    BY <1>1, <2>1
<1>4. BithumbType'
  BY <1>1, <1>2, <1>3 DEF BithumbInv, BithumbType, Fetching
<1>5. \A i \in 1..Len(wire') :
        /\ IsDelta(i)' => i \in 1..Len(wire) /\ IsDelta(i)
        /\ i \in 1..Len(wire) => (IsDelta(i)' <=> IsDelta(i)) /\ wire'[i] = wire[i]
  BY <1>1, <1>2 DEF IsDelta
<1>6. \A i \in 1..Len(wire'), s \in Sides, p \in Prices :
        About(i, s, p)' => i \in 1..Len(wire) /\ About(i, s, p)
  BY <1>5 DEF About
<1>7. \A i \in 1..Len(wire), s \in Sides, p \in Prices :
        i \in 1..Len(wire') /\ (About(i, s, p) => About(i, s, p)')
  BY <1>2, <1>5 DEF About
<1>8. InOrder'
  BY <1>1, <1>2, <1>3, <1>5 DEF BithumbInv, InOrder
<1>9. LastIsTrue'
  BY <1>1, <1>2, <1>6, <1>7 DEF BithumbInv, LastIsTrue
<1>10. SnapshotIsTrue' /\ BookIsTrue'
  BY <1>1, <1>2, <1>3, <1>6, <1>7 DEF BithumbInv, SnapshotIsTrue, BookIsTrue
<1> QED
  BY <1>4, <1>8, <1>9, <1>10 DEF BithumbInv

LEMMA BithumbMoves == ASSUME BithumbInv, VenueMoves PROVE BithumbInv'
<1>1. PICK side \in Sides, price \in Prices, present \in BOOLEAN :
        /\ venue' = Level(venue, side, price, present)
        /\ count' = [count EXCEPT !.moves = @ + 1]
        /\ wire' = IF stream.depth
                   THEN Append(wire, [type |-> "depth", side |-> side, price |-> price,
                                      present |-> present, number |-> count'.moves])
                   ELSE wire
  BY DEF VenueMoves
<1>2. /\ count.moves < MaxMoves
      /\ UNCHANGED <<stream, want, book, fetch, handled, exact, reach>>
  BY DEF VenueMoves
<1>3. /\ count' \in [moves : 0..MaxMoves, ticks : Nat, drops : Nat, failures : Nat]
      /\ count'.drops = count.drops /\ count'.failures = count.failures
      /\ count'.moves = count.moves + 1 /\ count.moves \in Nat
  <2>1. count \in [moves : 0..MaxMoves, ticks : Nat, drops : Nat, failures : Nat]
    BY DEF BithumbInv, BithumbType
  <2> QED
    BY <1>1, <1>2, <2>1, GapType
<1>4. venue \in [Sides -> SUBSET Prices]
  BY DEF BithumbInv, BithumbType
<1>5. /\ venue' \in [Sides -> SUBSET Prices]
      /\ price \in venue'[side] <=> present
      /\ \A s \in Sides, p \in Prices : s # side \/ p # price =>
           (p \in venue'[s] <=> p \in venue[s])
  BY <1>1, <1>4, LevelIs
<1>6. CASE ~stream.depth
  <2>1. UNCHANGED wire
    BY <1>1, <1>6
  <2>2. BithumbType'
    BY <1>2, <1>3, <1>5, <2>1 DEF BithumbInv, BithumbType, Fetching
  <2>3. \A i \in 1..Len(wire) : ~IsDelta(i) /\ ~IsDelta(i)'
    BY <1>6, <2>1 DEF BithumbInv, InOrder, IsDelta
  <2>4. handled \in Nat /\ handled <= count'.moves
    BY <1>3 DEF BithumbInv, BithumbType, InOrder
  <2>5. InOrder' /\ LastIsTrue'
    BY <1>2, <2>1, <2>3, <2>4 DEF InOrder, LastIsTrue, About
  <2>6. SnapshotIsTrue' /\ BookIsTrue'
    BY <1>2, <1>6 DEF BithumbInv, SnapshotIsTrue, BookIsTrue
  <2> QED
    BY <2>2, <2>5, <2>6 DEF BithumbInv
<1>7. CASE stream.depth
  <2> DEFINE m == [type |-> "depth", side |-> side, price |-> price,
                   present |-> present, number |-> count'.moves]
  <2>1. wire' = Append(wire, m) /\ m \in Message
    BY <1>1, <1>3, <1>7 DEF Message, Delta
  <2>2. /\ m.type = "depth" /\ m.side = side /\ m.price = price /\ m.present = present
        /\ m.number = count.moves + 1
    BY <1>3
  <2> HIDE DEF m
  <2>0. PICK n : n = Len(wire) + 1
    OBVIOUS
  <2>3. /\ wire' \in Seq(Message) /\ Len(wire) \in Nat
        /\ Len(wire') = n /\ wire'[n] = m
        /\ \A i \in 1..Len(wire) : wire'[i] = wire[i]
    BY <2>0, <2>1, WireAppend DEF BithumbInv, BithumbType
  <2>4. BithumbType'
    BY <1>2, <1>3, <1>5, <2>3 DEF BithumbInv, BithumbType, Fetching
  <2>5. /\ n \in 1..Len(wire') /\ n \notin 1..Len(wire)
        /\ \A i \in 1..Len(wire') : i = n \/ i \in 1..Len(wire)
        /\ \A i \in 1..Len(wire) : i < n /\ i \in 1..Len(wire')
    BY <2>0, <2>3
  <2>6. /\ About(n, side, price)' /\ IsDelta(n)'
        /\ \A i \in 1..Len(wire) : (IsDelta(i)' <=> IsDelta(i)) /\ wire'[i] = wire[i]
        /\ \A s \in Sides, p \in Prices : About(n, s, p)' => s = side /\ p = price
        /\ \A i \in 1..Len(wire), s \in Sides, p \in Prices :
             About(i, s, p)' <=> About(i, s, p)
    BY <2>2, <2>3, <2>5 DEF About, IsDelta
  <2>7. handled \in Nat /\ handled <= count.moves
    BY DEF BithumbInv, BithumbType, InOrder
  <2>8. InOrder'
    <3>1. ASSUME NEW i \in 1..Len(wire'), IsDelta(i)'
          PROVE  wire'[i].number \in (handled' + 1)..count'.moves
      <4>1. CASE i = n
        BY <1>2, <1>3, <2>2, <2>3, <2>7, <4>1
      <4>2. CASE i \in 1..Len(wire)
        <5>1. wire[i].number \in (handled + 1)..count.moves
          BY <3>1, <4>2, <2>6 DEF BithumbInv, InOrder
        <5>2. wire'[i] = wire[i] /\ handled' = handled
          BY <1>2, <2>3, <4>2
        <5>3. wire[i].number \in (handled + 1)..(count.moves + 1)
          BY <1>3, <2>7, <5>1
        <5> QED
          BY <1>3, <5>2, <5>3
      <4> QED
        BY <2>5, <4>1, <4>2
    <3>2. ASSUME NEW i \in 1..Len(wire'), NEW j \in 1..Len(wire'),
                 IsDelta(i)', IsDelta(j)', i < j
          PROVE  wire'[i].number < wire'[j].number
      <4>1. i \in 1..Len(wire) /\ IsDelta(i)
        BY <2>3, <2>5, <2>6, <3>2
      <4>2. wire[i].number \in (handled + 1)..count.moves /\ wire'[i] = wire[i]
        BY <4>1, <2>6 DEF BithumbInv, InOrder
      <4>3. CASE j = n
        BY <1>3, <2>2, <2>3, <2>7, <4>2, <4>3
      <4>4. CASE j \in 1..Len(wire)
        BY <2>6, <3>2, <4>1, <4>2, <4>4 DEF BithumbInv, InOrder
      <4> QED
        BY <2>5, <4>3, <4>4
    <3>3. handled' <= count'.moves
      BY <1>2, <1>3, <2>7
    <3> QED
      BY <1>2, <1>7, <3>1, <3>2, <3>3 DEF InOrder
  <2>9. LastIsTrue'
    <3> SUFFICES ASSUME NEW s \in Sides, NEW p \in Prices, NEW i \in 1..Len(wire'),
                        About(i, s, p)', \A j \in 1..Len(wire') : i < j => ~About(j, s, p)'
                 PROVE  wire'[i].present <=> p \in venue'[s]
      BY DEF LastIsTrue
    <3>1. CASE i = n
      BY <3>1, <1>5, <2>2, <2>3, <2>6
    <3>2. CASE i \in 1..Len(wire)
      <4>1. s # side \/ p # price
        BY <3>2, <2>5, <2>6
      <4>2. About(i, s, p) /\ \A j \in 1..Len(wire) : i < j => ~About(j, s, p)
        BY <3>2, <2>5, <2>6
      <4>3. wire[i].present <=> p \in venue[s]
        BY <3>2, <4>2 DEF BithumbInv, LastIsTrue
      <4> QED
        BY <3>2, <4>1, <4>3, <1>5, <2>6
    <3> QED
      BY <2>5, <3>1, <3>2
  <2>10. SnapshotIsTrue'
    <3> SUFFICES ASSUME NEW t \in Threads, fetch'[t].since # Gap
                 PROVE  /\ stream'.depth /\ fetch'[t].since <= count'.moves
                        /\ handled' <= fetch'[t].since =>
                             \A s \in Sides, p \in Prices :
                               (\A i \in 1..Len(wire') :
                                  About(i, s, p)' => wire'[i].number <= fetch'[t].since)
                                 => Right(p, fetch'[t].levels[s],
                                          Reach(s, fetch'[t].levels[s], Depth(t)), venue'[s])
      BY DEF SnapshotIsTrue
    <3>1. /\ fetch[t].since \in Nat /\ fetch[t].since <= count.moves
          /\ handled <= fetch[t].since =>
               \A s \in Sides, p \in Prices :
                 (\A i \in 1..Len(wire) : About(i, s, p) => wire[i].number <= fetch[t].since)
                   => Right(p, fetch[t].levels[s],
                            Reach(s, fetch[t].levels[s], Depth(t)), venue[s])
      BY <1>2, GapType DEF BithumbInv, SnapshotIsTrue, BithumbType, Fetching
    <3>2. ASSUME NEW s \in Sides, NEW p \in Prices, handled <= fetch[t].since,
                 \A i \in 1..Len(wire') :
                   About(i, s, p)' => wire'[i].number <= fetch[t].since
          PROVE  Right(p, fetch[t].levels[s],
                       Reach(s, fetch[t].levels[s], Depth(t)), venue'[s])
      <4>1. s # side \/ p # price
        <5> SUFFICES ASSUME s = side, p = price PROVE FALSE
          OBVIOUS
        <5>1. wire'[n].number <= fetch[t].since
          BY <3>2, <2>5, <2>6
        <5> QED
          BY <5>1, <1>3, <2>2, <2>3, <3>1
      <4>2. \A i \in 1..Len(wire) : About(i, s, p) => wire[i].number <= fetch[t].since
        BY <2>5, <2>6, <3>2
      <4> QED
        BY <1>5, <3>1, <3>2, <4>1, <4>2 DEF Right
    <3> QED
      BY <1>2, <1>3, <1>7, <3>1, <3>2
  <2>11. BookIsTrue'
    <3> SUFFICES ASSUME exact'
                 PROVE  /\ stream'.depth /\ book'.initialized
                        /\ \A s \in Sides, p \in Prices :
                             (\A i \in 1..Len(wire') : ~About(i, s, p)')
                               => Right(p, book'.levels[s], reach'[s], venue'[s])
      BY DEF BookIsTrue
    <3>1. ASSUME NEW s \in Sides, NEW p \in Prices,
                 \A i \in 1..Len(wire') : ~About(i, s, p)'
          PROVE  Right(p, book.levels[s], reach[s], venue'[s])
      <4>1. s # side \/ p # price
        BY <3>1, <2>5, <2>6
      <4>2. \A i \in 1..Len(wire) : ~About(i, s, p)
        BY <3>1, <2>5, <2>6
      <4> QED
        BY <1>2, <1>5, <4>1, <4>2 DEF BithumbInv, BookIsTrue, Right
    <3> QED
      BY <1>2, <1>7, <3>1 DEF BithumbInv, BookIsTrue
  <2> QED
    BY <2>4, <2>8, <2>9, <2>10, <2>11 DEF BithumbInv
<1> QED
  BY <1>6, <1>7

\* a lost session takes everything on the way with it
LEMMA BithumbLost == ASSUME BithumbInv, Drop PROVE BithumbInv'
<1>1. /\ FaultLeft /\ count' = [count EXCEPT !.drops = @ + 1]
      /\ stream' = [tickers |-> FALSE, depth |-> FALSE] /\ wire' = <<>>
      /\ exact' = FALSE /\ reach' = Empty
      /\ fetch' = [t \in Threads |-> [fetch[t] EXCEPT !.since = Gap]]
      /\ UNCHANGED <<venue, want, book, handled>>
  BY DEF Drop
<1>2. /\ count' \in [moves : 0..MaxMoves, ticks : Nat, drops : Nat, failures : Nat]
      /\ count'.drops + count'.failures <= MaxFaults
      /\ count'.moves = count.moves
  <2>1. /\ count \in [moves : 0..MaxMoves, ticks : Nat, drops : Nat, failures : Nat]
        /\ count.drops + count.failures < MaxFaults
    BY <1>1 DEF BithumbInv, BithumbType, FaultLeft
  <2>2. /\ count' \in [moves : 0..MaxMoves, ticks : Nat, drops : Nat, failures : Nat]
        /\ count'.moves = count.moves /\ count'.failures = count.failures
        /\ count'.drops = count.drops + 1
    BY <1>1, <2>1
  <2>3. count.drops \in Nat /\ count.failures \in Nat /\ MaxFaults \in Nat
    BY <2>1, BoundsAssumption
  <2> QED
    BY <2>1, <2>2, <2>3
<1>3. /\ \A t \in Threads : Fetching(fetch'[t]) /\ fetch'[t].since = Gap
      /\ fetch' = [t \in Threads |-> fetch'[t]]
  <2>1. ASSUME NEW t \in Threads PROVE Fetching(fetch'[t]) /\ fetch'[t].since = Gap
    <3> DEFINE g == [pc |-> fetch[t].pc, levels |-> fetch[t].levels, since |-> Gap,
                     bid |-> fetch[t].bid]
    <3>1. Fetching(fetch[t])
      BY DEF BithumbInv, BithumbType
    <3>2. [fetch[t] EXCEPT !.since = Gap] = g
      BY <3>1 DEF Fetching
    <3>3. Fetching(g) /\ g.since = Gap
      BY <3>1, GapType DEF Fetching
    <3> QED
      BY <1>1, <3>2, <3>3
  <2>2. fetch' = [t \in Threads |-> fetch'[t]]
    BY <1>1
  <2> QED
    BY <2>1, <2>2
<1>4. wire' \in Seq(Message) /\ Len(wire') = 0 /\ 1..Len(wire') = {}
      /\ stream' \in [tickers : BOOLEAN, depth : BOOLEAN]
      /\ reach' \in [Sides -> SUBSET Prices]
  BY <1>1, EmptySeq DEF Empty
<1>5. BithumbType'
  BY <1>1, <1>2, <1>3, <1>4 DEF BithumbInv, BithumbType, Fetching
<1>6. InOrder' /\ LastIsTrue'
  BY <1>1, <1>2, <1>4 DEF BithumbInv, InOrder, LastIsTrue
<1>7. SnapshotIsTrue' /\ BookIsTrue'
  <2>1. Gap' = Gap /\ Threads' = Threads
    OBVIOUS
  <2> QED
    BY <1>1, <1>3, <2>1 DEF SnapshotIsTrue, BookIsTrue
<1> QED
  BY <1>5, <1>6, <1>7 DEF BithumbInv

\* a message is read: the others move up
LEMMA WireReads ==
  ASSUME BithumbInv, wire # <<>>, wire' = Tail(wire)
  PROVE  /\ wire' \in Seq(Message) /\ Len(wire) \in Nat \ {0}
         /\ Len(wire') = Len(wire) - 1 /\ wire[1] = Head(wire) /\ wire[1] \in Message
         /\ \A i \in 1..Len(wire') :
              /\ i + 1 \in 1..Len(wire) /\ wire'[i] = wire[i + 1]
              /\ IsDelta(i)' <=> IsDelta(i + 1)
              /\ \A s \in Sides, p \in Prices : About(i, s, p)' <=> About(i + 1, s, p)
         /\ \A i \in 1..Len(wire) : i = 1 \/ i - 1 \in 1..Len(wire')
<1>1. /\ wire' \in Seq(Message) /\ Len(wire) \in Nat \ {0}
      /\ Len(wire') = Len(wire) - 1 /\ wire[1] = Head(wire) /\ wire[1] \in Message
      /\ \A i \in 1..(Len(wire) - 1) : wire'[i] = wire[i + 1]
  BY WireTail DEF BithumbInv, BithumbType
<1>2. /\ \A i \in 1..Len(wire') : i + 1 \in 1..Len(wire) /\ wire'[i] = wire[i + 1]
      /\ \A i \in 1..Len(wire) : i = 1 \/ i - 1 \in 1..Len(wire')
  BY <1>1
<1>3. \A i \in 1..Len(wire') : IsDelta(i)' <=> IsDelta(i + 1)
  BY <1>2 DEF IsDelta
<1> QED
  BY <1>1, <1>2, <1>3 DEF About

\* what remains on the way is in order, and tells the truth
LEMMA ReadsInOrder ==
  ASSUME BithumbInv, wire # <<>>, wire' = Tail(wire), UNCHANGED <<venue, count, stream>>,
         handled' = IF IsDelta(1) THEN wire[1].number ELSE handled
  PROVE  InOrder' /\ LastIsTrue' /\ handled <= handled' /\ handled' \in Nat
<1>1. /\ Len(wire) \in Nat \ {0} /\ Len(wire') = Len(wire) - 1
      /\ \A i \in 1..Len(wire') :
           /\ i + 1 \in 1..Len(wire) /\ wire'[i] = wire[i + 1]
           /\ IsDelta(i)' <=> IsDelta(i + 1)
           /\ \A s \in Sides, p \in Prices : About(i, s, p)' <=> About(i + 1, s, p)
      /\ \A i \in 1..Len(wire) : i = 1 \/ i - 1 \in 1..Len(wire')
  BY WireReads
<1>2. /\ handled \in Nat /\ count.moves \in Nat /\ handled <= count.moves
      /\ 1 \in 1..Len(wire)
  BY <1>1 DEF BithumbInv, BithumbType, InOrder
<1>3. \A i \in 1..Len(wire) : IsDelta(i) =>
        /\ stream.depth /\ wire[i].number \in (handled + 1)..count.moves
        /\ \A j \in 1..Len(wire) : IsDelta(j) /\ i < j => wire[i].number < wire[j].number
  BY DEF BithumbInv, InOrder
<1>4. handled <= handled' /\ handled' \in Nat /\ handled' <= count.moves
  BY <1>2, <1>3
<1>5. ASSUME NEW i \in 1..Len(wire'), IsDelta(i)'
      PROVE  /\ stream.depth /\ wire'[i].number \in (handled' + 1)..count.moves
             /\ \A j \in 1..Len(wire') : IsDelta(j)' /\ i < j =>
                  wire'[i].number < wire'[j].number
  <2>1. /\ i + 1 \in 1..Len(wire) /\ IsDelta(i + 1) /\ wire'[i] = wire[i + 1]
        /\ i \in Nat /\ 1 < i + 1
    BY <1>1, <1>5
  <2>2. stream.depth /\ wire[i + 1].number \in (handled + 1)..count.moves
    BY <1>3, <2>1
  <2>3. IsDelta(1) => wire[1].number < wire[i + 1].number /\ wire[1].number \in Nat
    BY <1>2, <1>3, <2>1
  <2>4. wire'[i].number \in (handled' + 1)..count.moves
    BY <1>2, <2>1, <2>2, <2>3
  <2>5. ASSUME NEW j \in 1..Len(wire'), IsDelta(j)', i < j
        PROVE  wire'[i].number < wire'[j].number
    <3>1. j + 1 \in 1..Len(wire) /\ IsDelta(j + 1) /\ wire'[j] = wire[j + 1] /\ i + 1 < j + 1
      BY <1>1, <2>1, <2>5
    <3> QED
      BY <1>3, <2>1, <3>1
  <2> QED
    BY <2>2, <2>4, <2>5
<1>6. InOrder'
  BY <1>4, <1>5 DEF InOrder
<1>7. LastIsTrue'
  <2> SUFFICES ASSUME NEW s \in Sides, NEW p \in Prices, NEW i \in 1..Len(wire'),
                      About(i, s, p)', \A j \in 1..Len(wire') : i < j => ~About(j, s, p)'
               PROVE  wire'[i].present <=> p \in venue'[s]
    BY DEF LastIsTrue
  <2>1. i + 1 \in 1..Len(wire) /\ About(i + 1, s, p) /\ wire'[i] = wire[i + 1]
    BY <1>1
  <2>2. ASSUME NEW j \in 1..Len(wire), i + 1 < j PROVE ~About(j, s, p)
    <3>1. j - 1 \in 1..Len(wire') /\ i < j - 1 /\ (j - 1) + 1 = j
      BY <1>1, <2>2
    <3> QED
      BY <1>1, <3>1
  <2>3. wire[i + 1].present <=> p \in venue[s]
    BY <2>1, <2>2 DEF BithumbInv, LastIsTrue
  <2> QED
    BY <2>1, <2>3
<1> QED
  BY <1>4, <1>6, <1>7

LEMMA BithumbTickerRead == ASSUME BithumbInv, TickerMessage PROVE BithumbInv'
<1>1. /\ wire # <<>> /\ wire' = Tail(wire) /\ Head(wire).type = "ticker"
      /\ UNCHANGED <<venue, count, stream, want, book, fetch, handled, exact, reach>>
  BY DEF TickerMessage
<1>2. /\ wire' \in Seq(Message) /\ Len(wire) \in Nat \ {0} /\ wire[1] = Head(wire)
      /\ \A i \in 1..Len(wire') :
           /\ i + 1 \in 1..Len(wire) /\ wire'[i] = wire[i + 1]
           /\ \A s \in Sides, p \in Prices : About(i, s, p)' <=> About(i + 1, s, p)
      /\ \A i \in 1..Len(wire) : i = 1 \/ i - 1 \in 1..Len(wire')
  BY <1>1, WireReads
<1>3. ~IsDelta(1)
  BY <1>1, <1>2 DEF IsDelta
<1>4. InOrder' /\ LastIsTrue'
  BY <1>1, <1>3, ReadsInOrder
<1>5. BithumbType'
  BY <1>1, <1>2 DEF BithumbInv, BithumbType, Fetching
<1>6. \A s \in Sides, p \in Prices, i \in 1..Len(wire) : About(i, s, p) =>
        i - 1 \in 1..Len(wire') /\ About(i - 1, s, p)' /\ wire'[i - 1] = wire[i]
  <2> SUFFICES ASSUME NEW s \in Sides, NEW p \in Prices, NEW i \in 1..Len(wire),
                      About(i, s, p)
               PROVE  i - 1 \in 1..Len(wire') /\ About(i - 1, s, p)' /\ wire'[i - 1] = wire[i]
    OBVIOUS
  <2>1. i - 1 \in 1..Len(wire') /\ (i - 1) + 1 = i
    BY <1>2, <1>3 DEF About
  <2>2. PICK j \in 1..Len(wire') : j = i - 1 /\ j + 1 = i
    BY <2>1
  <2>3. About(j, s, p)' /\ wire'[j] = wire[i]
    BY <1>2, <2>2
  <2> QED
    BY <2>2, <2>3
<1>7. SnapshotIsTrue' /\ BookIsTrue'
  BY <1>1, <1>6 DEF BithumbInv, SnapshotIsTrue, BookIsTrue
<1> QED
  BY <1>4, <1>5, <1>7 DEF BithumbInv

\* a delta is read, and applied if there is a book
LEMMA BithumbDepthRead == ASSUME BithumbInv, DepthMessage PROVE BithumbInv'
<1>1. /\ wire # <<>> /\ wire' = Tail(wire) /\ Head(wire).type = "depth"
      /\ handled' = Head(wire).number
      /\ UNCHANGED <<venue, count, stream, want, fetch, exact, reach>>
      /\ \/ /\ book.initialized
            /\ book' = [book EXCEPT !.levels = Applied(book.levels, Head(wire))]
         \/ ~book.initialized /\ UNCHANGED book
  BY DEF DepthMessage
<1>2. /\ wire' \in Seq(Message) /\ Len(wire) \in Nat \ {0} /\ wire[1] = Head(wire)
      /\ wire[1] \in Message
      /\ \A i \in 1..Len(wire') :
           /\ i + 1 \in 1..Len(wire) /\ wire'[i] = wire[i + 1]
           /\ IsDelta(i)' <=> IsDelta(i + 1)
           /\ \A s \in Sides, p \in Prices : About(i, s, p)' <=> About(i + 1, s, p)
      /\ \A i \in 1..Len(wire) : i = 1 \/ i - 1 \in 1..Len(wire')
  BY <1>1, WireReads
<1> DEFINE m == Head(wire)
<1>3. /\ IsDelta(1) /\ m \in Delta /\ wire[1] = m /\ 1 \in 1..Len(wire)
      /\ m.side \in Sides /\ m.price \in Prices /\ m.present \in BOOLEAN /\ m.number \in Nat
  <2>1. m \in Delta
    BY <1>1, <1>2 DEF Message
  <2> QED
    BY <1>1, <1>2, <2>1 DEF IsDelta, Delta
<1> HIDE DEF m
<1>4. InOrder' /\ LastIsTrue' /\ handled <= handled' /\ handled' = m.number
  BY <1>1, <1>3, ReadsInOrder DEF m
<1>5. /\ book \in [levels : [Sides -> SUBSET Prices], initialized : BOOLEAN]
      /\ book' \in [levels : [Sides -> SUBSET Prices], initialized : BOOLEAN]
      /\ book'.initialized = book.initialized
      /\ book.initialized => book'.levels = Level(book.levels, m.side, m.price, m.present)
  <2>1. book \in [levels : [Sides -> SUBSET Prices], initialized : BOOLEAN]
    BY DEF BithumbInv, BithumbType
  <2>2. Level(book.levels, m.side, m.price, m.present) \in [Sides -> SUBSET Prices]
    BY <1>3, <2>1, LevelIs
  <2>3. \/ book.initialized
             /\ book' = [book EXCEPT !.levels = Level(book.levels, m.side, m.price, m.present)]
        \/ ~book.initialized /\ UNCHANGED book
    BY <1>1 DEF Applied, m
  <2> QED
    BY <2>1, <2>2, <2>3
<1>6. BithumbType'
  BY <1>1, <1>2, <1>3, <1>4, <1>5 DEF BithumbInv, BithumbType, Fetching
<1>7. \A s \in Sides, p \in Prices, i \in 1..Len(wire) : About(i, s, p) /\ i # 1 =>
        \E j \in 1..Len(wire') : About(j, s, p)' /\ wire'[j] = wire[i]
  <2> SUFFICES ASSUME NEW s \in Sides, NEW p \in Prices, NEW i \in 1..Len(wire),
                      About(i, s, p), i # 1
               PROVE  \E j \in 1..Len(wire') : About(j, s, p)' /\ wire'[j] = wire[i]
    OBVIOUS
  <2>1. PICK j \in 1..Len(wire') : j + 1 = i
    BY <1>2
  <2> QED
    BY <1>2, <2>1
<1>8. SnapshotIsTrue'
  <2> SUFFICES ASSUME NEW t \in Threads, fetch'[t].since # Gap
               PROVE  /\ stream'.depth /\ fetch'[t].since <= count'.moves
                      /\ handled' <= fetch'[t].since =>
                           \A s \in Sides, p \in Prices :
                             (\A i \in 1..Len(wire') :
                                About(i, s, p)' => wire'[i].number <= fetch'[t].since)
                               => Right(p, fetch'[t].levels[s],
                                        Reach(s, fetch'[t].levels[s], Depth(t)), venue'[s])
    BY DEF SnapshotIsTrue
  <2>1. /\ fetch[t].since \in Nat /\ fetch[t].since <= count.moves /\ stream.depth
        /\ handled <= fetch[t].since =>
             \A s \in Sides, p \in Prices :
               (\A i \in 1..Len(wire) : About(i, s, p) => wire[i].number <= fetch[t].since)
                 => Right(p, fetch[t].levels[s],
                          Reach(s, fetch[t].levels[s], Depth(t)), venue[s])
    BY <1>1, GapType DEF BithumbInv, SnapshotIsTrue, BithumbType, Fetching
  <2>2. ASSUME m.number <= fetch[t].since, NEW s \in Sides, NEW p \in Prices,
               \A i \in 1..Len(wire') : About(i, s, p)' => wire'[i].number <= fetch[t].since
        PROVE  Right(p, fetch[t].levels[s],
                     Reach(s, fetch[t].levels[s], Depth(t)), venue[s])
    <3>1. handled <= fetch[t].since
      BY <1>3, <1>4, <2>1, <2>2 DEF BithumbInv, BithumbType
    <3>2. \A i \in 1..Len(wire) : About(i, s, p) => wire[i].number <= fetch[t].since
      BY <1>3, <1>7, <2>2
    <3> QED
      BY <2>1, <3>1, <3>2
  <2> QED
    BY <1>1, <1>4, <2>1, <2>2
<1>9. BookIsTrue'
  <2> SUFFICES ASSUME exact
               PROVE  /\ stream'.depth /\ book'.initialized
                      /\ \A s \in Sides, p \in Prices :
                           (\A i \in 1..Len(wire') : ~About(i, s, p)')
                             => Right(p, book'.levels[s], reach'[s], venue'[s])
    BY <1>1 DEF BookIsTrue
  <2>1. /\ stream.depth /\ book.initialized
        /\ \A s \in Sides, p \in Prices :
             (\A i \in 1..Len(wire) : ~About(i, s, p))
               => Right(p, book.levels[s], reach[s], venue[s])
    BY DEF BithumbInv, BookIsTrue
  <2>2. /\ m.price \in book'.levels[m.side] <=> m.present
        /\ \A s \in Sides, p \in Prices : s # m.side \/ p # m.price =>
             (p \in book'.levels[s] <=> p \in book.levels[s])
    BY <1>3, <1>5, <2>1, LevelIs
  <2>3. ASSUME NEW s \in Sides, NEW p \in Prices, \A i \in 1..Len(wire') : ~About(i, s, p)'
        PROVE  Right(p, book'.levels[s], reach'[s], venue[s])
    <3>1. \A i \in 1..Len(wire) : i # 1 => ~About(i, s, p)
      BY <1>7, <2>3
    <3>2. CASE s = m.side /\ p = m.price
      <4>1. About(1, s, p) /\ \A j \in 1..Len(wire) : 1 < j => ~About(j, s, p)
        BY <1>3, <3>1, <3>2 DEF About
      <4>2. m.present <=> p \in venue[s]
        BY <1>3, <4>1 DEF BithumbInv, LastIsTrue
      <4> QED
        BY <2>2, <3>2, <4>2 DEF Right
    <3>3. CASE s # m.side \/ p # m.price
      <4>1. ~About(1, s, p)
        BY <1>3, <3>3 DEF About
      <4>2. Right(p, book.levels[s], reach[s], venue[s])
        BY <2>1, <3>1, <4>1
      <4> QED
        BY <1>1, <2>2, <3>3, <4>2 DEF Right
    <3> QED
      BY <3>2, <3>3
  <2> QED
    BY <1>1, <1>5, <2>1, <2>3
<1> QED
  BY <1>4, <1>6, <1>8, <1>9 DEF BithumbInv

LEMMA DepthType == ASSUME NEW t \in Threads PROVE Depth(t) \in Nat
  BY BoundsAssumption DEF Depth

\* a snapshot says nothing wrong, and leaves out only what it cut off
LEMMA CutIsRight ==
  ASSUME NEW s \in Sides, NEW full \in SUBSET Prices, NEW n \in Nat,
         NEW top \in Cut(s, full, n), NEW p \in Prices
  PROVE  top \in SUBSET Prices /\ Right(p, top, Reach(s, top, n), full)
<1>1. /\ top \subseteq full
      /\ \/ top = full
         \/ /\ Cardinality(top) = n
            /\ \A r \in top, q \in full \ top : AsGood(s, r, q)
  BY DEF Cut
<1>2. ASSUME p \in Reach(s, top, n), p \in full, p \notin top PROVE FALSE
  <2>1. /\ Cardinality(top) = n
        /\ \A r \in top, q \in full \ top : AsGood(s, r, q)
    BY <1>1, <1>2
  <2>2. PICK q \in top : AsGood(s, p, q)
    BY <1>2, <2>1 DEF Reach
  <2>3. AsGood(s, q, p)
    BY <1>2, <2>1
  <2>4. p \in Nat /\ q \in Nat
    BY <1>1, BoundsAssumption
  <2>5. p = q
    BY <2>2, <2>3, <2>4 DEF AsGood
  <2> QED
    BY <1>2, <2>5
<1> QED
  BY <1>1, <1>2 DEF Right

\* the venue takes a snapshot: every delta on the way is older
LEMMA BithumbGet == ASSUME BithumbInv, NEW t \in Threads, Get(t) PROVE BithumbInv'
<1>t. BithumbType /\ FetchType
  BY DEF BithumbInv, BithumbType, FetchType
<1>1. UNCHANGED <<venue, stream, want, wire, book, handled, exact, reach>>
  BY DEF Get
<1>2. count \in [moves : 0..MaxMoves, ticks : Nat, drops : Nat, failures : Nat]
  BY DEF BithumbInv, BithumbType
<1>3. ASSUME NEW bids \in Cut("bid", venue["bid"], Depth(t)),
             NEW asks \in Cut("ask", venue["ask"], Depth(t)),
             fetch' = [fetch EXCEPT ![t] =
               [pc |-> "apply", bid |-> 0,
                levels |-> [s \in Sides |-> IF s = "bid" THEN bids ELSE asks],
                since |-> IF stream.depth THEN count.moves ELSE Gap]],
             UNCHANGED count
      PROVE  BithumbInv'
  <2> DEFINE l == [s \in Sides |-> IF s = "bid" THEN bids ELSE asks]
             r == [pc |-> "apply", bid |-> 0, levels |-> l,
                   since |-> IF stream.depth THEN count.moves ELSE Gap]
  <2>0. \A s \in Sides, p \in Prices :
          /\ l[s] \in SUBSET Prices
          /\ Right(p, l[s], Reach(s, l[s], Depth(t)), venue[s])
    <3> SUFFICES ASSUME NEW s \in Sides, NEW p \in Prices
                 PROVE  /\ l[s] \in SUBSET Prices
                        /\ Right(p, l[s], Reach(s, l[s], Depth(t)), venue[s])
      OBVIOUS
    <3>1. venue[s] \in SUBSET Prices /\ Depth(t) \in Nat
      BY <1>t, DepthType DEF BithumbType
    <3>2. l[s] \in Cut(s, venue[s], Depth(t))
      BY DEF Sides
    <3> QED
      BY <3>1, <3>2, CutIsRight
  <2>1. /\ Fetching(r) /\ r.levels = l
        /\ r.since = IF stream.depth THEN count.moves ELSE Gap
    <3>1. l \in [Sides -> SUBSET Prices]
      <4>1. \A s \in Sides : l[s] \subseteq venue[s]
        BY DEF Cut, Sides
      <4> QED
        BY <1>t, <4>1 DEF BithumbType
    <3> HIDE DEF l
    <3> QED
      BY <1>t, <1>2, <3>1, GapType DEF Fetching, BithumbType
  <2>f. fetch' = [fetch EXCEPT ![t] = r]
    BY <1>3
  <2> HIDE DEF l, r
  <2>2. FetchType' /\ fetch'[t] = r /\ \A u \in Threads : u # t => fetch'[u] = fetch[u]
    BY <1>t, <2>f, <2>1, FetchMove
  <2>3. BithumbType'
    BY <1>t, <1>1, <1>3, <2>2 DEF BithumbType, FetchType
  <2>4. InOrder' /\ LastIsTrue' /\ BookIsTrue'
    BY <1>1, <1>3 DEF BithumbInv, InOrder, LastIsTrue, BookIsTrue, IsDelta, About
  <2>5. SnapshotIsTrue'
    <3>1. \A i \in 1..Len(wire), s \in Sides, p \in Prices : About(i, s, p)' <=> About(i, s, p)
      BY <1>1 DEF About, IsDelta
    <3>2. ASSUME NEW u \in Threads, fetch'[u].since # Gap
          PROVE  /\ stream'.depth /\ fetch'[u].since <= count'.moves
                 /\ handled' <= fetch'[u].since =>
                      \A s \in Sides, p \in Prices :
                        (\A i \in 1..Len(wire') :
                           About(i, s, p)' => wire'[i].number <= fetch'[u].since)
                          => Right(p, fetch'[u].levels[s],
                                   Reach(s, fetch'[u].levels[s], Depth(u)), venue'[s])
      <4>1. CASE u = t
        BY <1>1, <1>2, <1>3, <2>0, <2>1, <2>2, <3>2, <4>1
      <4>2. CASE u # t
        BY <1>1, <1>3, <2>2, <3>1, <3>2, <4>2 DEF BithumbInv, SnapshotIsTrue
      <4> QED
        BY <4>1, <4>2
    <3> QED
      BY <3>2 DEF SnapshotIsTrue
  <2> QED
    BY <2>3, <2>4, <2>5 DEF BithumbInv
<1>4. CASE /\ FaultLeft /\ count' = [count EXCEPT !.failures = @ + 1]
           /\ fetch' = [fetch EXCEPT ![t].pc = Done(t)]
  <2>1. /\ count' \in [moves : 0..MaxMoves, ticks : Nat, drops : Nat, failures : Nat]
        /\ count'.drops + count'.failures <= MaxFaults /\ count'.moves = count.moves
    BY <1>2, <1>4, BoundsAssumption DEF FaultLeft
  <2>2. FetchType' /\ \A u \in Threads : /\ fetch'[u].since = fetch[u].since
                                         /\ fetch'[u].levels = fetch[u].levels
    BY <1>t, <1>4, FetchGoes
  <2>3. BithumbType'
    BY <1>t, <1>1, <2>1, <2>2 DEF BithumbType, FetchType
  <2> QED
    BY <1>1, <2>1, <2>2, <2>3, BithumbKeeps
<1> QED
  BY <1>3, <1>4 DEF Get

\* the snapshot becomes the book
LEMMA BithumbApply == ASSUME BithumbInv, NEW t \in Threads, Apply(t) PROVE BithumbInv'
<1>t. BithumbType /\ FetchType
  BY DEF BithumbInv, BithumbType, FetchType
<1>1. /\ UNCHANGED <<venue, count, stream, want, wire, handled>>
      /\ book' = [levels |-> fetch[t].levels, initialized |-> TRUE]
      /\ exact' = (fetch[t].since # Gap /\ handled <= fetch[t].since)
      /\ reach' = IF exact' THEN [s \in Sides |-> Reach(s, fetch[t].levels[s], Depth(t))]
                  ELSE Empty
      /\ fetch' = [fetch EXCEPT ![t] = At("store")]
  BY DEF Apply, Filled
<1>2. /\ FetchType' /\ fetch'[t].since = Gap
      /\ \A u \in Threads : u # t => fetch'[u] = fetch[u]
  BY <1>t, <1>1, FetchMove, FetchAt
<1>3. book' \in [levels : [Sides -> SUBSET Prices], initialized : BOOLEAN]
      /\ book'.initialized /\ book'.levels = fetch[t].levels /\ exact' \in BOOLEAN
  BY <1>t, <1>1 DEF FetchType, Fetching
<1>r. /\ reach' \in [Sides -> SUBSET Prices]
      /\ exact' => \A s \in Sides : reach'[s] = Reach(s, fetch[t].levels[s], Depth(t))
  BY <1>1 DEF Reach, Empty
<1>4. BithumbType'
  BY <1>t, <1>1, <1>2, <1>3, <1>r DEF BithumbType, FetchType
<1>5. InOrder' /\ LastIsTrue'
  BY <1>1 DEF BithumbInv, InOrder, LastIsTrue, IsDelta, About
<1>6. SnapshotIsTrue'
  BY <1>1, <1>2 DEF BithumbInv, SnapshotIsTrue, IsDelta, About
<1>7. BookIsTrue'
  <2> SUFFICES ASSUME fetch[t].since # Gap, handled <= fetch[t].since
               PROVE  /\ stream.depth
                      /\ \A s \in Sides, p \in Prices :
                           (\A i \in 1..Len(wire) : ~About(i, s, p))
                             => Right(p, fetch[t].levels[s],
                                      Reach(s, fetch[t].levels[s], Depth(t)), venue[s])
    BY <1>1, <1>3, <1>r DEF BookIsTrue, About, IsDelta
  <2> QED
    BY DEF BithumbInv, SnapshotIsTrue
<1> QED
  BY <1>4, <1>5, <1>6, <1>7 DEF BithumbInv

LEMMA BithumbStep == BithumbInv /\ [MarketNext]_allvars => BithumbInv'
<1> SUFFICES ASSUME BithumbInv, [MarketNext]_allvars PROVE BithumbInv'
  OBVIOUS
<1>1. CASE UNCHANGED vars
  <2>1. UNCHANGED <<venue, count, stream, want, wire, book, fetch, handled, exact, reach>>
    BY <1>1 DEF vars
  <2>2. BithumbType'
    BY <2>1 DEF BithumbInv, BithumbType, Fetching
  <2> QED
    BY <2>1, <2>2, BithumbKeeps
<1>2. CASE Next
  BY <1>2, BithumbTicks, BithumbMoves, BithumbLost, BithumbTickerRead, BithumbDepthRead,
     BithumbGet, BithumbApply, BithumbRest
  DEF Next, StrandRuns, Fetcher, BithumbOthers
<1> QED
  BY <1>1, <1>2 DEF MarketNext, InBithumb, InUpbit, InForeign, allvars

\* For any set of prices, any depth of the snapshots and any number of moves,
\* lost sessions and failed snapshots: a book filled from a snapshot of the
\* session's own stream has, as soon as the deltas on the way are read, no
\* level that the venue has not, and all of the venue's as far down as the
\* snapshot reached, although deltas that the snapshot already contains are
\* applied to it again (fetch_all_orderbook_snapshots,
\* parse_orderbookdepth_message).
THEOREM DrainedBookIsExact == MarketSpec => []BithumbExact
<1>1. ASSUME BithumbInv PROVE BithumbExact
  <2> SUFFICES ASSUME exact, wire = <<>>
               PROVE  /\ book.initialized
                      /\ \A s \in Sides : /\ book.levels[s] \subseteq venue[s]
                                          /\ venue[s] \cap reach[s] \subseteq book.levels[s]
    BY DEF BithumbExact, ExactOnceDrained
  <2>1. Len(wire) = 0 /\ 1..Len(wire) = {}
    OBVIOUS
  <2>2. /\ book.initialized
        /\ \A s \in Sides, p \in Prices : Right(p, book.levels[s], reach[s], venue[s])
    BY <1>1, <2>1 DEF BithumbInv, BookIsTrue
  <2>3. \A s \in Sides : book.levels[s] \subseteq Prices /\ venue[s] \subseteq Prices
    BY <1>1 DEF BithumbInv, BithumbType
  <2> QED
    BY <2>2, <2>3 DEF Right
<1> QED
  BY <1>1, BithumbStart, BithumbStep, PTL DEF MarketSpec
=============================================================================
