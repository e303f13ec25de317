----------------------------- MODULE FillQueries -----------------------------
(***************************************************************************)
(* How a venue adapter finds out what a market order filled: events of the *)
(* private WebSocket feed a fill cache, a fill query takes its order's     *)
(* entry from the cache, waits a moment for it, and then asks over REST.   *)
(* All orders are of one venue, chosen in the initial state: Bybit and OKX *)
(* share their code's structure, Bithumb caches other events, Upbit has no *)
(* cache.  One fill query per order, each run by a worker of the           *)
(* fill-query executor.                                                    *)
(*                                                                         *)
(* The venue (external) fills an order in several trades or cancels the    *)
(* rest of it, and reports cumulative quantities, in order, to the         *)
(* WebSocket session of the moment.  A session that breaks loses what was  *)
(* on its way; only a clean close tells the adapter at once.               *)
(***************************************************************************)
EXTENDS Integers, Sequences, FiniteSets

CONSTANTS
  Orders,
  Qty,                    \* quantity of an order, in trades
  MaxAttempts,            \* of the REST query (5, 7, 20)
  MaxDrops                \* bound: sessions that end

ASSUME FillAssumption ==
  /\ Qty \in Nat \ {0} /\ MaxAttempts \in Nat \ {0} /\ MaxDrops \in Nat

VARIABLES
  exchange,               \* the venue of the orders
  filled, ended,          \* of each order, at the venue
  session,                \* the venue sends order events to this client
  private_ws_authenticated_,
  events,                 \* on their way, oldest first
  fill_cache_,            \* fill_cache_[o]: quantity, 0 if there is no entry
  query,                  \* query[o]: place of its fill query, REST attempts
  order,                  \* order[o]: what its query has written and returned
  drops

venueVars == <<exchange, filled, ended>>
wsVars == <<session, private_ws_authenticated_, events, fill_cache_, drops>>
fillVars == <<venueVars, wsVars, query, order>>

Venues == {"Bybit", "OKX", "Bithumb", "Upbit"}

FillInit ==
  /\ exchange \in Venues
  /\ filled = [o \in Orders |-> 0] /\ ended = [o \in Orders |-> "open"]
  /\ session = FALSE /\ private_ws_authenticated_ = FALSE
  /\ events = <<>> /\ fill_cache_ = [o \in Orders |-> 0]
  /\ query = [o \in Orders |-> [pc |-> "out", attempt |-> 0]]
  /\ order = [o \in Orders |->
                [filled_quantity |-> 0, ok |-> FALSE, by |-> "none"]]
  /\ drops = 0

-----------------------------------------------------------------------------
(* The venue.                                                              *)

Emit(o, q, s) ==
  events' = IF session THEN Append(events, [order |-> o, qty |-> q, state |-> s])
            ELSE events

Trade(o) ==
  /\ ended[o] = "open" /\ filled[o] < Qty
  /\ LET q == filled[o] + 1
         s == IF q = Qty THEN "filled" ELSE "open"
     IN  /\ filled' = [filled EXCEPT ![o] = q]
         /\ ended' = [ended EXCEPT ![o] = s]
         /\ Emit(o, q, s)
  /\ UNCHANGED <<exchange, session, private_ws_authenticated_, fill_cache_, drops,
                 query, order>>

CancelRest(o) ==
  /\ ended[o] = "open"
  /\ ended' = [ended EXCEPT ![o] = "cancelled"]
  /\ Emit(o, filled[o], "cancelled")
  /\ UNCHANGED <<exchange, filled, session, private_ws_authenticated_,
                 fill_cache_, drops, query, order>>

-----------------------------------------------------------------------------
(* The private WebSocket.                                                  *)

\* connected, logged in (Bithumb: by the handshake's headers) and subscribed
authenticate_private_ws ==
  /\ exchange # "Upbit" /\ ~session
  /\ session' = TRUE /\ private_ws_authenticated_' = TRUE
  /\ UNCHANGED <<venueVars, events, fill_cache_, drops, query, order>>

\* a clean close runs the disconnect callback, another error does not
PrivateDrop(clean) ==
  /\ session /\ drops < MaxDrops /\ drops' = drops + 1
  /\ session' = FALSE /\ events' = <<>>
  /\ private_ws_authenticated_' = (private_ws_authenticated_ /\ ~clean)
  /\ UNCHANGED <<venueVars, fill_cache_, query, order>>

\* mutant: an order that has traded at all is cached, on every venue
Cacheable_any(e) == e.qty > 0

\* Bybit and OKX cache only an order that is filled; Bithumb a "trade", a
\* "done" and a "cancel", whatever is still open
Cacheable(e) ==
  e.qty > 0 /\ (exchange \in {"Bybit", "OKX"} => e.state = "filled")

\* mutant: the cumulative quantities of the events are added up
CacheEntry_sum(e) == fill_cache_[e.order] + e.qty

CacheEntry(e) == e.qty

on_private_ws_message ==
  /\ events # <<>> /\ events' = Tail(events)
  /\ LET e == Head(events)
     IN  fill_cache_' = IF Cacheable(e)
                        THEN [fill_cache_ EXCEPT ![e.order] = CacheEntry(e)]
                        ELSE fill_cache_
  /\ UNCHANGED <<venueVars, session, private_ws_authenticated_, drops, query,
                 order>>

-----------------------------------------------------------------------------
(* query_order_fill and query_order_detail.                                *)

Goto(o, pc) == query' = [query EXCEPT ![o].pc = pc]
Cached(o) == fill_cache_[o] > 0

Return(o, ok, q, by) ==
  /\ Goto(o, "done")
  /\ order' = [order EXCEPT ![o] =
                 [filled_quantity |-> q, ok |-> ok, by |-> by]]

Take(o) ==
  /\ Return(o, TRUE, fill_cache_[o], "cache")
  /\ fill_cache_' = [fill_cache_ EXCEPT ![o] = 0]

\* Bybit and OKX look at the cache only if the private WebSocket is logged
\* in, Bithumb always
LooksAtCache ==
  CASE exchange \in {"Bybit", "OKX"} -> private_ws_authenticated_
    [] exchange = "Bithumb" -> TRUE
    [] exchange = "Upbit" -> FALSE

query_order_fill(o) ==
  /\ query[o].pc = "out"
  /\ \/ LooksAtCache /\ Cached(o) /\ Take(o)
     \/ /\ ~(LooksAtCache /\ Cached(o))
        /\ Goto(o, IF private_ws_authenticated_ THEN "wait" ELSE "rest")
        /\ UNCHANGED <<fill_cache_, order>>
  /\ UNCHANGED <<venueVars, session, private_ws_authenticated_, events, drops>>

\* fill_cache_cv_.wait_for with its predicate
Found(o) ==
  /\ query[o].pc = "wait" /\ Cached(o) /\ Take(o)
  /\ UNCHANGED <<venueVars, session, private_ws_authenticated_, events, drops>>

\* mutant: wait() instead of wait_for()
WaitEnds_never(o) == FALSE

WaitEnds(o) == ~Cached(o)

Missed(o) ==
  /\ query[o].pc = "wait" /\ WaitEnds(o) /\ Goto(o, "rest")
  /\ UNCHANGED <<venueVars, wsVars, order>>

NextQuery(o) ==
  IF query[o].attempt + 1 < MaxAttempts
  THEN query' = [query EXCEPT ![o].attempt = @ + 1]
  ELSE Goto(o, "done")

\* no answer; Upbit gives up at once
RestFails(o) ==
  /\ query[o].pc = "rest"
  /\ IF exchange = "Upbit" THEN Goto(o, "done") ELSE NextQuery(o)
  /\ UNCHANGED <<venueVars, wsVars, order>>

\* Any quantity will do, also that of an order which is still trading
RestAnswers(o) ==
  /\ query[o].pc = "rest" /\ exchange # "Upbit"
  /\ IF filled[o] > 0 THEN Return(o, TRUE, filled[o], "rest")
     ELSE NextQuery(o) /\ UNCHANGED order
  /\ UNCHANGED <<venueVars, wsVars>>

\* parse_upbit_order_status: "done"
UpbitFilled(o) == ended[o] = "filled"

populate_upbit_order_from_body(o) ==
  [filled_quantity |-> filled[o], ok |-> UpbitFilled(o), by |-> "rest"]

\* Upbit writes what it sees into the order and returns true only for a
\* filled one; a cancelled order that has traded counts as partially filled
UpbitAnswers(o) ==
  /\ query[o].pc = "rest" /\ exchange = "Upbit"
  /\ order' = [order EXCEPT ![o] = populate_upbit_order_from_body(o)]
  /\ IF UpbitFilled(o) \/ (ended[o] = "cancelled" /\ filled[o] = 0)
     THEN Goto(o, "done") ELSE NextQuery(o)
  /\ UNCHANGED <<venueVars, wsVars>>

Querying(o) ==
  \/ query_order_fill(o) \/ Found(o) \/ Missed(o)
  \/ RestFails(o) \/ RestAnswers(o) \/ UpbitAnswers(o)

FillNext ==
  \/ authenticate_private_ws \/ on_private_ws_message
  \/ \E clean \in BOOLEAN : PrivateDrop(clean)
  \/ \E o \in Orders : Trade(o) \/ CancelRest(o) \/ Querying(o)

FillSpec == FillInit /\ [][FillNext]_fillVars

\* Workers run and a wait ends at its deadline.  That a REST request returns
\* is assumed of the venue: nothing limits its time (RestClient).
FillFairSpec == FillSpec /\ \A o \in Orders : WF_fillVars(Querying(o))

-----------------------------------------------------------------------------
FillTypeOK ==
  /\ exchange \in Venues
  /\ filled \in [Orders -> 0..Qty]
  /\ ended \in [Orders -> {"open", "filled", "cancelled"}]
  /\ session \in BOOLEAN /\ private_ws_authenticated_ \in BOOLEAN
  /\ events \in Seq([order : Orders, qty : 0..Qty,
                     state : {"open", "filled", "cancelled"}])
  /\ fill_cache_ \in [Orders -> 0..Qty]
  /\ query \in [Orders -> [pc : {"out", "wait", "rest", "done"},
                           attempt : 0..MaxAttempts-1]]
  /\ order \in [Orders -> [filled_quantity : 0..Qty, ok : BOOLEAN,
                           by : {"none", "cache", "rest"}]]
  /\ drops \in 0..MaxDrops

\* A query never reports more than its order has filled, and a successful one
\* reports something: the lifecycle loop never books coins that do not exist.
ReportIsReal ==
  \A o \in Orders :
    /\ order[o].filled_quantity <= filled[o]
    /\ order[o].ok => order[o].filled_quantity > 0

\* Where the code waits for the end of an order, the report is final: a fill
\* from the cache of Bybit and OKX, and a success of Upbit, are the whole
\* order, even if the events came late or over several sessions.
ReportIsFinal ==
  \A o \in Orders :
    /\ order[o].ok
    /\ exchange = "Upbit" \/ (exchange \in {"Bybit", "OKX"} /\ order[o].by = "cache")
    => ended[o] = "filled" /\ order[o].filled_quantity = filled[o]

\* Every fill query that a worker begins ends, so the latch of the lifecycle
\* loop opens.
QueryReturns == \A o \in Orders : query[o].pc # "out" ~> query[o].pc = "done"
=============================================================================
