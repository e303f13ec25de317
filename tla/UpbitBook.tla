----------------------------- MODULE UpbitBook -----------------------------
(***************************************************************************)
(* The best prices that the Upbit adapter keeps of one symbol, and the     *)
(* ticker it dispatches.                                                   *)
(*                                                                         *)
(* Every order book message and every REST snapshot carries the best bid   *)
(* and ask, which are stored in two atomics without a lock and dispatched  *)
(* as they came.  The strand of the WebSocket, main and the resync thread  *)
(* may store at the same time.  A lost session stops and joins the resync  *)
(* thread on the strand and then zeroes the prices; a new one subscribes   *)
(* again and fetches a snapshot, on the strand.                            *)
(*                                                                         *)
(* A quote of the venue is a number, its bid and its ask the halves that   *)
(* can be torn apart; quantities, the last price and the USDT rate are     *)
(* left out.  External parts: the venue, its snapshots and its stream.     *)
(***************************************************************************)
EXTENDS Naturals, Sequences, FiniteSets

CONSTANTS MaxMoves,     \* bound: changes of the venue's quote
          MaxTicks,     \* bound: ticker messages
          MaxFaults     \* bound: sessions lost and snapshots that fail

VARIABLES
    venue,       \* the number of the venue's quote
    count,       \* ticks and faults so far
    up,          \* the WebSocket is connected
    stream,      \* what the venue streams in this session
    wire,        \* messages of this session that the strand has not read
    connected,   \* connected_
    want,        \* subscribed_tickers_ and subscribed_orderbooks_ are set
    running,     \* orderbook_resync_running_
    bbo,         \* orderbook_bbo_: known once the entry exists
    thread,      \* the strand, main and the resync thread
    shown        \* ticker_cache_: bid and ask of the last dispatched ticker

vars == <<venue, count, up, stream, wire, connected, want, running, bbo,
          thread, shown>>

Threads == {"io", "main", "resync"}
Zero == [bid |-> 0, ask |-> 0]
At(pc) == [pc |-> pc, quote |-> 0, next |-> "off"]

Init ==
    /\ venue = 1
    /\ count = [ticks |-> 0, faults |-> 0]
    /\ up = TRUE /\ connected = TRUE     \* main waits for the connection
    /\ stream = [tickers |-> FALSE, depth |-> FALSE]
    /\ wire = <<>>
    /\ want = [tickers |-> FALSE, depth |-> FALSE]
    /\ running = FALSE
    /\ bbo = [known |-> FALSE, bid |-> 0, ask |-> 0]
    /\ thread = [t \in Threads |-> At(IF t = "main" THEN "tickers" ELSE "off")]
    /\ shown = Zero

TypeOK ==
    /\ venue \in 1..(MaxMoves + 1)
    /\ {bbo.bid, bbo.ask, shown.bid, shown.ask} \subseteq 0..venue
    /\ \A t \in Threads :
         thread[t].pc \in {"off", "tickers", "subscribe", "get", "bid", "ask",
                           "overlay", "start", "sleep", "opened", "join"}
-----------------------------------------------------------------------------
(* The venue and the network: external.                                    *)

VenueMoves ==
    /\ venue <= MaxMoves
    /\ venue' = venue + 1
    /\ wire' = IF stream.depth
               THEN Append(wire, [type |-> "orderbook", quote |-> venue'])
               ELSE wire
    /\ UNCHANGED <<count, up, stream, connected, want, running, bbo, thread,
                   shown>>

VenueTicks ==
    /\ count.ticks < MaxTicks
    /\ stream.tickers
    /\ count' = [count EXCEPT !.ticks = @ + 1]
    /\ wire' = Append(wire, [type |-> "ticker"])
    /\ UNCHANGED <<venue, up, stream, connected, want, running, bbo, thread,
                   shown>>
-----------------------------------------------------------------------------
(* Storing and dispatching a quote: parse_orderbook_message on the strand, *)
(* fetch_orderbook_snapshots on any thread.                                *)

StoreBid(t) ==
    /\ thread[t].pc = "bid"
    /\ bbo' = IF bbo.known THEN [bbo EXCEPT !.bid = thread[t].quote] ELSE bbo
    /\ thread' = [thread EXCEPT ![t].pc = "ask"]
    /\ UNCHANGED <<venue, count, up, stream, wire, connected, want, running,
                   shown>>

\* mutant: a snapshot is stored and not dispatched.
Dispatched_messages(t) ==
    IF t = "io" /\ thread[t].next = "off"
    THEN [bid |-> thread[t].quote, ask |-> thread[t].quote] ELSE shown

\* dispatch_ticker with the prices as they came.
Dispatched(t) == [bid |-> thread[t].quote, ask |-> thread[t].quote]

StoreAsk(t) ==
    /\ thread[t].pc = "ask"
    /\ bbo' = IF bbo.known THEN [bbo EXCEPT !.ask = thread[t].quote] ELSE bbo
    /\ shown' = Dispatched(t)
    /\ thread' = [thread EXCEPT ![t] = At(thread[t].next)]
    /\ UNCHANGED <<venue, count, up, stream, wire, connected, want, running>>

\* Where a thread goes when fetch_orderbook_snapshots has returned.
Fetched(t) == IF t = "resync" THEN "sleep" ELSE "start"

Get(t) ==
    /\ thread[t].pc = "get"
    /\ \/ /\ thread' = [thread EXCEPT
               ![t] = [pc |-> "bid", quote |-> venue, next |-> Fetched(t)]]
          /\ UNCHANGED count
       \/ /\ count.faults < MaxFaults
          /\ count' = [count EXCEPT !.faults = @ + 1]
          /\ thread' = [thread EXCEPT ![t].pc = Fetched(t)]
    /\ UNCHANGED <<venue, up, stream, wire, connected, want, running, bbo,
                   shown>>
-----------------------------------------------------------------------------
(* on_ws_message.                                                          *)

OrderbookMessage ==
    /\ thread["io"].pc = "off" /\ up
    /\ wire # <<>> /\ Head(wire).type = "orderbook"
    /\ wire' = Tail(wire)
    /\ thread' = [thread EXCEPT
          !["io"] = [pc |-> "bid", quote |-> Head(wire).quote, next |-> "off"]]
    /\ UNCHANGED <<venue, count, up, stream, connected, want, running, bbo,
                   shown>>

\* parse_ticker_message reads the bid ...
TickerMessage ==
    /\ thread["io"].pc = "off" /\ up
    /\ wire # <<>> /\ Head(wire).type = "ticker"
    /\ wire' = Tail(wire)
    /\ thread' = IF bbo.known
                 THEN [thread EXCEPT
                         !["io"] = [pc |-> "overlay", quote |-> bbo.bid,
                                    next |-> "off"]]
                 ELSE thread
    /\ UNCHANGED <<venue, count, up, stream, connected, want, running, bbo,
                   shown>>

\* ... then the ask, and dispatches them if there are both.
Overlay ==
    /\ thread["io"].pc = "overlay"
    /\ shown' = IF thread["io"].quote > 0 /\ bbo.ask > 0
                THEN [bid |-> thread["io"].quote, ask |-> bbo.ask] ELSE shown
    /\ thread' = [thread EXCEPT !["io"] = At("off")]
    /\ UNCHANGED <<venue, count, up, stream, wire, connected, want, running,
                   bbo>>
-----------------------------------------------------------------------------
(* Subscriptions and the resync loop.                                      *)

\* main: subscribe_ticker, then subscribe_orderbook.
subscribe_ticker ==
    /\ thread["main"].pc = "tickers"
    /\ want' = [want EXCEPT !.tickers = TRUE]
    /\ stream' = [stream EXCEPT !.tickers = @ \/ (connected /\ up)]
    /\ thread' = [thread EXCEPT !["main"].pc = "subscribe"]
    /\ UNCHANGED <<venue, count, up, wire, connected, running, bbo, shown>>

subscribe_orderbook(t) ==
    /\ thread[t].pc = "subscribe"
    /\ want' = [want EXCEPT !.depth = TRUE]
    /\ bbo' = [bbo EXCEPT !.known = TRUE]
    /\ stream' = [stream EXCEPT !.depth = @ \/ (connected /\ up)]
    /\ thread' = [thread EXCEPT ![t].pc = IF connected THEN "get" ELSE "off"]
    /\ UNCHANGED <<venue, count, up, wire, connected, running, shown>>

start_orderbook_resync_loop(t) ==
    /\ thread[t].pc = "start"
    /\ IF running
       THEN /\ thread' = [thread EXCEPT ![t].pc = "off"]
            /\ UNCHANGED running
       ELSE /\ running' = TRUE
            /\ thread' = [thread EXCEPT ![t].pc = "off",
                                        !["resync"].pc = "sleep"]
    /\ UNCHANGED <<venue, count, up, stream, wire, connected, want, bbo, shown>>

\* One turn of the loop: after the sleep it ends, or fetches.
Resync ==
    /\ thread["resync"].pc = "sleep"
    /\ thread' = [thread EXCEPT !["resync"].pc = IF running THEN "get" ELSE "off"]
    /\ UNCHANGED <<venue, count, up, stream, wire, connected, want, running,
                   bbo, shown>>
-----------------------------------------------------------------------------
(* The session.  Its callbacks run on the strand.                          *)

\* A read error ends the session without the callback; a close calls
\* on_ws_disconnected, which first stops the resync loop.
Drop ==
    /\ up /\ thread["io"].pc = "off"
    /\ count.faults < MaxFaults
    /\ count' = [count EXCEPT !.faults = @ + 1]
    /\ up' = FALSE
    /\ stream' = [tickers |-> FALSE, depth |-> FALSE]
    /\ wire' = <<>>
    /\ \/ /\ connected' = FALSE
          /\ running' = FALSE
          /\ thread' = [thread EXCEPT !["io"].pc = "join"]
       \/ UNCHANGED <<connected, running, thread>>
    /\ UNCHANGED <<venue, want, bbo, shown>>

\* mutant: the strand does not wait for the resync thread.
Joined_never == TRUE

\* stop_orderbook_resync_loop returns when the thread has ended.
Joined == thread["resync"].pc = "off"

\* The rest of on_ws_disconnected.
ZeroPrices ==
    /\ thread["io"].pc = "join"
    /\ Joined
    /\ bbo' = [bbo EXCEPT !.bid = 0, !.ask = 0]
    /\ thread' = [thread EXCEPT !["io"].pc = "off"]
    /\ UNCHANGED <<venue, count, up, stream, wire, connected, want, running,
                   shown>>

Reconnect ==
    /\ ~up /\ thread["io"].pc = "off"
    /\ up' = TRUE
    /\ thread' = [thread EXCEPT !["io"].pc = "opened"]
    /\ UNCHANGED <<venue, count, stream, wire, connected, want, running, bbo,
                   shown>>

\* Order books are subscribed again or, only if there are none, tickers.
on_ws_connected ==
    /\ thread["io"].pc = "opened"
    /\ connected' = TRUE
    /\ \/ /\ want.depth
          /\ thread' = [thread EXCEPT !["io"].pc = "subscribe"]
          /\ UNCHANGED stream
       \/ /\ ~want.depth
          /\ stream' = [stream EXCEPT !.tickers = want.tickers]
          /\ thread' = [thread EXCEPT !["io"].pc = "off"]
    /\ UNCHANGED <<venue, count, up, wire, want, running, bbo, shown>>
-----------------------------------------------------------------------------
Runs(t) ==
    \/ StoreBid(t) \/ StoreAsk(t) \/ Get(t)
    \/ subscribe_orderbook(t) \/ start_orderbook_resync_loop(t)

StrandRuns ==
    \/ OrderbookMessage \/ TickerMessage \/ Overlay
    \/ ZeroPrices \/ on_ws_connected \/ Runs("io")

Next ==
    \/ VenueMoves \/ VenueTicks
    \/ Drop \/ Reconnect
    \/ StrandRuns
    \/ subscribe_ticker \/ Resync
    \/ Runs("main") \/ Runs("resync")

Spec == Init /\ [][Next]_vars
-----------------------------------------------------------------------------
(* Properties.                                                             *)

\* Between a lost session and the next one no price is offered to the
\* ticker messages: the resync thread that on_ws_disconnected waits for
\* cannot store a quote after the prices were zeroed.  (A session lost
\* during main's first subscription is excepted: main then stores its
\* snapshot and starts the loop without a session.)
ZeroedWhileDown ==
    /\ ~connected /\ ~running
    /\ thread["io"].pc = "off" /\ thread["main"].pc = "off"
    => bbo.bid = 0 /\ bbo.ask = 0

\* The ticker that the engine got is the venue's quote.
Agrees == shown = [bid |-> venue, ask |-> venue]
=============================================================================
