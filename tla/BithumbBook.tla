---------------------------- MODULE BithumbBook ----------------------------
(***************************************************************************)
(* The order book that the Bithumb adapter keeps of one symbol, and the    *)
(* ticker it derives from it.                                              *)
(*                                                                         *)
(* Three kinds of threads write the book: the strand of the WebSocket      *)
(* applies the deltas of the venue and invalidates the book when a session *)
(* begins; the resync thread replaces it by a REST snapshot every half     *)
(* second; main, and after each reconnection a detached thread, seeds it   *)
(* by a snapshot and then subscribes to the deltas.  orderbook_mutex_      *)
(* protects the levels, but the best bid and the best ask are two atomics  *)
(* that are read without it, and a snapshot was taken by the venue some    *)
(* time before it is applied.                                              *)
(*                                                                         *)
(* A snapshot holds the best levels only, five of a side or, in the resync *)
(* loop, one, and replaces the whole book.                                 *)
(*                                                                         *)
(* A level is a price: quantities, the last price and the USDT rate are    *)
(* left out.  External parts: the venue's book, its REST snapshot and its  *)
(* stream of deltas, which is in order and complete within one session.    *)
(***************************************************************************)
EXTENDS Naturals, Sequences, FiniteSets

CONSTANTS Prices,       \* the prices a level can have
          Opening,      \* the venue's book at start
          ORDERBOOK_SNAPSHOT_DEPTH,  \* levels per side that a first snapshot
          ORDERBOOK_BBO_DEPTH,       \* asks for (5), and a resync (1)
          MaxMoves,     \* bound: changes of the venue's book
          MaxTicks,     \* bound: ticker messages
          MaxFaults     \* bound: sessions lost and snapshots that fail

ASSUME BoundsAssumption ==
    /\ Prices \subseteq Nat \ {0} /\ IsFiniteSet(Prices)
    /\ Opening \in [{"bid", "ask"} -> SUBSET Prices]
    /\ {MaxMoves, MaxTicks, MaxFaults} \subseteq Nat
    /\ {ORDERBOOK_SNAPSHOT_DEPTH, ORDERBOOK_BBO_DEPTH} \subseteq Nat \ {0}

VARIABLES
    venue,        \* the book at the venue, per side
    count,        \* moves, ticks, drops and failures so far
    up,           \* the WebSocket is connected
    stream,       \* what the venue streams in this session: tickers, depth
    wire,         \* messages of this session that the strand has not read
    connected,    \* connected_
    ready,        \* orderbook_ready_
    want,         \* subscribed_tickers_ and subscribed_orderbooks_ are set
    book,         \* orderbook_state_: levels and the flag initialized
    bbo,          \* orderbook_bbo_: known once the entry exists
    mutex,        \* who holds orderbook_mutex_
    io,           \* the strand: where its handler is, and the bid it read
    fetch,        \* the threads that fetch snapshots
    shown,        \* ticker_cache_: bid and ask of the last dispatched ticker
    handled,      \* history: number of the last delta the strand has read
    exact,        \* history: no delta was lost between snapshot and book
    reach         \* history: the prices the book's snapshot told about

vars == <<venue, count, up, stream, wire, connected, ready, want, book, bbo,
          mutex, io, fetch, shown, handled, exact, reach>>

Sides == {"bid", "ask"}
Empty == [s \in Sides |-> {}]
Detached == 1..MaxFaults         \* the thread spawned after the n-th drop
Main == 0
ResyncThread == MaxFaults + 1
Threads == {Main, ResyncThread} \cup Detached
Strand == MaxFaults + 2
Free == MaxFaults + 3             \* not a thread

\* bids is sorted downwards and asks upwards.
AsGood(side, p, q) == IF side = "bid" THEN p >= q ELSE p <= q

Best(side, levels) ==
    IF levels = {} THEN 0
    ELSE CHOOSE p \in levels : \A q \in levels : AsGood(side, p, q)

Quote(levels) == [s \in Sides |-> Best(s, levels[s])]
TwoSided(quote) == \A s \in Sides : quote[s] > 0
Uncrossed(levels) == \A b \in levels["bid"], a \in levels["ask"] : b < a

\* A thread at pc that holds no snapshot.  since is a history variable: the
\* number of the last move in the snapshot, or Gap if some later move was
\* not streamed.
Gap == MaxMoves + 1
At(pc) == [pc |-> pc, levels |-> Empty, since |-> Gap, bid |-> 0]

Init ==
    /\ venue = Opening
    /\ count = [moves |-> 0, ticks |-> 0, drops |-> 0, failures |-> 0]
    /\ up = TRUE /\ connected = TRUE   \* main waits for the connection
    /\ stream = [tickers |-> FALSE, depth |-> FALSE]
    /\ wire = <<>>
    /\ ready = FALSE
    /\ want = [tickers |-> FALSE, depth |-> FALSE]
    /\ book = [levels |-> Empty, initialized |-> FALSE]
    /\ bbo = [known |-> FALSE, bid |-> 0, ask |-> 0]
    /\ mutex = Free
    /\ io = [pc |-> "idle", bid |-> 0]
    /\ fetch = [t \in Threads |->
                  At(IF t = Main THEN "tickers" ELSE "off")]
    /\ shown = [bid |-> 0, ask |-> 0]
    /\ handled = 0
    /\ exact = FALSE /\ reach = Empty

TypeOK ==
    /\ venue \in [Sides -> SUBSET Prices] /\ Uncrossed(venue)
    /\ {book.levels, reach} \subseteq [Sides -> SUBSET Prices]
    /\ bbo.bid \in Prices \cup {0} /\ bbo.ask \in Prices \cup {0}
    /\ mutex \in Threads \cup {Strand, Free}
    /\ io.pc \in {"idle", "store", "bid", "ask", "overlay",
                  "opened", "reset"}
    /\ \A t \in Threads :
         fetch[t].pc \in {"off", "tickers", "sleep", "get", "apply", "store",
                          "bid", "ask", "after"}
-----------------------------------------------------------------------------
(* The venue and the network: external.                                    *)

FaultLeft == count.drops + count.failures < MaxFaults

Level(b, side, price, present) ==
    [b EXCEPT ![side] = IF present THEN @ \cup {price} ELSE @ \ {price}]

VenueMoves ==
    /\ count.moves < MaxMoves
    /\ \E side \in Sides, price \in Prices, present \in BOOLEAN :
         /\ venue' = Level(venue, side, price, present)
         /\ venue' # venue
         /\ Uncrossed(venue')
         /\ count' = [count EXCEPT !.moves = @ + 1]
         /\ wire' = IF stream.depth
                    THEN Append(wire, [type |-> "depth", side |-> side,
                                       price |-> price, present |-> present,
                                       number |-> count'.moves])
                    ELSE wire
    /\ UNCHANGED <<up, stream, connected, ready, want, book, bbo, mutex, io,
                   fetch, shown, handled, exact, reach>>

VenueTicks ==
    /\ count.ticks < MaxTicks
    /\ stream.tickers
    /\ count' = [count EXCEPT !.ticks = @ + 1]
    /\ wire' = Append(wire, [type |-> "ticker"])
    /\ UNCHANGED <<venue, up, stream, connected, ready, want, book, bbo,
                   mutex, io, fetch, shown, handled, exact, reach>>
-----------------------------------------------------------------------------
(* The session.  Its callbacks run on the strand, one at a time; a read    *)
(* error ends a session without the disconnect callback.                   *)

on_ws_disconnected ==
    /\ connected' = FALSE
    /\ ready' = FALSE

Drop ==
    /\ up /\ io.pc = "idle"
    /\ FaultLeft
    /\ count' = [count EXCEPT !.drops = @ + 1]
    /\ up' = FALSE
    /\ stream' = [tickers |-> FALSE, depth |-> FALSE]
    /\ wire' = <<>>
    /\ exact' = FALSE /\ reach' = Empty
    /\ fetch' = [t \in Threads |-> [fetch[t] EXCEPT !.since = Gap]]
    /\ on_ws_disconnected \/ UNCHANGED <<connected, ready>>
    /\ UNCHANGED <<venue, want, book, bbo, mutex, io, shown, handled>>

Reconnect ==
    /\ ~up /\ io.pc = "idle"
    /\ up' = TRUE
    /\ io' = [io EXCEPT !.pc = "opened"]
    /\ UNCHANGED <<venue, count, stream, wire, connected, ready, want, book,
                   bbo, mutex, fetch, shown, handled, exact, reach>>

Invalidated(b) == [levels |-> Empty, initialized |-> FALSE]

on_ws_connected ==
    /\ io.pc = "opened"
    /\ mutex = Free
    /\ connected' = TRUE
    /\ book' = Invalidated(book)
    /\ io' = [io EXCEPT !.pc = "reset"]
    /\ exact' = FALSE /\ reach' = Empty
    /\ UNCHANGED <<venue, count, up, stream, wire, ready, want, bbo, mutex,
                   fetch, shown, handled>>

\* The rest of the callback: subscribe_ticker and the detached thread.
Resubscribe ==
    /\ io.pc = "reset"
    /\ ready' = FALSE
    /\ stream' = [stream EXCEPT !.tickers = want.tickers]
    /\ fetch' = IF want.depth
                THEN [fetch EXCEPT ![count.drops].pc = "get"] ELSE fetch
    /\ io' = [io EXCEPT !.pc = "idle"]
    /\ UNCHANGED <<venue, count, up, wire, connected, want, book, bbo, mutex,
                   shown, handled, exact, reach>>
-----------------------------------------------------------------------------
(* on_ws_message.                                                          *)

\* parse_orderbookdepth_message on one item of the list.
Applied(b, m) == Level(b, m.side, m.price, m.present)

\* First half of update_bbo: the best bid of the new levels is stored.
BidStored(levels) ==
    IF bbo.known THEN [bbo EXCEPT !.bid = Best("bid", levels["bid"])] ELSE bbo

\* Second half: the best ask is stored and the mutex released.
AskStored ==
    IF bbo.known
    THEN [bbo EXCEPT !.ask = Best("ask", book.levels["ask"])] ELSE bbo

\* make_bbo_ticker, which has read bid, makes a ticker.
Quotable(bid) == bbo.known /\ bid > 0 /\ bbo.ask > 0

DepthMessage ==
    /\ io.pc = "idle" /\ up
    /\ wire # <<>> /\ Head(wire).type = "depth"
    /\ mutex = Free
    /\ wire' = Tail(wire)
    /\ handled' = Head(wire).number
    /\ \/ /\ book.initialized
          /\ book' = [book EXCEPT !.levels = Applied(@, Head(wire))]
          /\ bbo' = BidStored(book'.levels)
          /\ mutex' = Strand
          /\ io' = [io EXCEPT !.pc = "store"]
       \/ /\ ~book.initialized
          /\ UNCHANGED <<book, bbo, mutex, io>>
    /\ UNCHANGED <<venue, count, up, stream, connected, ready, want, fetch,
                   shown, exact, reach>>

TickerMessage ==
    /\ io.pc = "idle" /\ up
    /\ wire # <<>> /\ Head(wire).type = "ticker"
    /\ wire' = Tail(wire)
    /\ IF ready /\ bbo.known
       THEN io' = [pc |-> "overlay", bid |-> bbo.bid] /\ UNCHANGED shown
       ELSE shown' = [bid |-> 0, ask |-> 0] /\ UNCHANGED io
    /\ UNCHANGED <<venue, count, up, stream, connected, ready, want, book,
                   bbo, mutex, fetch, handled, exact, reach>>

\* The steps of the strand after the levels are changed: the other half of
\* update_bbo; the test of orderbook_ready_ and the bid that make_bbo_ticker
\* reads; the ask and dispatch_ticker.
StrandStep ==
    /\ \/ /\ io.pc = "store"
          /\ bbo' = AskStored
          /\ mutex' = Free
          /\ io' = [io EXCEPT !.pc = "bid"]
          /\ UNCHANGED shown
       \/ /\ io.pc = "bid"
          /\ io' = IF ready THEN [pc |-> "ask", bid |-> bbo.bid]
                            ELSE [pc |-> "idle", bid |-> 0]
          /\ UNCHANGED <<bbo, mutex, shown>>
       \/ /\ io.pc \in {"ask", "overlay"}
          /\ io' = [pc |-> "idle", bid |-> 0]
          /\ shown' = IF io.pc = "overlay" \/ Quotable(io.bid)
                      THEN [bid |-> io.bid, ask |-> bbo.ask] ELSE shown
          /\ UNCHANGED <<bbo, mutex>>
    /\ UNCHANGED <<venue, count, up, stream, wire, connected, ready, want,
                   book, fetch, handled, exact, reach>>
-----------------------------------------------------------------------------
(* fetch_all_orderbook_snapshots, by main, the resync thread or a detached *)
(* thread.                                                                 *)

\* Where a thread goes when its fetch has returned.
Done(t) == IF t = ResyncThread THEN "sleep" ELSE "after"

\* How many levels of a side it asks for, and the ones it gets: the best.
Depth(t) ==
    IF t = ResyncThread THEN ORDERBOOK_BBO_DEPTH ELSE ORDERBOOK_SNAPSHOT_DEPTH

Cut(side, full, n) ==
    {top \in SUBSET full :
       \/ top = full /\ Cardinality(full) <= n
       \/ /\ Cardinality(top) = n
          /\ \A p \in top, q \in full \ top : AsGood(side, p, q)}

\* The prices that a snapshot tells about: those it could not cut off.
Reach(side, top, n) ==
    {p \in Prices : Cardinality(top) < n \/ \E q \in top : AsGood(side, p, q)}

\* The venue takes the snapshot, or the request fails.
Get(t) ==
    /\ fetch[t].pc = "get"
    /\ \/ /\ \E bids \in Cut("bid", venue["bid"], Depth(t)),
               asks \in Cut("ask", venue["ask"], Depth(t)) :
               fetch' = [fetch EXCEPT ![t] =
                   [pc |-> "apply", bid |-> 0,
                    levels |-> [s \in Sides |-> IF s = "bid" THEN bids ELSE asks],
                    since |-> IF stream.depth THEN count.moves ELSE Gap]]
          /\ UNCHANGED count
       \/ /\ FaultLeft
          /\ count' = [count EXCEPT !.failures = @ + 1]
          /\ fetch' = [fetch EXCEPT ![t].pc = Done(t)]
    /\ UNCHANGED <<venue, up, stream, wire, connected, ready, want, book, bbo,
                   mutex, io, shown, handled, exact, reach>>

\* mutant: the snapshot is added to the levels that are there.
Filled_merged(b, levels) ==
    [levels |-> [s \in Sides |-> b.levels[s] \cup levels[s]],
     initialized |-> TRUE]

Filled(b, levels) == [levels |-> levels, initialized |-> TRUE]

Apply(t) ==
    /\ fetch[t].pc = "apply"
    /\ mutex = Free
    /\ book' = Filled(book, fetch[t].levels)
    /\ bbo' = BidStored(book'.levels)
    /\ mutex' = t
    /\ exact' = (fetch[t].since # Gap /\ handled <= fetch[t].since)
    /\ reach' = IF exact'
                THEN [s \in Sides |-> Reach(s, fetch[t].levels[s], Depth(t))]
                ELSE Empty
    /\ fetch' = [fetch EXCEPT ![t] = At("store")]
    /\ UNCHANGED <<venue, count, up, stream, wire, connected, ready, want, io,
                   shown, handled>>

\* The other half of update_bbo; orderbook_ready_ and the bid that
\* make_bbo_ticker reads; the ask and dispatch_ticker.
Publish(t) ==
    /\ \/ /\ fetch[t].pc = "store"
          /\ bbo' = AskStored
          /\ mutex' = Free
          /\ fetch' = [fetch EXCEPT ![t].pc = "bid"]
          /\ UNCHANGED <<ready, shown>>
       \/ /\ fetch[t].pc = "bid"
          /\ ready' = TRUE
          /\ fetch' = [fetch EXCEPT ![t].pc = "ask", ![t].bid = bbo.bid]
          /\ UNCHANGED <<bbo, mutex, shown>>
       \/ /\ fetch[t].pc = "ask"
          /\ shown' = IF Quotable(fetch[t].bid)
                      THEN [bid |-> fetch[t].bid, ask |-> bbo.ask] ELSE shown
          /\ fetch' = [fetch EXCEPT ![t] = At(Done(t))]
          /\ UNCHANGED <<bbo, mutex, ready>>
    /\ UNCHANGED <<venue, count, up, stream, wire, connected, want, book, io,
                   handled, exact, reach>>
-----------------------------------------------------------------------------
(* Subscriptions and the resync loop.                                      *)

\* main: subscribe_ticker.
subscribe_ticker ==
    /\ fetch[Main].pc = "tickers"
    /\ want' = [want EXCEPT !.tickers = TRUE]
    /\ stream' = [stream EXCEPT !.tickers = @ \/ up]
    /\ fetch' = [fetch EXCEPT ![Main].pc = "get"]
    /\ UNCHANGED <<venue, count, up, wire, connected, ready, book, bbo, mutex,
                   io, shown, handled, exact, reach>>

\* start_orderbook_resync_loop starts one thread.
Started(pc) == IF pc = "off" THEN "sleep" ELSE pc

\* After the snapshot a detached thread gives up if the session is lost.
GiveUp(t) ==
    /\ fetch[t].pc = "after"
    /\ t \in Detached /\ ~connected
    /\ fetch' = [fetch EXCEPT ![t].pc = "off"]
    /\ UNCHANGED <<venue, count, up, stream, wire, connected, ready, want,
                   book, bbo, mutex, io, shown, handled, exact, reach>>

\* The list is stored whether or not it can be sent; the entry of the best
\* prices is made, under the mutex, only if it is.
subscribe_orderbook(t) ==
    /\ fetch[t].pc = "after"
    /\ t = Main \/ connected
    /\ want' = [want EXCEPT !.depth = TRUE]
    /\ \/ /\ up /\ mutex = Free
          /\ stream' = [stream EXCEPT !.depth = TRUE]
          /\ bbo' = [bbo EXCEPT !.known = TRUE]
          /\ fetch' = [fetch EXCEPT ![t].pc = "off",
                    ![ResyncThread].pc = Started(fetch[ResyncThread].pc)]
       \/ /\ ~up
          /\ fetch' = [fetch EXCEPT ![t].pc = "off"]
          /\ UNCHANGED <<stream, bbo>>
    /\ UNCHANGED <<venue, count, up, wire, connected, ready, book, mutex, io,
                   shown, handled, exact, reach>>

\* The loop skips a round while connected_ is false.
Resync ==
    /\ fetch[ResyncThread].pc = "sleep"
    /\ connected /\ want.depth
    /\ fetch' = [fetch EXCEPT ![ResyncThread].pc = "get"]
    /\ UNCHANGED <<venue, count, up, stream, wire, connected, ready, want,
                   book, bbo, mutex, io, shown, handled, exact, reach>>
-----------------------------------------------------------------------------
Fetcher(t) ==
    Get(t) \/ Apply(t) \/ Publish(t) \/ GiveUp(t) \/ subscribe_orderbook(t)

StrandRuns ==
    on_ws_connected \/ Resubscribe \/ DepthMessage \/ TickerMessage
                    \/ StrandStep

Next ==
    \/ VenueMoves \/ VenueTicks
    \/ Drop \/ Reconnect
    \/ StrandRuns
    \/ subscribe_ticker \/ Resync
    \/ \E t \in Threads : Fetcher(t)

Spec == Init /\ [][Next]_vars
-----------------------------------------------------------------------------
(* Properties.                                                             *)

\* Take a book filled from a snapshot that the venue took while it was
\* streaming the deltas of this session, none of the later ones having been
\* read before.  As soon as the deltas on the way are read it has no level
\* that the venue has not, and every level of the venue as far down as the
\* snapshot reached: however threads interleave, no delta is lost, applied
\* twice or applied to levels of another session, and what is missing is
\* only what count=depth cut off (parse_orderbookdepth_message,
\* fetch_all_orderbook_snapshots, on_ws_connected).
ExactOnceDrained ==
    exact /\ wire = <<>> =>
      /\ book.initialized
      /\ \A s \in Sides : /\ book.levels[s] \subseteq venue[s]
                          /\ venue[s] \cap reach[s] \subseteq book.levels[s]

\* The ticker that the engine got has the venue's best bid and ask.  With
\* one side empty make_bbo_ticker makes none.
Agrees == TwoSided(Quote(venue)) => shown = Quote(venue)
=============================================================================
