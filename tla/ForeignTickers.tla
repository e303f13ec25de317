--------------------------- MODULE ForeignTickers ---------------------------
(***************************************************************************)
(* The tickers of the Bybit and OKX adapters, which have the same          *)
(* structure: every message carries the best bid and ask of one symbol and *)
(* is dispatched as it came.  There is no snapshot and no resync thread:   *)
(* a symbol whose subscription is lost stays silent.                       *)
(*                                                                         *)
(* Symbols are subscribed in batches, with a pause between two of them, by *)
(* main and after each reconnection by the strand of the WebSocket; both   *)
(* may be under way at once, and the session may change between two        *)
(* batches.  One symbol stands for its batch.  Left out: the quantities    *)
(* and the last price, which is taken from the cache.  External parts: the *)
(* venue, which sends the quote of a symbol when it is subscribed and      *)
(* whenever it changes.                                                    *)
(***************************************************************************)
EXTENDS Naturals, Sequences

CONSTANTS Batches,
          MaxMoves,     \* bound: changes of the venue's quotes
          MaxFaults     \* bound: sessions lost

VARIABLES
    venue,       \* venue[b]: quote of b, 0 if a side of its book is empty
    count,       \* moves and faults so far
    up,          \* ws_client_->is_connected()
    stream,      \* batches the venue streams in this session
    wire,        \* messages of this session that the strand has not read
    connected,   \* connected_
    want,        \* subscribed_orderbooks_ is set
    thread,      \* main and the strand: place, and batches left to send
    shown        \* ticker_cache_: the last dispatched quote

vars == <<venue, count, up, stream, wire, connected, want, thread, shown>>

Threads == {"io", "main"}
Rest == [pc |-> "off", left |-> {}]

Init ==
    /\ venue = [b \in Batches |-> 1]
    /\ count = [moves |-> 0, faults |-> 0]
    /\ up = TRUE /\ connected = TRUE     \* main waits for the connection
    /\ stream = {} /\ wire = <<>>
    /\ want = FALSE
    /\ thread = [t \in Threads |->
                   IF t = "main" THEN [Rest EXCEPT !.pc = "store"] ELSE Rest]
    /\ shown = [b \in Batches |-> 0]

TypeOK ==
    /\ venue \in [Batches -> 0..2] /\ shown \in [Batches -> 0..2]
    /\ stream \subseteq Batches
    /\ \A t \in Threads :
         thread[t].pc \in {"off", "store", "check", "send", "opened"}
-----------------------------------------------------------------------------
(* The venue: external.                                                    *)

VenueMoves ==
    /\ count.moves < MaxMoves
    /\ count' = [count EXCEPT !.moves = @ + 1]
    /\ \E b \in Batches, q \in 0..2 :
         /\ q # venue[b]
         /\ venue' = [venue EXCEPT ![b] = q]
         /\ wire' = IF b \in stream
                    THEN Append(wire, [batch |-> b, quote |-> q]) ELSE wire
    /\ UNCHANGED <<up, stream, connected, want, thread, shown>>
-----------------------------------------------------------------------------
(* subscribe_orderbook, by main and by on_ws_connected.                    *)

\* mutant: the list is kept only if it can be sent.
Stored_if_connected == up

\* The list is stored first, whether or not it can be sent.
Stored == TRUE

StoreList(t) ==
    /\ thread[t].pc = "store"
    /\ want' = (want \/ Stored)
    /\ thread' = [thread EXCEPT ![t].pc = "check"]
    /\ UNCHANGED <<venue, count, up, stream, wire, connected, shown>>

CheckConnected(t) ==
    /\ thread[t].pc = "check"
    /\ thread' = [thread EXCEPT ![t] =
                    IF up THEN [pc |-> "send", left |-> Batches] ELSE Rest]
    /\ UNCHANGED <<venue, count, up, stream, wire, connected, want, shown>>

\* WebSocketClient::send drops the batch if there is no connection any more.
SendBatch(t) ==
    /\ thread[t].pc = "send"
    /\ \E b \in thread[t].left :
         /\ thread' = [thread EXCEPT ![t] =
                         IF @.left = {b} THEN Rest
                         ELSE [pc |-> "send", left |-> @.left \ {b}]]
         /\ stream' = IF up THEN stream \cup {b} ELSE stream
         /\ wire' = IF up THEN Append(wire, [batch |-> b, quote |-> venue[b]])
                    ELSE wire
    /\ UNCHANGED <<venue, count, up, connected, want, shown>>
-----------------------------------------------------------------------------
(* The session.  Its callbacks run on the strand.                          *)

\* A message with one side empty is not a ticker, for the fast parser and for
\* the full one that is tried after it.
parse_bbo_fast(m) == m.quote > 0
parse_ticker_message(m) == parse_bbo_fast(m)

on_ws_message ==
    /\ thread["io"].pc = "off" /\ up
    /\ wire # <<>> /\ wire' = Tail(wire)
    /\ LET m == Head(wire)
       IN  shown' = IF parse_ticker_message(m)
                    THEN [shown EXCEPT ![m.batch] = m.quote] ELSE shown
    /\ UNCHANGED <<venue, count, up, stream, connected, want, thread>>

\* A close calls on_ws_disconnected, another read error does not.
Drop ==
    /\ up /\ thread["io"].pc = "off"
    /\ count.faults < MaxFaults
    /\ count' = [count EXCEPT !.faults = @ + 1]
    /\ up' = FALSE /\ stream' = {} /\ wire' = <<>>
    /\ connected' \in {FALSE, connected}
    /\ UNCHANGED <<venue, want, thread, shown>>

\* state_ is Connected before the callback runs.
Reconnect ==
    /\ ~up /\ thread["io"].pc = "off"
    /\ up' = TRUE
    /\ thread' = [thread EXCEPT !["io"].pc = "opened"]
    /\ UNCHANGED <<venue, count, stream, wire, connected, want, shown>>

\* The list is copied; main has none for tickers on these venues.
on_ws_connected ==
    /\ thread["io"].pc = "opened"
    /\ connected' = TRUE
    /\ thread' = [thread EXCEPT !["io"].pc = IF want THEN "store" ELSE "off"]
    /\ UNCHANGED <<venue, count, up, stream, wire, want, shown>>
-----------------------------------------------------------------------------
Runs(t) == StoreList(t) \/ CheckConnected(t) \/ SendBatch(t)

StrandRuns == on_ws_connected \/ on_ws_message \/ Runs("io")

Next == VenueMoves \/ Drop \/ Reconnect \/ StrandRuns \/ Runs("main")

Spec == Init /\ [][Next]_vars
-----------------------------------------------------------------------------
(* Properties.                                                             *)

\* However main's subscription and a reconnection interleave, a session that
\* both are done with streams every symbol: the list is stored before the
\* connection is looked at, and the connection is up before the callback
\* looks at the list (subscribe_orderbook, on_ws_connected).
AllSubscribed ==
    /\ up /\ thread["io"].pc = "off" /\ thread["main"].pc = "off"
    => stream = Batches

\* The tickers that the engine got are the venue's quotes.
Agrees == \A b \in Batches : venue[b] > 0 => shown[b] = venue[b]
=============================================================================
