----------------------------- MODULE MarketData -----------------------------
(***************************************************************************)
(* The market data of the venues.  Their adapters share no state: a        *)
(* behaviour follows one of them, the others rest, so that the states of   *)
(* the adapters are added and not multiplied.                              *)
(***************************************************************************)
EXTENDS BithumbBook

CONSTANT Batches         \* subscription batches of Bybit and OKX

VARIABLES active,        \* the adapter that this behaviour follows
          uvenue, ucount, uup, ustream, uwire, uconnected, uwant, urunning,
          ubbo, uthread, ushown,
          fvenue, fcount, fup, fstream, fwire, fconnected, fwant, fthread,
          fshown

uvars == <<uvenue, ucount, uup, ustream, uwire, uconnected, uwant, urunning,
           ubbo, uthread, ushown>>
fvars == <<fvenue, fcount, fup, fstream, fwire, fconnected, fwant, fthread,
           fshown>>

Upbit == INSTANCE UpbitBook WITH
    venue <- uvenue, count <- ucount, up <- uup, stream <- ustream,
    wire <- uwire, connected <- uconnected, want <- uwant,
    running <- urunning, bbo <- ubbo, thread <- uthread, shown <- ushown

Foreign == INSTANCE ForeignTickers WITH
    MaxFaults <- MaxFaults + 1,
    venue <- fvenue, count <- fcount, up <- fup, stream <- fstream,
    wire <- fwire, connected <- fconnected, want <- fwant,
    thread <- fthread, shown <- fshown

allvars == <<active, vars, uvars, fvars>>

MarketInit ==
    /\ Init /\ Upbit!Init /\ Foreign!Init
    /\ active \in {"Bithumb", "Upbit", "Foreign"}

InBithumb(A) == active = "Bithumb" /\ A /\ UNCHANGED <<active, uvars, fvars>>
InUpbit(A) == active = "Upbit" /\ A /\ UNCHANGED <<active, vars, fvars>>
InForeign(A) == active = "Foreign" /\ A /\ UNCHANGED <<active, vars, uvars>>

MarketNext ==
    InBithumb(Next) \/ InUpbit(Upbit!Next) \/ InForeign(Foreign!Next)

OneOf(A, B, C) == InBithumb(A) \/ InUpbit(B) \/ InForeign(C)

\* Every thread runs on, and the WebSocket clients reconnect.  That the REST
\* request of a snapshot returns is assumed of the venue (RestClient).
MarketFairness ==
    /\ WF_allvars(OneOf(Reconnect, Upbit!Reconnect, Foreign!Reconnect))
    /\ WF_allvars(OneOf(StrandRuns, Upbit!StrandRuns, Foreign!StrandRuns))
    /\ WF_allvars(OneOf(subscribe_ticker \/ Fetcher(Main),
                        Upbit!subscribe_ticker \/ Upbit!Runs("main"),
                        Foreign!Runs("main")))
    /\ WF_allvars(OneOf(Resync \/ Fetcher(ResyncThread),
                        Upbit!Resync \/ Upbit!Runs("resync"), FALSE))
    /\ \A t \in Detached : WF_allvars(InBithumb(Fetcher(t)))

MarketSpec == MarketInit /\ [][MarketNext]_allvars /\ MarketFairness
-----------------------------------------------------------------------------
\* As far down as its snapshot reached, Bithumb's book is the venue's once
\* the deltas on the way are read: see ExactOnceDrained of BithumbBook
\* (parse_orderbookdepth_message).
BithumbExact == ExactOnceDrained

\* Upbit's best prices are zero between two sessions: see ZeroedWhileDown
\* of UpbitBook (on_ws_disconnected joins the resync thread).
UpbitZeroed == Upbit!ZeroedWhileDown

\* No symbol of Bybit and OKX is left without its stream: see AllSubscribed
\* of ForeignTickers (subscribe_orderbook races on_ws_connected).
ForeignSubscribed == Foreign!AllSubscribed

\* The ticker of the adapter settles on the venue's prices when the venue
\* is quiet and the session holds: lost deltas, a snapshot older than the
\* deltas it replaces, a torn pair of atomics, tickers dispatched in the
\* wrong order and books of an earlier session are all repaired by the
\* resync loops (start_orderbook_resync_loop) of the Korean adapters and by
\* the quotes that follow a subscription of the foreign ones.
TickerConverges ==
    <>[](CASE active = "Bithumb" -> Agrees
           [] active = "Upbit" -> Upbit!Agrees
           [] active = "Foreign" -> Foreign!Agrees)
=============================================================================
