------------------------------ MODULE Recovery ------------------------------
(***************************************************************************)
(* Crashes and restarts: active_position.json, the blacklist of external   *)
(* positions and the recovery prompt of main, around lifecycle loops that  *)
(* are reduced to their order of orders, bookings and saves.               *)
(*                                                                         *)
(* The process may die between any two steps.  What survives is what the   *)
(* venues hold and the file.  At the next start main blacklists every      *)
(* symbol with a holding except the one the file names, offers the user    *)
(* the pairs of a spot balance and a short it finds at the venues, and the *)
(* file if its symbol is not among them, and resumes one of them.          *)
(*                                                                         *)
(* One unit is the quantity of one split.  Partial fills, corrections and  *)
(* the retried sell are those of RelayLifecycle; here an order fills or is *)
(* refused.  One Korean and one foreign venue, which answer the balance    *)
(* queries of the start; at most one loop per symbol.  External parts: the *)
(* venues and the user.                                                    *)
(***************************************************************************)
EXTENDS Integers, FiniteSets

CONSTANTS Symbols,
          Manual,         \* symbols the user may hold spot of, apart from the bot
          MaxPositions,   \* MAX_POSITIONS
          MaxHeld,        \* bound: splits of a full position
          MaxStops        \* bound: crashes, critical stops and failed saves

ASSUME RecoveryAssumption ==
    /\ IsFiniteSet(Symbols) /\ Manual \subseteq Symbols
    /\ {MaxPositions, MaxHeld, MaxStops} \subseteq Nat
    /\ {"none", "broken"} \cap Symbols = {}

VARIABLES
    spot, short,   \* what the venues hold: balance and borrowed quantity
    file,          \* active_position.json
    tmp,           \* active_position.json.tmp
    phase,         \* of the process: down, offer (recovery prompt), run
    running_,      \* OrderManager::running_
    blacklist,     \* external_position_blacklist_
    tracker,       \* symbols with a position in the PositionTracker
    launch,        \* the recovered position whose loop main has to launch
    loop,          \* the lifecycle loops
    stops,         \* history: crashes, critical stops and failed saves
    apart          \* history: symbols resumed from a file that says
                   \* more than the venues hold,
                   \* or that the file names and were not resumed

vars == <<spot, short, file, tmp, phase, running_, blacklist, tracker,
          launch, loop, stops, apart>>

Position == [symbol : Symbols, kr : Int, fr : Int]
None == [symbol |-> "none", kr |-> 0, fr |-> 0]
Broken == [symbol |-> "broken", kr |-> 0, fr |-> 0]   \* does not parse
Off == [pc |-> "off", held |-> 0]

Init ==
    /\ short = [s \in Symbols |-> 0]
    /\ spot \in {f \in [Symbols -> {0, MaxHeld}] :
                   \A s \in Symbols \ Manual : f[s] = 0}
    /\ file = None /\ tmp = None
    /\ phase = "down" /\ running_ = TRUE
    /\ blacklist = {} /\ tracker = {}
    /\ launch = None
    /\ loop = [s \in Symbols |-> Off]
    /\ stops = 0
    /\ apart = {}

TypeOK ==
    /\ spot \in [Symbols -> Nat] /\ short \in [Symbols -> Int]
    /\ file \in Position \cup {None, Broken}
    /\ phase \in {"down", "offer", "run"}
    /\ loop \in [Symbols -> [pc : {"off", "rest", "opened", "covered",
                                   "save", "rename"},
                             held : 0..MaxHeld]]

memory == <<tmp, phase, running_, blacklist, tracker, launch>>
venues == <<spot, short>>
-----------------------------------------------------------------------------
(* Start-up.                                                               *)

\* load_active_position: a file that does not parse counts as none.
Loaded == IF file = Broken THEN None ELSE file

get_balance(s) == spot[s]
\* A covered short, or a long balance, is none.
get_short_positions == {s \in Symbols : short[s] > 0}

\* mutant: only foreign liabilities are looked up.
External_short_only(managed) == get_short_positions \ {managed}

\* refresh_external_positions, which skips the symbol of the file.
External(managed) ==
    ({s \in Symbols : get_balance(s) > 0} \cup get_short_positions) \ {managed}

Boot ==
    /\ phase = "down"
    /\ phase' = "offer"
    /\ running_' = TRUE
    /\ blacklist' = External(Loaded.symbol)
    /\ tracker' = {}
    /\ launch' = None
    /\ UNCHANGED <<venues, file, tmp, loop, stops, apart>>

\* mutant: the short is resumed whatever the spot balance is.
Matched_short(s) == short[s]

\* The quantity that a live candidate is resumed with.
Matched(s) == IF spot[s] < short[s] THEN spot[s] ELSE short[s]

\* scan_foreign_shorts.
Live ==
    {[symbol |-> s, kr |-> Matched(s), fr |-> Matched(s)] :
        s \in {t \in get_short_positions : get_balance(t) > 0}}

\* The saved position is a candidate if no live one has its symbol.
Saved ==
    {p \in {Loaded} \ {None} : \A c \in Live : c.symbol # p.symbol}

\* The venues hold at least what the candidate stands for.
Held(c) == c.kr <= spot[c.symbol] /\ c.fr <= short[c.symbol]

\* The user resumes a candidate: it is put into the tracker and the file.
Resume(c) ==
    /\ phase = "offer"
    /\ phase' = "run"
    /\ tracker' = {c.symbol}
    /\ launch' = c
    /\ file' = c
    /\ apart' = apart \cup ({Loaded.symbol} \cap (Symbols \ {c.symbol}))
                      \cup (IF c \in Live \/ Held(c) THEN {} ELSE {c.symbol})
    /\ UNCHANGED <<venues, tmp, running_, blacklist, loop, stops>>

\* The user declines, or there is nothing to resume; the file is kept.
StartFresh ==
    /\ phase = "offer"
    /\ phase' = "run"
    /\ apart' = apart \cup ({Loaded.symbol} \cap Symbols)
    /\ UNCHANGED <<venues, file, tmp, running_, blacklist, tracker, launch,
                   loop, stops>>

\* try_claim_lifecycle_slot
SlotFree == Cardinality({s \in Symbols : loop[s].pc # "off"}) < MaxPositions

\* is_safe_to_trade, without the transfer route.
is_safe_to_trade(s) == s \notin blacklist

\* The loop of the recovered position, after engine.start(): a signal may
\* have taken the slot, and the loop itself refuses a blacklisted symbol
\* and legs that differ, and ends before its first split once running_ is
\* false.
Launch ==
    /\ phase = "run" /\ launch # None
    /\ launch' = None
    /\ LET p == launch
       IN  IF SlotFree /\ is_safe_to_trade(p.symbol) /\ p.kr = p.fr /\ running_
           THEN loop' = [loop EXCEPT ![p.symbol] =
                           [pc |-> "rest", held |-> p.kr]]
           ELSE UNCHANGED loop
    /\ UNCHANGED <<venues, file, tmp, phase, running_, blacklist, tracker,
                   stops, apart>>

\* A signal for a symbol without a position starts a loop.
Signal(s) ==
    /\ phase = "run" /\ running_
    /\ loop[s].pc = "off"
    /\ s \notin tracker
    /\ SlotFree /\ is_safe_to_trade(s)
    /\ loop' = [loop EXCEPT ![s] = [pc |-> "rest", held |-> 0]]
    /\ UNCHANGED <<venues, file, memory, stops, apart>>
-----------------------------------------------------------------------------
(* Splits: foreign leg, Korean leg, booking and save.                      *)

At(s, pc) == loop[s].pc = pc
Goto(s, pc, held) == [loop EXCEPT ![s].pc = pc, ![s].held = held]

\* open_short.
OpenShort(s) ==
    /\ At(s, "rest") /\ running_
    /\ loop[s].held < MaxHeld
    /\ short' = [short EXCEPT ![s] = @ + 1]
    /\ loop' = Goto(s, "opened", loop[s].held)
    /\ UNCHANGED <<spot, file, memory, stops, apart>>

\* The Korean buy fills, and the split is booked in memory.
Buy(s) ==
    /\ At(s, "opened")
    /\ spot' = [spot EXCEPT ![s] = @ + 1]
    /\ tracker' = tracker \cup {s}
    /\ loop' = Goto(s, "save", loop[s].held + 1)
    /\ UNCHANGED <<short, file, tmp, phase, running_, blacklist, launch,
                   stops, apart>>

\* The buy is refused and the short is closed again.
Rollback(s) ==
    /\ At(s, "opened")
    /\ short' = [short EXCEPT ![s] = @ - 1]
    /\ loop' = Goto(s, "rest", loop[s].held)
    /\ UNCHANGED <<spot, file, memory, stops, apart>>

\* close_short.
Cover(s) ==
    /\ At(s, "rest") /\ running_
    /\ loop[s].held > 0
    /\ short' = [short EXCEPT ![s] = @ - 1]
    /\ loop' = Goto(s, "covered", loop[s].held)
    /\ UNCHANGED <<spot, file, memory, stops, apart>>

\* The Korean sell; the venue refuses to sell what is not there.
Sell(s) ==
    /\ At(s, "covered")
    /\ spot[s] > 0
    /\ spot' = [spot EXCEPT ![s] = @ - 1]
    /\ loop' = Goto(s, "save", loop[s].held - 1)
    /\ UNCHANGED <<short, file, memory, stops, apart>>

\* trigger_critical_stop when the second order of a split and its repair
\* are refused: the snapshot has the two legs as they are.
CriticalStop(s) ==
    /\ stops < MaxStops
    /\ At(s, "opened") \/ At(s, "covered")
    /\ LET snap == [symbol |-> s, kr |-> loop[s].held,
                    fr |-> loop[s].held + (IF At(s, "opened") THEN 1 ELSE -1)]
       IN  file' = IF snap.kr > 0 \/ snap.fr > 0 THEN snap ELSE None
    /\ running_' = FALSE
    /\ loop' = [loop EXCEPT ![s] = Off]
    /\ stops' = stops + 1
    /\ UNCHANGED <<venues, tmp, phase, blacklist, tracker, launch, apart>>

Snapshot(s) == [symbol |-> s, kr |-> loop[s].held, fr |-> loop[s].held]

\* mutant: the file itself is truncated and written.
Truncated_file == [tmp |-> tmp, file |-> Broken]

\* save_active_position opens and writes the temporary file.
Truncated == [tmp |-> Broken, file |-> file]

Save(s) ==
    /\ At(s, "save") /\ loop[s].held > 0
    /\ tmp' = Truncated.tmp
    /\ file' = Truncated.file
    /\ loop' = Goto(s, "rename", loop[s].held)
    /\ UNCHANGED <<venues, phase, running_, blacklist, tracker, launch, stops,
                   apart>>

\* The temporary file is complete and renamed.
Rename(s) ==
    /\ At(s, "rename")
    /\ tmp' = None
    /\ file' = Snapshot(s)
    /\ loop' = Goto(s, "rest", loop[s].held)
    /\ UNCHANGED <<venues, phase, running_, blacklist, tracker, launch, stops,
                   apart>>

\* Fully exited: delete_active_position, and the loop goes on for re-entry.
Delete(s) ==
    /\ At(s, "save") /\ loop[s].held = 0
    /\ file' = None
    /\ tracker' = tracker \ {s}
    /\ loop' = [loop EXCEPT ![s] = [pc |-> "rest", held |-> 0]]
    /\ UNCHANGED <<venues, tmp, phase, running_, blacklist, launch, stops,
                   apart>>

\* An I/O error is logged: the file stays as it was and the loop goes on.
SaveFails(s) ==
    /\ stops < MaxStops
    /\ At(s, "save") \/ At(s, "rename")
    /\ tracker' = IF loop[s].held = 0 THEN tracker \ {s} ELSE tracker
    /\ loop' = Goto(s, "rest", loop[s].held)
    /\ stops' = stops + 1
    /\ UNCHANGED <<venues, file, tmp, phase, running_, blacklist, launch,
                   apart>>

\* The process dies, or is shut down and started again.
Crash ==
    /\ phase # "down"
    /\ stops < MaxStops \/ ~running_
    /\ phase' = "down"
    /\ stops' = IF running_ THEN stops + 1 ELSE stops
    /\ loop' = [s \in Symbols |-> Off]
    /\ launch' = None /\ tracker' = {} /\ blacklist' = {}
    /\ UNCHANGED <<venues, file, tmp, running_, apart>>
-----------------------------------------------------------------------------
Split(s) ==
    \/ OpenShort(s) \/ Buy(s) \/ Rollback(s) \/ Cover(s) \/ Sell(s)
    \/ CriticalStop(s) \/ Save(s) \/ Rename(s) \/ Delete(s) \/ SaveFails(s)

Next ==
    \/ Boot \/ StartFresh \/ Launch \/ Crash
    \/ \E c \in Live \cup Saved : Resume(c)
    \/ \E s \in Symbols : Signal(s) \/ Split(s)

Spec == Init /\ [][Next]_vars
-----------------------------------------------------------------------------
(* Properties.                                                             *)

Gap(a, b) == IF a < b THEN b - a ELSE a - b

\* However often the process dies, between two orders, between an order and
\* its booking or in the middle of a save, the file of the symbol that a
\* loop trades is never further from either leg at the venues than one split
\* per stop and the split under way; where it names no position of the
\* symbol the legs are that small (save_active_position renames a complete
\* file; on_position_update_ after each split).
FileTracksVenues ==
    \A s \in Symbols \ apart :
      loop[s].pc # "off" =>
        LET p == IF Loaded.symbol = s THEN Loaded ELSE None
        IN  /\ Gap(p.kr, spot[s]) <= stops + 1
            /\ Gap(p.fr, short[s]) <= stops + 1

\* A loop between two splits has no more in its book than each venue holds,
\* also when the book was recovered after a crash between two orders: it
\* never sells or covers more than there is.  (Not a book taken from a file
\* that the venues have overtaken: such a symbol is in apart.)
BookIsCovered ==
    \A s \in Symbols \ apart :
      loop[s].pc = "rest" =>
        loop[s].held <= spot[s] /\ loop[s].held <= short[s]

\* A loop knows of everything the venues hold of its symbol, up to one split
\* per stop: the blacklist and the recovery prompt together let no holding
\* from an earlier life, or of the user, be traded over.  (Unless the user
\* has declined to resume the symbol of the file, which is not blacklisted.)
NothingOverlooked ==
    \A s \in Symbols \ apart :
      loop[s].pc = "rest" =>
        spot[s] <= loop[s].held + stops /\ short[s] <= loop[s].held + stops
=============================================================================
