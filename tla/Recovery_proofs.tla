--------------------------- MODULE Recovery_proofs ---------------------------
(***************************************************************************)
(* Crashes and restarts, for any symbols, holdings of the user, number of  *)
(* stops and size of a position.  One invariant relates loops, venues, the *)
(* blacklist, the tracker and the file, whatever MAX_POSITIONS is; the     *)
(* file alone needs the one loop that the code's default allows.           *)
(***************************************************************************)
EXTENDS Recovery, FiniteSetTheorems, TLAPS

\* what is ever saved, and what is ever resumed
Saves == {p \in [symbol : Symbols, kr : Nat, fr : Nat] : p.kr > 0 \/ p.fr > 0}

Loops == [pc : {"off", "rest", "opened", "covered", "save", "rename"}, held : Nat]

On(s) == loop[s].pc # "off"

Types ==
  /\ spot \in [Symbols -> Nat] /\ short \in [Symbols -> Int]
  /\ file \in Saves \cup {None} /\ launch \in Saves \cup {None}
  /\ phase \in {"down", "offer", "run"} /\ running_ \in BOOLEAN
  /\ blacklist \subseteq Symbols /\ tracker \subseteq Symbols
  /\ apart \subseteq Symbols
  /\ loop \in [Symbols -> Loops] /\ stops \in Nat
  /\ \A s \in Symbols : At(s, "covered") \/ At(s, "rename") => loop[s].held > 0

\* loops run in phase "run" only; a critical stop has been counted
Phases ==
  /\ phase # "run" => launch = None /\ \A s \in Symbols : ~On(s)
  /\ phase = "offer" => running_
  /\ ~running_ => stops > 0

\* stops that the books of the loops may not have seen: the critical stop
\* that ended running_ is no loss of a loop that goes on
Slack == IF running_ THEN stops ELSE stops - 1

\* the short that belongs to the book, the order under way included
BookShort(pc, held) == IF pc = "opened" THEN held + 1
                       ELSE IF pc = "covered" THEN held - 1 ELSE held
ShortOf(s) == BookShort(loop[s].pc, loop[s].held)

\* a loop's book is covered by the venues, and nearly all they hold
Knows(s) ==
  /\ loop[s].held <= spot[s] /\ spot[s] <= loop[s].held + Slack
  /\ ShortOf(s) <= short[s] /\ short[s] <= ShortOf(s) + Slack

\* without a loop the legs of a position differ by what stops have cut off
Level(s) ==
  /\ short[s] >= 0
  /\ short[s] > 0 => spot[s] <= short[s] + stops /\ short[s] <= spot[s] + stops

Legs == \A s \in Symbols \ apart : IF On(s) THEN Knows(s) ELSE Level(s)

Empty(s) == spot[s] = 0 /\ short[s] = 0

\* what is neither blacklisted nor tracked is not held, unless the file names
\* it: then the recovery prompt decides about it
Unheld ==
  \A s \in Symbols \ (apart \cup blacklist) :
    /\ phase = "offer" => Empty(s) \/ file.symbol = s
    /\ phase = "run" /\ running_ /\ ~On(s) /\ s \notin tracker => Empty(s)

\* a file that outlives the prompt belongs to a tracked symbol or to a loop
FileOwned ==
  \A s \in Symbols \ apart :
    phase = "run" /\ running_ /\ ~On(s) /\ s \notin tracker => file.symbol # s

\* the recovered position is at the venues until main launches its loop
Waiting ==
  launch # None =>
    /\ launch.symbol \in tracker /\ ~On(launch.symbol)
    /\ launch.symbol \notin apart /\ launch.kr = launch.fr
         => /\ launch.kr = Matched(launch.symbol)
            /\ short[launch.symbol] > 0

RecInv == Types /\ Phases /\ Legs /\ Unheld /\ FileOwned /\ Waiting

-----------------------------------------------------------------------------
(* Steps of a loop.                                                        *)

\* A step of the loop of s leaves the other symbols alone, and what it does
\* to its own is right if its legs are.
LEMMA LoopStep ==
  ASSUME RecInv, NEW s \in Symbols, On(s), Types',
         UNCHANGED <<phase, blacklist, launch, apart>>,
         \A t \in Symbols : t # s => /\ spot'[t] = spot[t]
                                      /\ short'[t] = short[t]
                                      /\ loop'[t] = loop[t],
         \/ running_' = running_ /\ stops' \in {stops, stops + 1}
         \/ running_' = FALSE /\ stops' = stops + 1,
         \A t \in tracker : t # s => t \in tracker',
         \A t \in Symbols : t # s => (file'.symbol = t => file.symbol = t),
         s \notin apart => (IF On(s) THEN Knows(s) ELSE Level(s))',
         ~On(s)' => ~running_'
  PROVE  RecInv'
<1>1. phase = "run" /\ phase' = "run" /\ stops \in Nat /\ stops' \in Nat
  BY DEF RecInv, Phases, Types
<1>2. Phases'
  BY <1>1 DEF RecInv, Phases, Types
<1>3. /\ stops <= stops' /\ Slack <= Slack' /\ Slack \in Int /\ Slack' \in Int
      /\ running_' => running_
  <2>1. Slack = stops \/ (~running_ /\ Slack = stops - 1)
    BY Zenon DEF Slack
  <2>2. CASE running_' = running_ /\ stops' \in {stops, stops + 1}
    <3>1. running_' => running_
      BY <2>2, Zenon
    <3>2. \/ Slack = stops /\ Slack' = stops'
          \/ Slack = stops - 1 /\ Slack' = stops' - 1
      BY <2>2, Zenon DEF Slack
    <3> QED
      BY <1>1, <2>2, <3>1, <3>2
  <2>3. CASE running_' = FALSE /\ stops' = stops + 1
    <3>1. ~running_' /\ Slack' = stops' - 1
      BY <2>3, Zenon DEF Slack
    <3> QED
      BY <1>1, <2>1, <2>3, <3>1
  <2> QED
    BY <2>2, <2>3
<1>4. Legs'
  <2> SUFFICES ASSUME NEW t \in Symbols \ apart, t # s
               PROVE  (IF On(t) THEN Knows(t) ELSE Level(t))'
    BY DEF Legs
  <2>1. /\ spot[t] \in Nat /\ short[t] \in Int /\ loop[t].held \in Nat
        /\ ShortOf(t) \in Int
    BY DEF RecInv, Types, Loops, ShortOf, BookShort
  <2>2. ShortOf(t)' = ShortOf(t) /\ (On(t)' <=> On(t))
    BY DEF ShortOf, On
  <2>3. CASE On(t)
    BY <1>3, <2>1, <2>2, <2>3 DEF RecInv, Legs, Knows
  <2>4. CASE ~On(t)
    BY <1>1, <1>3, <2>1, <2>2, <2>4 DEF RecInv, Legs, Level
  <2> QED
    BY <2>3, <2>4
<1>5. Unheld' /\ FileOwned'
  <2> SUFFICES ASSUME NEW t \in Symbols \ apart, running_', ~On(t)', t \notin tracker'
               PROVE  file'.symbol # t /\ (t \notin blacklist => Empty(t)')
    BY <1>1 DEF Unheld, FileOwned
  <2>1. t # s
    OBVIOUS
  <2>2. running_ /\ ~On(t) /\ t \notin tracker
    BY <1>3, <2>1 DEF On
  <2>3. file.symbol # t /\ (t \notin blacklist => Empty(t))
    BY <1>1, <2>2 DEF RecInv, Unheld, FileOwned
  <2> QED
    BY <2>1, <2>3 DEF Empty
<1>6. Waiting'
  <2> SUFFICES ASSUME launch # None PROVE Waiting'
    BY DEF Waiting
  <2>1. /\ launch.symbol \in Symbols /\ launch.symbol \in tracker
        /\ ~On(launch.symbol)
    BY DEF RecInv, Waiting, Types
  <2>2. launch.symbol # s
    BY <2>1
  <2> QED
    BY <2>1, <2>2 DEF RecInv, Waiting, Matched, On
<1> QED
  BY <1>2, <1>4, <1>5, <1>6 DEF RecInv

\* the steps that go on in the loop
LEMMA SplitStep ==
  ASSUME RecInv, NEW s \in Symbols, On(s),
         NEW pc \in {"rest", "opened", "covered", "save", "rename"}, NEW h \in Nat,
         pc \in {"covered", "rename"} => h > 0, loop' = Goto(s, pc, h),
         spot' \in [Symbols -> Nat], short' \in [Symbols -> Int],
         \A t \in Symbols : t # s => spot'[t] = spot[t] /\ short'[t] = short[t],
         file' \in Saves \cup {None}, file'.symbol \in {file.symbol, s, "none"},
         tracker' \subseteq Symbols, \A t \in tracker : t # s => t \in tracker',
         UNCHANGED <<phase, running_, blacklist, launch, apart>>,
         stops' \in {stops, stops + 1},
         s \notin apart => /\ h <= spot'[s] /\ spot'[s] <= h + Slack
                          /\ BookShort(pc, h) <= short'[s]
                          /\ short'[s] <= BookShort(pc, h) + Slack
  PROVE  RecInv'
<1>1. loop \in [Symbols -> Loops] /\ stops \in Nat /\ running_ \in BOOLEAN
  BY DEF RecInv, Types
<1>2. /\ loop' \in [Symbols -> Loops] /\ loop'[s].pc = pc /\ loop'[s].held = h
      /\ \A t \in Symbols : t # s => loop'[t] = loop[t]
  BY <1>1, ZenonT(40) DEF Goto, Loops
<1>3. Types'
  <2>1. \A t \in Symbols :
          (At(t, "covered") \/ At(t, "rename"))' => loop'[t].held > 0
    BY <1>2 DEF RecInv, Types, At
  <2>2. stops' \in Nat
    BY <1>1
  <2> QED
    BY <1>2, <2>1, <2>2 DEF RecInv, Types
<1>4. On(s)'
  BY <1>2 DEF On
<1>5. Slack <= Slack' /\ Slack \in Int /\ Slack' \in Int
  <2>1. \/ Slack = stops /\ Slack' = stops'
        \/ Slack = stops - 1 /\ Slack' = stops' - 1
    BY Zenon DEF Slack
  <2> QED
    BY <1>1, <2>1
<1>6. s \notin apart => Knows(s)'
  <2>1. ShortOf(s)' = BookShort(pc, h) /\ BookShort(pc, h) \in Int
    BY <1>2 DEF ShortOf, BookShort
  <2>2. spot'[s] \in Int /\ short'[s] \in Int
    OBVIOUS
  <2> QED
    BY <1>2, <1>5, <2>1, <2>2 DEF Knows
<1>7. \A t \in Symbols : t # s => (file'.symbol = t => file.symbol = t)
  BY RecoveryAssumption
<1> QED
  BY <1>2, <1>3, <1>4, <1>6, <1>7, LoopStep

\* what a step of a running loop can rely on
LEMMA LoopFacts ==
  ASSUME RecInv, NEW s \in Symbols, On(s)
  PROVE  /\ spot \in [Symbols -> Nat] /\ short \in [Symbols -> Int]
         /\ file \in Saves \cup {None} /\ tracker \subseteq Symbols
         /\ loop[s].held \in Nat /\ spot[s] \in Nat /\ short[s] \in Int
         /\ Slack \in Nat /\ stops \in Nat
         /\ s \notin apart =>
              /\ loop[s].held <= spot[s] /\ spot[s] <= loop[s].held + Slack
              /\ BookShort(loop[s].pc, loop[s].held) <= short[s]
              /\ short[s] <= BookShort(loop[s].pc, loop[s].held) + Slack
<1>1. Slack \in Nat /\ stops \in Nat
  <2>1. stops \in Nat /\ (~running_ => stops > 0)
    BY DEF RecInv, Types, Phases
  <2>2. Slack = stops \/ (stops > 0 /\ Slack = stops - 1)
    BY <2>1, Zenon DEF Slack
  <2> QED
    BY <2>1, <2>2
<1>2. s \notin apart => Knows(s)
  BY DEF RecInv, Legs
<1> QED
  BY <1>1, <1>2 DEF RecInv, Types, Loops, Knows, ShortOf

LEMMA SplitInv ==
  ASSUME RecInv, NEW s \in Symbols, Split(s), ~CriticalStop(s) PROVE RecInv'
<1> DEFINE h == loop[s].held
<1>0. On(s)
  BY DEF Split, OpenShort, Buy, Rollback, Cover, Sell, CriticalStop, Save,
         Rename, Delete, SaveFails, At, On
<1>1. /\ spot \in [Symbols -> Nat] /\ short \in [Symbols -> Int]
      /\ file \in Saves \cup {None} /\ tracker \subseteq Symbols
      /\ h \in Nat /\ spot[s] \in Nat /\ short[s] \in Int
      /\ Slack \in Nat /\ stops \in Nat
      /\ s \notin apart =>
           /\ h <= spot[s] /\ spot[s] <= h + Slack
           /\ BookShort(loop[s].pc, h) <= short[s]
           /\ short[s] <= BookShort(loop[s].pc, h) + Slack
  BY <1>0, LoopFacts
<1> HIDE DEF h
<1>2. CASE OpenShort(s)
  <2>1. /\ loop[s].pc = "rest" /\ loop' = Goto(s, "opened", h)
        /\ short' = [short EXCEPT ![s] = short[s] + 1]
        /\ UNCHANGED <<spot, file, tracker, phase, running_, blacklist, launch,
                        apart, stops>>
    BY <1>2 DEF OpenShort, At, memory, h
  <2>2. /\ short' \in [Symbols -> Int] /\ short'[s] = short[s] + 1
        /\ \A t \in Symbols : t # s => short'[t] = short[t]
    BY <1>1, <2>1
  <2>3. s \notin apart => BookShort("opened", h) <= short'[s]
                        /\ short'[s] <= BookShort("opened", h) + Slack
    BY <1>1, <2>1, <2>2 DEF BookShort
  <2> QED
    BY <1>0, <1>1, <2>1, <2>2, <2>3, SplitStep
<1>3. CASE Buy(s)
  <2>1. /\ loop[s].pc = "opened" /\ loop' = Goto(s, "save", h + 1)
        /\ spot' = [spot EXCEPT ![s] = spot[s] + 1]
        /\ tracker' = tracker \cup {s}
        /\ UNCHANGED <<short, file, phase, running_, blacklist, launch,
                        apart, stops>>
    BY <1>3 DEF Buy, At, h
  <2>2. /\ spot' \in [Symbols -> Nat] /\ spot'[s] = spot[s] + 1
        /\ \A t \in Symbols : t # s => spot'[t] = spot[t]
    BY <1>1, <2>1
  <2>3. /\ s \notin apart => /\ h + 1 <= spot'[s] /\ spot'[s] <= h + 1 + Slack
                            /\ BookShort("save", h + 1) <= short'[s]
                            /\ short'[s] <= BookShort("save", h + 1) + Slack
        /\ h + 1 \in Nat
    BY <1>1, <2>1, <2>2 DEF BookShort
  <2> QED
    BY <1>0, <1>1, <2>1, <2>2, <2>3, SplitStep
<1>4. CASE Rollback(s)
  <2>1. /\ loop[s].pc = "opened" /\ loop' = Goto(s, "rest", h)
        /\ short' = [short EXCEPT ![s] = short[s] - 1]
        /\ UNCHANGED <<spot, file, tracker, phase, running_, blacklist, launch,
                        apart, stops>>
    BY <1>4 DEF Rollback, At, memory, h
  <2>2. /\ short' \in [Symbols -> Int] /\ short'[s] = short[s] - 1
        /\ \A t \in Symbols : t # s => short'[t] = short[t]
    BY <1>1, <2>1
  <2>3. s \notin apart => BookShort("rest", h) <= short'[s]
                        /\ short'[s] <= BookShort("rest", h) + Slack
    BY <1>1, <2>1, <2>2 DEF BookShort
  <2> QED
    BY <1>0, <1>1, <2>1, <2>2, <2>3, SplitStep
<1>5. CASE Cover(s)
  <2>1. /\ loop[s].pc = "rest" /\ h > 0 /\ loop' = Goto(s, "covered", h)
        /\ short' = [short EXCEPT ![s] = short[s] - 1]
        /\ UNCHANGED <<spot, file, tracker, phase, running_, blacklist, launch,
                        apart, stops>>
    BY <1>5 DEF Cover, At, memory, h
  <2>2. /\ short' \in [Symbols -> Int] /\ short'[s] = short[s] - 1
        /\ \A t \in Symbols : t # s => short'[t] = short[t]
    BY <1>1, <2>1
  <2>3. s \notin apart => BookShort("covered", h) <= short'[s]
                        /\ short'[s] <= BookShort("covered", h) + Slack
    BY <1>1, <2>1, <2>2 DEF BookShort
  <2> QED
    BY <1>0, <1>1, <2>1, <2>2, <2>3, SplitStep
<1>6. CASE Sell(s)
  <2>1. /\ loop[s].pc = "covered" /\ loop' = Goto(s, "save", h - 1)
        /\ spot[s] > 0 /\ spot' = [spot EXCEPT ![s] = spot[s] - 1]
        /\ UNCHANGED <<short, file, tracker, phase, running_, blacklist, launch,
                        apart, stops>>
    BY <1>6 DEF Sell, At, memory, h
  <2>2. /\ spot' \in [Symbols -> Nat] /\ spot'[s] = spot[s] - 1
        /\ \A t \in Symbols : t # s => spot'[t] = spot[t]
    BY <1>1, <2>1
  <2>3. h > 0
    BY <2>1 DEF RecInv, Types, At, h
  <2>4. /\ s \notin apart => /\ h - 1 <= spot'[s] /\ spot'[s] <= h - 1 + Slack
                            /\ BookShort("save", h - 1) <= short'[s]
                            /\ short'[s] <= BookShort("save", h - 1) + Slack
        /\ h - 1 \in Nat
    BY <1>1, <2>1, <2>2, <2>3 DEF BookShort
  <2> QED
    BY <1>0, <1>1, <2>1, <2>2, <2>4, SplitStep
<1>7. CASE Save(s)
  <2>1. /\ loop[s].pc = "save" /\ loop' = Goto(s, "rename", h) /\ file' = file /\ h > 0
        /\ UNCHANGED <<spot, short, tracker, phase, running_, blacklist, launch,
                        apart, stops>>
    BY <1>7 DEF Save, Truncated, At, venues, h
  <2>2. s \notin apart => BookShort("rename", h) <= short'[s]
                        /\ short'[s] <= BookShort("rename", h) + Slack
    BY <1>1, <2>1 DEF BookShort
  <2> QED
    BY <1>0, <1>1, <2>1, <2>2, SplitStep
<1>8. CASE Rename(s)
  <2>1. /\ loop[s].pc = "rename" /\ loop' = Goto(s, "rest", h)
        /\ file' = [symbol |-> s, kr |-> h, fr |-> h]
        /\ UNCHANGED <<spot, short, tracker, phase, running_, blacklist, launch,
                        apart, stops>>
    BY <1>8 DEF Rename, Snapshot, At, venues, h
  <2>2. h > 0
    BY <2>1 DEF RecInv, Types, At, h
  <2>3. file' \in Saves
    BY <1>1, <2>1, <2>2 DEF Saves
  <2>4. s \notin apart => BookShort("rest", h) <= short'[s]
                        /\ short'[s] <= BookShort("rest", h) + Slack
    BY <1>1, <2>1 DEF BookShort
  <2> QED
    BY <1>0, <1>1, <2>1, <2>3, <2>4, SplitStep
<1>9. CASE Delete(s)
  <2>1. /\ loop[s].pc = "save" /\ h = 0 /\ file' = None /\ tracker' = tracker \ {s}
        /\ UNCHANGED <<spot, short, phase, running_, blacklist, launch,
                        apart, stops>>
        /\ loop' = [loop EXCEPT ![s] = [pc |-> "rest", held |-> 0]]
    BY <1>9 DEF Delete, At, venues, h
  <2>2. loop' = Goto(s, "rest", h)
    BY <2>1 DEF Goto, RecInv, Types, Loops
  <2>3. s \notin apart => BookShort("rest", h) <= short'[s]
                        /\ short'[s] <= BookShort("rest", h) + Slack
    BY <1>1, <2>1 DEF BookShort
  <2> QED
    BY <1>0, <1>1, <2>1, <2>2, <2>3, SplitStep DEF None
<1>10. CASE SaveFails(s)
  <2>1. /\ loop[s].pc \in {"save", "rename"} /\ loop' = Goto(s, "rest", h)
        /\ tracker' \in {tracker, tracker \ {s}} /\ stops' = stops + 1
        /\ UNCHANGED <<spot, short, file, phase, running_, blacklist, launch,
                        apart>>
    BY <1>10 DEF SaveFails, At, venues, h
  <2>2. s \notin apart => BookShort("rest", h) <= short'[s]
                        /\ short'[s] <= BookShort("rest", h) + Slack
    BY <1>1, <2>1 DEF BookShort
  <2> QED
    BY <1>0, <1>1, <2>1, <2>2, SplitStep
<1> QED
  BY <1>2, <1>3, <1>4, <1>5, <1>6, <1>7, <1>8, <1>9, <1>10 DEF Split

\* a loop that is cut off leaves legs that one more stop explains
LEMMA CutOff ==
  ASSUME RecInv, NEW s \in Symbols \ apart, On(s)
  PROVE  /\ short[s] >= 0
         /\ spot[s] <= short[s] + Slack + 1 /\ short[s] <= spot[s] + Slack + 1
<1>1. /\ loop[s].held \in Nat /\ spot[s] \in Nat /\ short[s] \in Int /\ Slack \in Nat
      /\ loop[s].held <= spot[s] /\ spot[s] <= loop[s].held + Slack
      /\ BookShort(loop[s].pc, loop[s].held) <= short[s]
      /\ short[s] <= BookShort(loop[s].pc, loop[s].held) + Slack
  BY LoopFacts
<1>2. loop[s].pc = "covered" => loop[s].held > 0
  BY DEF RecInv, Types, At
<1> QED
  BY <1>1, <1>2 DEF BookShort

LEMMA CriticalStopInv ==
  ASSUME RecInv, NEW s \in Symbols, CriticalStop(s) PROVE RecInv'
<1> DEFINE fr == loop[s].held + (IF At(s, "opened") THEN 1 ELSE -1)
           snap == [symbol |-> s, kr |-> loop[s].held, fr |-> fr]
<1>1. On(s) /\ (loop[s].pc = "opened" \/ loop[s].pc = "covered")
  BY DEF CriticalStop, At, On
<1>2. /\ loop' = [loop EXCEPT ![s] = Off] /\ running_' = FALSE /\ stops' = stops + 1
      /\ file' = IF snap.kr > 0 \/ snap.fr > 0 THEN snap ELSE None
      /\ UNCHANGED <<spot, short, phase, blacklist, tracker, launch, apart>>
  BY DEF CriticalStop, venues
<1>3. loop[s].held \in Nat /\ fr \in Nat /\ stops \in Nat
  BY <1>1 DEF RecInv, Types, Loops, At
<1>4. file' \in Saves \cup {None} /\ file'.symbol \in {s, "none"}
  <2>1. snap.kr \in Nat /\ snap.fr \in Nat /\ snap.symbol = s
    BY <1>3
  <2>2. CASE snap.kr > 0 \/ snap.fr > 0
    BY <1>2, <1>3, <2>1, <2>2 DEF Saves
  <2>3. CASE ~(snap.kr > 0 \/ snap.fr > 0)
    BY <1>2, <2>3 DEF None
  <2> QED
    BY <2>2, <2>3
<1> HIDE DEF fr, snap
<1>5. /\ loop' \in [Symbols -> Loops] /\ ~On(s)' /\ loop'[s].pc = "off"
      /\ \A t \in Symbols : t # s => loop'[t] = loop[t]
  BY <1>2 DEF RecInv, Types, Loops, Off, On
<1>6. Types'
  <2>1. \A t \in Symbols :
          (At(t, "covered") \/ At(t, "rename"))' => loop'[t].held > 0
    BY <1>5 DEF RecInv, Types, At
  <2>2. stops' \in Nat
    BY <1>2, <1>3
  <2>3. running_' \in BOOLEAN
    BY <1>2, Zenon
  <2> QED
    BY <1>2, <1>4, <1>5, <2>1, <2>2, <2>3 DEF RecInv, Types
<1>7. s \notin apart => Level(s)'
  <2> SUFFICES ASSUME s \notin apart PROVE Level(s)'
    OBVIOUS
  <2>1. /\ spot[s] \in Nat /\ short[s] \in Int /\ Slack \in Int /\ Slack <= stops
        /\ short[s] >= 0
        /\ spot[s] <= short[s] + Slack + 1 /\ short[s] <= spot[s] + Slack + 1
    <3>1. Slack = stops \/ Slack = stops - 1
      BY Zenon DEF Slack
    <3>2. Slack \in Int /\ Slack <= stops
      BY <1>3, <3>1
    <3> QED
      BY <1>1, <3>2, CutOff DEF RecInv, Types
  <2> QED
    BY <1>2, <1>3, <2>1 DEF Level
<1>8. \A t \in Symbols : t # s => (file'.symbol = t => file.symbol = t)
  BY <1>4, RecoveryAssumption
<1>9. ~running_' /\ (s \notin apart => (IF On(s) THEN Knows(s) ELSE Level(s))')
  BY <1>2, <1>5, <1>7, Zenon
<1> QED
  BY <1>1, <1>2, <1>5, <1>6, <1>8, <1>9, LoopStep

-----------------------------------------------------------------------------
(* Start-up, signals and crashes.                                          *)

LEMMA LoadedIsFile ==
  ASSUME Types
  PROVE  Loaded = file /\ (file # None => file \in Saves)
<1>1. file # Broken
  BY RecoveryAssumption DEF Types, Saves, None, Broken
<1> QED
  BY <1>1 DEF Loaded, Types

LEMMA BootInv == ASSUME RecInv, Boot PROVE RecInv'
<1>1. /\ phase = "down" /\ phase' = "offer" /\ running_' = TRUE
      /\ blacklist' = External(file.symbol) /\ tracker' = {} /\ launch' = None
      /\ UNCHANGED <<spot, short, file, loop, stops, apart>>
  BY LoadedIsFile DEF RecInv, Boot, venues
<1>2. \A s \in Symbols : ~On(s) /\ ~On(s)'
  BY <1>1 DEF RecInv, Phases, On
<1>3. Types'
  <2>1. running_' \in BOOLEAN
    BY <1>1, Zenon
  <2>2. blacklist' \subseteq Symbols
    BY <1>1 DEF External, get_short_positions
  <2> QED
    BY <1>1, <2>1, <2>2 DEF RecInv, Types, At
<1>4. Phases'
  BY <1>1, <1>2 DEF Phases
<1>5. Legs'
  BY <1>1, <1>2 DEF RecInv, Legs, Level
<1>6. Unheld'
  <2> SUFFICES ASSUME NEW s \in Symbols \ apart, s \notin blacklist', file.symbol # s
               PROVE  Empty(s)'
    BY <1>1 DEF Unheld
  <2>1. ~(spot[s] > 0) /\ ~(short[s] > 0)
    BY <1>1 DEF External, get_short_positions, get_balance
  <2>2. short[s] >= 0
    BY <1>2 DEF RecInv, Legs, Level
  <2> QED
    BY <1>1, <2>1, <2>2 DEF RecInv, Types, Empty
<1>7. FileOwned' /\ Waiting'
  BY <1>1 DEF FileOwned, Waiting
<1> QED
  BY <1>3, <1>4, <1>5, <1>6, <1>7 DEF RecInv

\* a candidate of the prompt that the venues hold and whose legs are equal is
\* one that was found at the venues
LEMMA Candidate ==
  ASSUME RecInv, NEW c \in Live \cup Saved
  PROVE  /\ c \in Saves
         /\ (c \in Live \/ Held(c)) /\ c.kr = c.fr
              => c.kr = Matched(c.symbol) /\ short[c.symbol] > 0
<1>0. spot \in [Symbols -> Nat] /\ short \in [Symbols -> Int] /\ Types
  BY DEF RecInv, Types
<1>1. CASE c \in Live
  <2>1. PICK s \in Symbols :
          /\ short[s] > 0 /\ spot[s] > 0
          /\ c = [symbol |-> s, kr |-> Matched(s), fr |-> Matched(s)]
    BY <1>1 DEF Live, get_short_positions, get_balance
  <2>2. Matched(s) \in Nat /\ Matched(s) > 0
    BY <1>0, <2>1 DEF Matched
  <2>3. c.symbol = s /\ c.kr = Matched(s) /\ c.fr = Matched(s)
    BY <2>1
  <2> QED
    BY <2>1, <2>2, <2>3 DEF Saves
<1>2. CASE c \notin Live
  <2>1. c = file /\ c \in Saves /\ \A d \in Live : d.symbol # c.symbol
    BY <1>0, <1>2, LoadedIsFile DEF Saved
  <2>2. c.symbol \in Symbols /\ c.kr \in Nat /\ c.fr \in Nat /\ (c.kr > 0 \/ c.fr > 0)
    BY <2>1 DEF Saves
  <2>3. ~(short[c.symbol] > 0 /\ spot[c.symbol] > 0)
    <3> SUFFICES ASSUME short[c.symbol] > 0, spot[c.symbol] > 0 PROVE FALSE
      OBVIOUS
    <3> DEFINE d == [symbol |-> c.symbol, kr |-> Matched(c.symbol),
                     fr |-> Matched(c.symbol)]
    <3>1. d \in Live
      BY <2>2 DEF Live, get_short_positions, get_balance
    <3> QED
      BY <2>1, <3>1
  <2>4. ~(Held(c) /\ c.kr = c.fr)
    BY <1>0, <2>2, <2>3 DEF Held
  <2> QED
    BY <1>2, <2>1, <2>4
<1> QED
  BY <1>1, <1>2

LEMMA ResumeInv ==
  ASSUME RecInv, NEW c \in Live \cup Saved, Resume(c) PROVE RecInv'
<1>1. /\ phase = "offer" /\ phase' = "run" /\ tracker' = {c.symbol} /\ launch' = c
      /\ file' = c /\ UNCHANGED <<spot, short, running_, blacklist, loop, stops>>
      /\ apart' = apart \cup ({file.symbol} \cap (Symbols \ {c.symbol}))
                        \cup (IF c \in Live \/ Held(c) THEN {} ELSE {c.symbol})
  BY LoadedIsFile DEF RecInv, Resume, venues
<1>2. \A s \in Symbols : ~On(s) /\ ~On(s)'
  BY <1>1 DEF RecInv, Phases, On
<1>3. /\ c \in Saves /\ c.symbol \in Symbols
      /\ (c \in Live \/ Held(c)) /\ c.kr = c.fr
           => c.kr = Matched(c.symbol) /\ short[c.symbol] > 0
  BY Candidate DEF Saves
<1>4. apart \subseteq apart' /\ apart' \subseteq Symbols
  BY <1>1, <1>3 DEF RecInv, Types
<1>5. Types'
  BY <1>1, <1>3, <1>4 DEF RecInv, Types, At
<1>6. Phases'
  BY <1>1 DEF RecInv, Phases
<1>7. Legs'
  BY <1>1, <1>2, <1>4 DEF RecInv, Legs, Level
<1>8. Unheld' /\ FileOwned'
  <2> SUFFICES ASSUME NEW s \in Symbols \ apart', s # c.symbol
               PROVE  s \notin blacklist => Empty(s)'
    BY <1>1 DEF Unheld, FileOwned
  <2>1. file.symbol # s
    BY <1>1
  <2> QED
    BY <1>1, <1>4, <2>1 DEF RecInv, Unheld, Empty
<1>9. Waiting'
  <2>1. c.symbol \notin apart' => c \in Live \/ Held(c)
    BY <1>1
  <2> QED
    BY <1>1, <1>2, <1>3, <2>1 DEF Waiting, Matched
<1> QED
  BY <1>5, <1>6, <1>7, <1>8, <1>9 DEF RecInv

LEMMA StartFreshInv == ASSUME RecInv, StartFresh PROVE RecInv'
<1>1. /\ phase = "offer" /\ phase' = "run"
      /\ apart' = apart \cup ({file.symbol} \cap Symbols)
      /\ UNCHANGED <<spot, short, file, running_, blacklist, tracker, launch, loop, stops>>
  BY LoadedIsFile DEF RecInv, StartFresh, venues
<1>2. /\ \A s \in Symbols : ~On(s) /\ ~On(s)'
      /\ launch' = None
  BY <1>1 DEF RecInv, Phases, On
<1>3. Types' /\ Phases'
  BY <1>1, <1>2 DEF RecInv, Types, Phases, At
<1>4. Legs'
  BY <1>1, <1>2 DEF RecInv, Legs, Level
<1>5. Unheld' /\ FileOwned'
  BY <1>1 DEF RecInv, Unheld, FileOwned, Empty
<1>6. Waiting'
  BY <1>2 DEF Waiting
<1> QED
  BY <1>3, <1>4, <1>5, <1>6 DEF RecInv

\* A loop begins with a book that the venues bear out.
LEMMA BeginInv ==
  ASSUME RecInv, phase = "run", running_, NEW s \in Symbols, ~On(s),
         NEW h \in Nat, loop' = [loop EXCEPT ![s] = [pc |-> "rest", held |-> h]],
         s \notin apart => /\ h <= spot[s] /\ spot[s] <= h + stops
                          /\ h <= short[s] /\ short[s] <= h + stops,
         launch' = None \/ (launch' = launch /\ launch.symbol # s),
         UNCHANGED <<spot, short, file, phase, running_, blacklist, tracker,
                     stops, apart>>
  PROVE  RecInv'
<1>1. /\ loop' \in [Symbols -> Loops] /\ On(s)'
      /\ loop'[s].pc = "rest" /\ loop'[s].held = h
      /\ \A t \in Symbols : t # s => loop'[t] = loop[t]
  BY DEF RecInv, Types, Loops, On
<1>2. Types'
  <2>1. \A t \in Symbols :
          (At(t, "covered") \/ At(t, "rename"))' => loop'[t].held > 0
    BY <1>1 DEF RecInv, Types, At
  <2> QED
    BY <1>1, <2>1 DEF RecInv, Types
<1>3. Phases'
  BY DEF RecInv, Phases
<1>4. Legs'
  <2> SUFFICES ASSUME NEW t \in Symbols \ apart
               PROVE  (IF On(t) THEN Knows(t) ELSE Level(t))'
    BY DEF Legs
  <2>1. Slack = stops /\ Slack' = stops
    BY Zenon DEF Slack
  <2>2. CASE t = s
    <3>1. ShortOf(s)' = h
      BY <1>1 DEF ShortOf, BookShort
    <3> QED
      BY <1>1, <2>1, <2>2, <3>1 DEF Knows
  <2>3. CASE t # s
    <3>1. ShortOf(t)' = ShortOf(t) /\ (On(t)' <=> On(t)) /\ loop'[t] = loop[t]
      BY <1>1, <2>3 DEF ShortOf, On
    <3> QED
      BY <2>1, <3>1 DEF RecInv, Legs, Knows, Level
  <2> QED
    BY <2>2, <2>3
<1>5. Unheld' /\ FileOwned'
  BY <1>1 DEF RecInv, Unheld, FileOwned, Empty, On
<1>6. Waiting'
  <2>1. CASE launch' = None
    BY <2>1 DEF Waiting
  <2>2. CASE launch' = launch /\ launch.symbol # s /\ launch # None
    <3>1. launch.symbol \in Symbols
      BY <2>2 DEF RecInv, Types, Saves
    <3> QED
      BY <1>1, <2>2, <3>1 DEF RecInv, Waiting, Matched, On
  <2> QED
    BY <2>1, <2>2
<1> QED
  BY <1>2, <1>3, <1>4, <1>5, <1>6 DEF RecInv

LEMMA LaunchInv == ASSUME RecInv, Launch PROVE RecInv'
<1>1. /\ phase = "run" /\ launch # None /\ launch' = None
      /\ UNCHANGED <<spot, short, file, phase, running_, blacklist, tracker,
                      stops, apart>>
  BY DEF Launch, venues
<1>2. CASE loop' = loop
  BY <1>1, <1>2 DEF RecInv, Types, Phases, Legs, Unheld, FileOwned, Waiting,
                    On, At, Knows, Level, ShortOf, Slack, Empty
<1>3. CASE /\ running_ /\ launch.kr = launch.fr
           /\ loop' = [loop EXCEPT ![launch.symbol] =
                         [pc |-> "rest", held |-> launch.kr]]
  <2>1. launch \in Saves /\ launch.symbol \in Symbols /\ launch.kr \in Nat
    BY <1>1 DEF RecInv, Types, Saves
  <2>2. ~On(launch.symbol)
    BY <1>1 DEF RecInv, Waiting
  <2>3. ASSUME launch.symbol \notin apart
        PROVE  /\ launch.kr <= spot[launch.symbol]
               /\ spot[launch.symbol] <= launch.kr + stops
               /\ launch.kr <= short[launch.symbol]
               /\ short[launch.symbol] <= launch.kr + stops
    <3> DEFINE s == launch.symbol
    <3>1. launch.kr = Matched(s) /\ short[s] > 0
      BY <1>1, <1>3, <2>3 DEF RecInv, Waiting
    <3>2. spot[s] <= short[s] + stops /\ short[s] <= spot[s] + stops
      BY <2>1, <2>2, <2>3, <3>1 DEF RecInv, Legs, Level
    <3>3. spot[s] \in Nat /\ short[s] \in Int /\ stops \in Nat
      BY <2>1 DEF RecInv, Types
    <3> QED
      BY <3>1, <3>2, <3>3 DEF Matched
  <2> QED
    BY <1>1, <1>3, <2>1, <2>2, <2>3, BeginInv
<1> QED
  BY <1>2, <1>3 DEF Launch

LEMMA SignalInv == ASSUME RecInv, NEW s \in Symbols, Signal(s) PROVE RecInv'
<1>1. /\ phase = "run" /\ running_ /\ ~On(s) /\ s \notin tracker /\ s \notin blacklist
      /\ loop' = [loop EXCEPT ![s] = [pc |-> "rest", held |-> 0]]
      /\ UNCHANGED <<spot, short, file, phase, running_, blacklist, tracker,
                      launch, stops, apart>>
  BY DEF Signal, is_safe_to_trade, On, venues, memory
<1>2. s \notin apart => spot[s] = 0 /\ short[s] = 0
  BY <1>1 DEF RecInv, Unheld, Empty
<1>3. stops \in Nat
  BY DEF RecInv, Types
<1>4. launch' = None \/ (launch' = launch /\ launch.symbol # s)
  BY <1>1 DEF RecInv, Waiting
<1>5. s \notin apart => /\ 0 <= spot[s] /\ spot[s] <= 0 + stops
                       /\ 0 <= short[s] /\ short[s] <= 0 + stops
  BY <1>2, <1>3
<1> QED
  BY <1>1, <1>4, <1>5, BeginInv

LEMMA CrashInv == ASSUME RecInv, Crash PROVE RecInv'
<1>1. /\ phase' = "down" /\ stops' = (IF running_ THEN stops + 1 ELSE stops)
      /\ loop' = [s \in Symbols |-> Off] /\ launch' = None
      /\ tracker' = {} /\ blacklist' = {}
      /\ UNCHANGED <<spot, short, file, running_, apart>>
  BY DEF Crash, venues
<1>2. /\ loop' \in [Symbols -> Loops]
      /\ \A s \in Symbols : ~On(s)' /\ loop'[s].pc = "off"
  BY <1>1 DEF Loops, Off, On
<1>3. stops \in Nat /\ Slack + 1 = stops' /\ stops <= stops' /\ stops' \in Nat
  <2>1. stops \in Nat
    BY DEF RecInv, Types
  <2>2. \/ Slack = stops /\ stops' = stops + 1
        \/ Slack = stops - 1 /\ stops' = stops
    BY <1>1, Zenon DEF Slack
  <2> QED
    BY <2>1, <2>2
<1>4. Types'
  BY <1>1, <1>2, <1>3 DEF RecInv, Types, At
<1>5. Phases'
  BY <1>1, <1>2, <1>3 DEF RecInv, Phases
<1>6. Legs'
  <2> SUFFICES ASSUME NEW s \in Symbols \ apart PROVE Level(s)'
    BY <1>1, <1>2 DEF Legs
  <2>1. spot[s] \in Nat /\ short[s] \in Int /\ Slack \in Int
    <3>1. Slack = stops \/ Slack = stops - 1
      BY Zenon DEF Slack
    <3> QED
      BY <1>3, <3>1 DEF RecInv, Types
  <2>2. CASE On(s)
    <3>1. /\ short[s] >= 0
          /\ spot[s] <= short[s] + Slack + 1 /\ short[s] <= spot[s] + Slack + 1
      BY <2>2, CutOff
    <3> QED
      BY <1>1, <1>3, <2>1, <3>1 DEF Level
  <2>3. CASE ~On(s)
    <3>1. Level(s)
      BY <2>3 DEF RecInv, Legs
    <3> QED
      BY <1>1, <1>3, <2>1, <3>1 DEF Level
  <2> QED
    BY <2>2, <2>3
<1>7. Unheld' /\ FileOwned' /\ Waiting'
  BY <1>1 DEF Unheld, FileOwned, Waiting
<1> QED
  BY <1>4, <1>5, <1>6, <1>7 DEF RecInv

LEMMA InitRec == Init => RecInv
<1> SUFFICES ASSUME Init PROVE RecInv
  OBVIOUS
<1>1. Types
  <2>1. spot \in [Symbols -> Nat] /\ short \in [Symbols -> Int] /\ stops \in Nat
    BY RecoveryAssumption DEF Init
  <2>2. running_ \in BOOLEAN
    BY Zenon DEF Init
  <2>3. loop \in [Symbols -> Loops] /\ \A s \in Symbols : loop[s].pc = "off"
    BY DEF Init, Off, Loops
  <2> QED
    BY <2>1, <2>2, <2>3 DEF Init, Types, At
<1>2. /\ \A s \in Symbols : ~On(s) /\ short[s] = 0
      /\ phase = "down" /\ launch = None
  BY DEF Init, On, Off
<1>3. running_
  BY Zenon DEF Init
<1> QED
  BY <1>1, <1>2, <1>3 DEF RecInv, Phases, Legs, Level, Unheld, FileOwned, Waiting

LEMMA StepRec == RecInv /\ [Next]_vars => RecInv'
<1> SUFFICES ASSUME RecInv, [Next]_vars PROVE RecInv'
  OBVIOUS
<1>1. CASE UNCHANGED vars
  BY <1>1 DEF vars, RecInv, Types, Phases, Legs, Unheld, FileOwned, Waiting,
              On, At, Knows, Level, ShortOf, Slack, Empty, Matched
<1>2. ASSUME NEW s \in Symbols, Split(s) PROVE RecInv'
  BY <1>2, SplitInv, CriticalStopInv
<1>3. CASE Next
  BY <1>2, <1>3, BootInv, StartFreshInv, LaunchInv, CrashInv, ResumeInv, SignalInv
  DEF Next
<1> QED
  BY <1>1, <1>3

\* A loop between two splits never has more in its book than the venues hold,
\* however often the process died before (Launch, Resume, Crash).
THEOREM BooksAreCovered == Spec => []BookIsCovered
<1>1. RecInv => BookIsCovered
  <2> SUFFICES ASSUME RecInv, NEW s \in Symbols \ apart, loop[s].pc = "rest"
               PROVE  loop[s].held <= spot[s] /\ loop[s].held <= short[s]
    BY DEF BookIsCovered
  <2> QED
    BY DEF RecInv, Legs, On, Knows, ShortOf, BookShort
<1> QED
  BY <1>1, InitRec, StepRec, PTL DEF Spec

\* The blacklist and the recovery prompt let no holding be traded over: what a
\* loop does not know of its symbol is at most one split per stop.
THEOREM NothingIsOverlooked == Spec => []NothingOverlooked
<1>1. RecInv => NothingOverlooked
  <2> SUFFICES ASSUME RecInv, NEW s \in Symbols \ apart, loop[s].pc = "rest"
               PROVE  /\ spot[s] <= loop[s].held + stops
                      /\ short[s] <= loop[s].held + stops
    BY DEF NothingOverlooked
  <2>1. On(s) /\ Knows(s) /\ ShortOf(s) = loop[s].held
    BY DEF RecInv, Legs, On, ShortOf, BookShort
  <2>2. /\ spot[s] \in Nat /\ short[s] \in Int /\ loop[s].held \in Nat
        /\ stops \in Nat
    BY DEF RecInv, Types, Loops
  <2>3. Slack = stops \/ Slack = stops - 1
    BY Zenon DEF Slack
  <2> QED
    BY <2>1, <2>2, <2>3 DEF Knows
<1> QED
  BY <1>1, InitRec, StepRec, PTL DEF Spec

-----------------------------------------------------------------------------
(* The file, with one loop at a time.                                      *)

OneLoop == \A s, t \in Symbols : On(s) /\ On(t) => s = t

\* nobody but a loop writes the file, so it still is the recovered position
FileWaits ==
  launch # None /\ running_ /\ (\A s \in Symbols : ~On(s)) => file = launch

KrOf(s) == IF file.symbol = s THEN file.kr ELSE 0
FrOf(s) == IF file.symbol = s THEN file.fr ELSE 0

\* bookings the file may be behind: those lost to stops, and one to be saved
Stale(s) == IF loop[s].pc \in {"save", "rename"} THEN stops + 1 ELSE stops

\* the short without the order under way
Booked(s) == short[s] + loop[s].held - ShortOf(s)

Within(a, b, d) == a <= b + d /\ b <= a + d

FileNear ==
  \A s \in Symbols \ apart :
    On(s) => /\ Within(KrOf(s), spot[s], Stale(s))
             /\ Within(FrOf(s), Booked(s), Stale(s))

FileInv == RecInv /\ OneLoop /\ FileWaits /\ FileNear

\* a file that has just been written, or a loop that has just begun
LEMMA FileExact ==
  ASSUME RecInv', NEW s \in Symbols, s \notin apart', loop'[s].pc = "rest",
         KrOf(s)' = loop'[s].held, FrOf(s)' = loop'[s].held
  PROVE  /\ Within(KrOf(s), spot[s], Stale(s))'
         /\ Within(FrOf(s), Booked(s), Stale(s))'
<1>1. /\ Knows(s)' /\ ShortOf(s)' = loop'[s].held /\ Stale(s)' = stops'
  BY DEF RecInv, Legs, On, ShortOf, BookShort, Stale
<1>2. /\ spot'[s] \in Nat /\ short'[s] \in Int /\ loop'[s].held \in Nat
      /\ stops' \in Nat
  BY DEF RecInv, Types, Loops
<1>3. Slack' = stops' \/ Slack' = stops' - 1
  BY Zenon DEF Slack
<1>4. Booked(s)' = short'[s]
  BY <1>1, <1>2 DEF Booked
<1> QED
  BY <1>1, <1>2, <1>3, <1>4 DEF Knows, Within

\* a step of the only loop, whose file is as near as it has to be
LEMMA OnlyLoop ==
  ASSUME FileInv, RecInv', NEW s \in Symbols, On(s), On(s)', apart' = apart,
         \A t \in Symbols : t # s => loop'[t] = loop[t],
         s \notin apart => /\ Within(KrOf(s), spot[s], Stale(s))'
                          /\ Within(FrOf(s), Booked(s), Stale(s))'
  PROVE  FileInv'
<1>1. \A t \in Symbols : On(t)' => t = s
  BY DEF FileInv, OneLoop, On
<1> QED
  BY <1>1 DEF FileInv, OneLoop, FileWaits, FileNear

LEMMA NoLoop ==
  ASSUME SlotFree, MaxPositions = 1
  PROVE  \A s \in Symbols : ~On(s)
<1> DEFINE S == {s \in Symbols : loop[s].pc # "off"}
<1>1. IsFiniteSet(S)
  BY FS_Subset, RecoveryAssumption
<1>2. Cardinality(S) \in Nat /\ Cardinality(S) < 1
  BY <1>1, FS_CardinalityType DEF SlotFree
<1>3. S = {}
  BY <1>1, <1>2, FS_EmptySet
<1> QED
  BY <1>3 DEF On

\* a split step keeps the file near
LEMMA SplitFile ==
  ASSUME FileInv, RecInv', NEW s \in Symbols, Split(s), ~CriticalStop(s)
  PROVE  FileInv'
<1> DEFINE h == loop[s].held
<1>0. On(s) /\ RecInv
  BY DEF FileInv, Split, OpenShort, Buy, Rollback, Cover, Sell, CriticalStop,
         Save, Rename, Delete, SaveFails, At, On
<1>1. /\ h \in Nat /\ spot[s] \in Nat /\ short[s] \in Int /\ stops \in Nat
      /\ KrOf(s) \in Nat /\ FrOf(s) \in Nat
      /\ spot \in [Symbols -> Nat] /\ short \in [Symbols -> Int]
      /\ loop \in [Symbols -> Loops]
  BY <1>0 DEF RecInv, Types, Loops, KrOf, FrOf, Saves, None
<1>2. s \notin apart => /\ Within(KrOf(s), spot[s], Stale(s))
                       /\ Within(FrOf(s), Booked(s), Stale(s))
  BY <1>0 DEF FileInv, FileNear
<1>3. apart' = apart
  BY DEF Split, OpenShort, Buy, Rollback, Cover, Sell, CriticalStop, Save,
         Rename, Delete, SaveFails
<1> HIDE DEF h
<1>4. ASSUME NEW pc \in {"rest", "opened", "covered", "save", "rename"},
             NEW g \in Nat, loop' = Goto(s, pc, g),
             file' = file, spot' \in [Symbols -> Nat], short' \in [Symbols -> Int],
             stops' \in Nat,
             LET d == IF loop[s].pc \in {"save", "rename"} THEN stops + 1 ELSE stops
                 e == IF pc \in {"save", "rename"} THEN stops' + 1 ELSE stops'
                 b == short[s] + h - BookShort(loop[s].pc, h)
                 c == short'[s] + g - BookShort(pc, g)
             IN  /\ d + spot'[s] - spot[s] <= e /\ d + spot[s] - spot'[s] <= e
                 /\ d + c - b <= e /\ d + b - c <= e
      PROVE  FileInv'
  <2>1. /\ loop'[s].pc = pc /\ loop'[s].held = g
        /\ \A t \in Symbols : t # s => loop'[t] = loop[t]
    BY <1>1, <1>4 DEF Goto, Loops
  <2>2. On(s)' /\ KrOf(s)' = KrOf(s) /\ FrOf(s)' = FrOf(s)
    BY <1>4, <2>1 DEF On, KrOf, FrOf
  <2> DEFINE b == Booked(s)
             c == Booked(s)'
             d == Stale(s)
             e == Stale(s)'
  <2>3. /\ b = short[s] + h - BookShort(loop[s].pc, h)
        /\ c = short'[s] + g - BookShort(pc, g)
    BY <2>1 DEF Booked, ShortOf, h
  <2>4. /\ d = (IF loop[s].pc \in {"save", "rename"} THEN stops + 1 ELSE stops)
        /\ e = (IF pc \in {"save", "rename"} THEN stops' + 1 ELSE stops')
    BY <2>1 DEF Stale
  <2>5. /\ b \in Int /\ c \in Int /\ d \in Int /\ e \in Int
        /\ spot'[s] \in Int
    BY <1>1, <1>4, <2>3, <2>4 DEF BookShort
  <2>6. /\ d + spot'[s] - spot[s] <= e /\ d + spot[s] - spot'[s] <= e
        /\ d + c - b <= e /\ d + b - c <= e
    BY <1>4, <2>3, <2>4
  <2> HIDE DEF b, c, d, e
  <2>7. ASSUME s \notin apart
        PROVE  Within(KrOf(s), spot'[s], e) /\ Within(FrOf(s), c, e)
    <3>1. Within(KrOf(s), spot[s], d) /\ Within(FrOf(s), b, d)
      BY <1>2, <2>7 DEF b, d
    <3> QED
      BY <1>1, <2>5, <2>6, <3>1 DEF Within
  <2>8. s \notin apart => /\ Within(KrOf(s), spot[s], Stale(s))'
                         /\ Within(FrOf(s), Booked(s), Stale(s))'
    BY <2>2, <2>7 DEF c, e, Within
  <2> QED
    BY <1>0, <1>3, <2>1, <2>2, <2>8, OnlyLoop
<1>5. ASSUME loop' = Goto(s, "rest", h), KrOf(s)' = h, FrOf(s)' = h PROVE FileInv'
  <2>1. /\ loop'[s].pc = "rest" /\ loop'[s].held = h /\ On(s)'
        /\ \A t \in Symbols : t # s => loop'[t] = loop[t]
    BY <1>1, <1>5 DEF Goto, Loops, On
  <2>2. s \notin apart => /\ Within(KrOf(s), spot[s], Stale(s))'
                         /\ Within(FrOf(s), Booked(s), Stale(s))'
    BY <1>3, <1>5, <2>1, FileExact
  <2> QED
    BY <1>0, <1>3, <2>1, <2>2, OnlyLoop
<1>6. CASE OpenShort(s)
  <2>1. /\ loop[s].pc = "rest" /\ loop' = Goto(s, "opened", h)
        /\ short' = [short EXCEPT ![s] = short[s] + 1]
        /\ UNCHANGED <<spot, file, stops>>
    BY <1>6 DEF OpenShort, At, memory, h
  <2>2. short' \in [Symbols -> Int] /\ short'[s] = short[s] + 1
    BY <1>1, <2>1
  <2> QED
    BY <1>1, <1>4, <2>1, <2>2 DEF BookShort
<1>7. CASE Buy(s)
  <2>1. /\ loop[s].pc = "opened" /\ loop' = Goto(s, "save", h + 1)
        /\ spot' = [spot EXCEPT ![s] = spot[s] + 1]
        /\ UNCHANGED <<short, file, stops>>
    BY <1>7 DEF Buy, At, h
  <2>2. spot' \in [Symbols -> Nat] /\ spot'[s] = spot[s] + 1 /\ h + 1 \in Nat
    BY <1>1, <2>1
  <2> QED
    BY <1>1, <1>4, <2>1, <2>2 DEF BookShort
<1>8. CASE Rollback(s)
  <2>1. /\ loop[s].pc = "opened" /\ loop' = Goto(s, "rest", h)
        /\ short' = [short EXCEPT ![s] = short[s] - 1]
        /\ UNCHANGED <<spot, file, stops>>
    BY <1>8 DEF Rollback, At, memory, h
  <2>2. short' \in [Symbols -> Int] /\ short'[s] = short[s] - 1
    BY <1>1, <2>1
  <2> QED
    BY <1>1, <1>4, <2>1, <2>2 DEF BookShort
<1>9. CASE Cover(s)
  <2>1. /\ loop[s].pc = "rest" /\ loop' = Goto(s, "covered", h)
        /\ short' = [short EXCEPT ![s] = short[s] - 1]
        /\ UNCHANGED <<spot, file, stops>>
    BY <1>9 DEF Cover, At, memory, h
  <2>2. short' \in [Symbols -> Int] /\ short'[s] = short[s] - 1
    BY <1>1, <2>1
  <2> QED
    BY <1>1, <1>4, <2>1, <2>2 DEF BookShort
<1>10. CASE Sell(s)
  <2>1. /\ loop[s].pc = "covered" /\ loop' = Goto(s, "save", h - 1)
        /\ spot[s] > 0 /\ spot' = [spot EXCEPT ![s] = spot[s] - 1]
        /\ UNCHANGED <<short, file, stops>>
    BY <1>10 DEF Sell, At, memory, h
  <2>2. h > 0
    BY <1>0, <2>1 DEF RecInv, Types, At, h
  <2>3. spot' \in [Symbols -> Nat] /\ spot'[s] = spot[s] - 1 /\ h - 1 \in Nat
    BY <1>1, <2>1, <2>2
  <2> QED
    BY <1>1, <1>4, <2>1, <2>3 DEF BookShort
<1>11. CASE Save(s)
  <2>1. /\ loop[s].pc = "save" /\ loop' = Goto(s, "rename", h)
        /\ UNCHANGED <<spot, short, file, stops>>
    BY <1>11 DEF Save, Truncated, At, venues, h
  <2> QED
    BY <1>1, <1>4, <2>1 DEF BookShort
<1>12. CASE Rename(s)
  <2>1. /\ loop' = Goto(s, "rest", h) /\ file' = [symbol |-> s, kr |-> h, fr |-> h]
    BY <1>12 DEF Rename, Snapshot, h
  <2>2. KrOf(s)' = h /\ FrOf(s)' = h
    BY <2>1 DEF KrOf, FrOf
  <2> QED
    BY <1>5, <2>1, <2>2
<1>13. CASE Delete(s)
  <2>1. /\ h = 0 /\ file' = None
        /\ loop' = [loop EXCEPT ![s] = [pc |-> "rest", held |-> 0]]
    BY <1>13 DEF Delete, h
  <2>2. loop' = Goto(s, "rest", h)
    BY <1>1, <2>1 DEF Goto, Loops
  <2>3. KrOf(s)' = h /\ FrOf(s)' = h
    BY <2>1 DEF KrOf, FrOf, None
  <2> QED
    BY <1>5, <2>2, <2>3
<1>14. CASE SaveFails(s)
  <2>1. /\ loop[s].pc \in {"save", "rename"} /\ loop' = Goto(s, "rest", h)
        /\ stops' = stops + 1 /\ UNCHANGED <<spot, short, file>>
    BY <1>14 DEF SaveFails, At, venues, h
  <2>2. stops' \in Nat
    BY <1>1, <2>1
  <2> QED
    BY <1>1, <1>4, <2>1, <2>2 DEF BookShort
<1> QED
  BY <1>6, <1>7, <1>8, <1>9, <1>10, <1>11, <1>12, <1>13, <1>14 DEF Split

\* a new loop finds the file that was written for it, or none of its symbol
LEMMA BeginFile ==
  ASSUME FileInv, RecInv', MaxPositions = 1, NEW s \in Symbols, SlotFree,
         NEW h \in Nat, loop' = [loop EXCEPT ![s] = [pc |-> "rest", held |-> h]],
         UNCHANGED <<file, apart>>,
         s \notin apart => KrOf(s) = h /\ FrOf(s) = h
  PROVE  FileInv'
<1>1. /\ loop'[s].pc = "rest" /\ loop'[s].held = h
      /\ \A t \in Symbols : On(t)' => t = s
  BY NoLoop DEF FileInv, RecInv, Types, On
<1>2. KrOf(s)' = KrOf(s) /\ FrOf(s)' = FrOf(s)
  BY DEF KrOf, FrOf
<1>3. On(s)'
  BY <1>1 DEF On
<1>4. s \notin apart' => /\ Within(KrOf(s), spot[s], Stale(s))'
                        /\ Within(FrOf(s), Booked(s), Stale(s))'
  BY <1>1, <1>2, FileExact
<1> QED
  BY <1>1, <1>3, <1>4 DEF FileInv, OneLoop, FileWaits, FileNear

LEMMA StepFile ==
  ASSUME MaxPositions = 1
  PROVE  FileInv /\ [Next]_vars => FileInv'
<1> SUFFICES ASSUME FileInv, [Next]_vars PROVE FileInv'
  OBVIOUS
<1>0. RecInv /\ RecInv'
  BY StepRec DEF FileInv
<1>1. CASE UNCHANGED vars
  BY <1>0, <1>1 DEF vars, FileInv, OneLoop, FileWaits, FileNear, On, KrOf, FrOf,
                    Stale, Booked, ShortOf
<1>2. ASSUME \A s \in Symbols : ~On(s)', launch' = None \/ file' = launch'
      PROVE  FileInv'
  BY <1>0, <1>2 DEF FileInv, OneLoop, FileWaits, FileNear
<1>3. CASE Boot \/ StartFresh \/ \E c \in Live \cup Saved : Resume(c)
  <2>1. phase # "run" /\ loop' = loop /\ (launch' \in {None, launch} \/ file' = launch')
    BY <1>3 DEF Boot, StartFresh, Resume
  <2> QED
    BY <1>0, <1>2, <2>1 DEF RecInv, Phases, On
<1>4. CASE Crash
  BY <1>2, <1>4 DEF Crash, On, Off
<1>5. CASE Launch
  <2>1. /\ phase = "run" /\ launch # None /\ launch' = None
        /\ UNCHANGED <<spot, short, file, stops, apart>>
    BY <1>5 DEF Launch, venues
  <2>2. CASE loop' = loop
    BY <1>0, <2>1, <2>2 DEF FileInv, OneLoop, FileWaits, FileNear, On, KrOf, FrOf,
                            Stale, Booked, ShortOf
  <2>3. CASE /\ SlotFree /\ running_ /\ launch.kr = launch.fr
             /\ loop' = [loop EXCEPT ![launch.symbol] =
                           [pc |-> "rest", held |-> launch.kr]]
    <3>1. launch.symbol \in Symbols /\ launch.kr \in Nat
      BY <1>0, <2>1 DEF RecInv, Types, Saves
    <3>2. file = launch
      BY <2>1, <2>3, NoLoop DEF FileInv, FileWaits
    <3>3. KrOf(launch.symbol) = launch.kr /\ FrOf(launch.symbol) = launch.kr
      BY <2>3, <3>2 DEF KrOf, FrOf
    <3> QED
      BY <1>0, <2>1, <2>3, <3>1, <3>3, BeginFile
  <2> QED
    BY <1>5, <2>2, <2>3 DEF Launch
<1>6. ASSUME NEW s \in Symbols, Signal(s) PROVE FileInv'
  <2>1. /\ phase = "run" /\ running_ /\ ~On(s) /\ s \notin tracker /\ SlotFree
        /\ loop' = [loop EXCEPT ![s] = [pc |-> "rest", held |-> 0]]
        /\ UNCHANGED <<file, apart>>
    BY <1>6 DEF Signal, On
  <2>2. s \notin apart => KrOf(s) = 0 /\ FrOf(s) = 0
    BY <1>0, <2>1 DEF RecInv, FileOwned, KrOf, FrOf
  <2> QED
    BY <1>0, <2>1, <2>2, BeginFile
<1>7. ASSUME NEW s \in Symbols, CriticalStop(s) PROVE FileInv'
  <2>1. On(s) /\ loop' = [loop EXCEPT ![s] = Off] /\ launch' = launch
    BY <1>7 DEF CriticalStop, At, On
  <2>2. \A t \in Symbols : ~On(t)'
    BY <1>0, <2>1 DEF FileInv, OneLoop, RecInv, Types, On, Off
  <2>3. ~running_'
    BY <1>7, Zenon DEF CriticalStop
  <2> QED
    BY <1>0, <2>2, <2>3 DEF FileInv, OneLoop, FileWaits, FileNear
<1>8. ASSUME NEW s \in Symbols, Split(s) PROVE FileInv'
  BY <1>0, <1>7, <1>8, SplitFile
<1>9. CASE Next
  BY <1>3, <1>4, <1>5, <1>6, <1>8, <1>9 DEF Next
<1> QED
  BY <1>1, <1>9

\* With MAX_POSITIONS = 1, the code's default, active_position.json is within
\* one split per stop, and the split under way, of what the venues hold of the
\* symbol that is traded (save_active_position, persist_snapshot).
THEOREM FileIsNear ==
  ASSUME MaxPositions = 1
  PROVE  Spec => []FileTracksVenues
<1>1. Init => FileInv
  <2> SUFFICES ASSUME Init PROVE FileInv
    OBVIOUS
  <2>1. RecInv
    BY InitRec
  <2>2. (\A s \in Symbols : ~On(s)) /\ launch = None
    BY DEF Init, On, Off
  <2> QED
    BY <2>1, <2>2 DEF FileInv, OneLoop, FileWaits, FileNear
<1>2. FileInv => FileTracksVenues
  <2> SUFFICES ASSUME FileInv, NEW s \in Symbols \ apart, loop[s].pc # "off"
               PROVE  /\ Gap(KrOf(s), spot[s]) <= stops + 1
                      /\ Gap(FrOf(s), short[s]) <= stops + 1
    <3>1. FileInv => Loaded = file
      BY LoadedIsFile DEF FileInv, RecInv
    <3> QED
      BY <3>1 DEF FileTracksVenues, KrOf, FrOf, None
  <2>1. /\ Within(KrOf(s), spot[s], Stale(s))
        /\ Within(FrOf(s), Booked(s), Stale(s))
    BY DEF FileInv, FileNear, On
  <2>2. /\ spot[s] \in Nat /\ short[s] \in Int /\ stops \in Nat
        /\ KrOf(s) \in Nat /\ FrOf(s) \in Nat /\ loop[s].held \in Nat
    BY DEF FileInv, RecInv, Types, Loops, KrOf, FrOf, Saves, None
  <2>3. \/ Stale(s) = stops + 1 /\ Booked(s) = short[s]
        \/ Stale(s) = stops /\ Booked(s) \in {short[s] - 1, short[s], short[s] + 1}
    BY <2>2 DEF Stale, Booked, ShortOf, BookShort
  <2> QED
    BY <2>1, <2>2, <2>3 DEF Within, Gap
<1> QED
  BY <1>1, <1>2, StepFile, PTL DEF Spec

=============================================================================
