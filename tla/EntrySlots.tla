----------------------------- MODULE EntrySlots -----------------------------
(***************************************************************************)
(* From a ticker to a lifecycle loop.  Several IO threads run              *)
(* ArbitrageEngine::on_ticker_update: they recompute the entry state of a  *)
(* symbol, scan for candidates and call main's entry callback, which       *)
(* claims one of MaxPositions lifecycle slots and queues a task.  Workers  *)
(* of the LifecycleExecutor run the loop of RelayLifecycle (here only      *)
(* which symbols have a position in the tracker) and give the slot back.   *)
(*                                                                         *)
(* One action is one access to a shared atomic, except that the selection  *)
(* reads its bitsets, and sync_entry_state_bits sets its two, in one step. *)
(* Which symbols qualify, which positions are partial, the order by edge   *)
(* and the scan cooldowns are free choices.                                *)
(***************************************************************************)
EXTENDS Integers, Sequences, FiniteSets, SequencesExt

CONSTANTS
  Symbols, Io, Workers,
  MaxPositions              \* TradingConfig::MAX_POSITIONS, 1 to 4

\* executor_options.worker_count = max(1, MAX_POSITIONS)
ASSUME SlotAssumption ==
  /\ MaxPositions \in 1..4
  /\ IsFiniteSet(Io) /\ IsFiniteSet(Workers) /\ IsFiniteSet(Symbols)
  /\ Cardinality(Workers) = MaxPositions

VARIABLES
  qualified, signal_fired,      \* flags of entry_cache_, as sets of symbols
  candidate_bits, fired_bits,   \* the two AtomicBitsets the scan reads
  entry_suppressed,             \* ArbitrageEngine::entry_suppressed_
  g_active_loops,
  tracked,                      \* symbols with a position in the tracker
  om_running,                   \* OrderManager::running_
  critical,                     \* history: some loop made a critical stop
  executor_running, queue,      \* LifecycleExecutor
  io,                           \* the IO threads
  worker                        \* the lifecycle workers

cache == <<qualified, signal_fired, candidate_bits, fired_bits>>
slots == <<entry_suppressed, g_active_loops>>
loops == <<tracked, om_running, critical>>
executor == <<executor_running, queue>>
vars == <<cache, slots, loops, executor, io, worker>>

Candidate == [sym : Symbols, partial : BOOLEAN]
NoSymbol == "none"
Idle == [pc |-> "idle", sym |-> NoSymbol, pass |-> FALSE,
         reset |-> FALSE, fired |-> FALSE, sel |-> <<>>, current |-> 0]
NoTask == [pc |-> "idle", sym |-> NoSymbol, remaining |-> 0]

Put(set, s, in) == IF in THEN set \cup {s} ELSE set \ {s}

Init ==
  /\ qualified = {} /\ signal_fired = {}
  /\ candidate_bits = {} /\ fired_bits = {}
  /\ entry_suppressed = FALSE /\ g_active_loops = 0
  /\ tracked = {} /\ om_running = TRUE /\ critical = FALSE
  /\ executor_running = FALSE /\ queue = <<>>
  /\ io = [t \in Io |-> Idle]
  /\ worker = [w \in Workers |-> NoTask]

-----------------------------------------------------------------------------
(* update_symbol_entry on an IO thread.                                    *)

\* the new quotes of s pass the entry gate, or not, or there is no usable
\* pair of quotes (clear_state, which stores nothing if nothing was set); the
\* old flags are read
UpdateStart(t) ==
  /\ io[t].pc = "idle"
  /\ \E s \in Symbols, gate \in {"pass", "fail", "clear"} :
       LET pass == gate = "pass"
           nothing == gate = "clear" /\ s \notin qualified \cup signal_fired
       IN io' = [io EXCEPT ![t] =
                   [@ EXCEPT !.pc = IF nothing THEN "sync" ELSE "store",
                             !.sym = s, !.pass = pass,
                             !.reset = \/ (s \in qualified) # pass
                                       \/ gate = "clear"]]
  /\ UNCHANGED <<cache, slots, loops, executor, worker>>

UpdateQualified(t) ==
  /\ io[t].pc = "store"
  /\ qualified' = Put(qualified, io[t].sym, io[t].pass)
  /\ io' = [io EXCEPT ![t].pc = "reset"]
  /\ UNCHANGED <<signal_fired, candidate_bits, fired_bits, slots, loops,
                 executor, worker>>

\* a change of qualification re-enables the symbol's signal
UpdateReset(t) ==
  /\ io[t].pc = "reset"
  /\ \/ /\ io[t].reset
        /\ signal_fired' = signal_fired \ {io[t].sym}
        /\ io' = [io EXCEPT ![t].pc = "sync"]
     \/ /\ ~io[t].reset
        /\ io' = [io EXCEPT ![t].pc = "sync",
                            ![t].fired = io[t].sym \in signal_fired]
        /\ UNCHANGED signal_fired
  /\ UNCHANGED <<qualified, candidate_bits, fired_bits, slots, loops,
                 executor, worker>>

sync_entry_state_bits(s, qualifies, fired) ==
  /\ candidate_bits' = Put(candidate_bits, s, qualifies /\ ~fired)
  /\ fired_bits' = Put(fired_bits, s, fired)

UpdateBits(t) ==
  /\ io[t].pc = "sync"
  /\ sync_entry_state_bits(io[t].sym, io[t].pass, io[t].fired)
  /\ io' = [io EXCEPT ![t] = [Idle EXCEPT !.pc = "scan", !.sym = io[t].sym]]
  /\ UNCHANGED <<qualified, signal_fired, slots, loops, executor, worker>>

\* a ticker of the symbol scans at once for a fresh signal and else after a
\* cooldown; one of USDT/KRW updates every symbol first, then scans, debounced
SkipScan(t) ==
  /\ io[t].pc = "scan"
  /\ io' = [io EXCEPT ![t] = Idle]
  /\ UNCHANGED <<cache, slots, loops, executor, worker>>

-----------------------------------------------------------------------------
(* fire_entry_from_cache.                                                  *)

FireCheck(t) ==
  /\ io[t].pc = "scan"
  /\ io' = [io EXCEPT ![t] = IF entry_suppressed THEN Idle
                             ELSE [Idle EXCEPT !.pc = "select"]]
  /\ UNCHANGED <<cache, slots, loops, executor, worker>>

\* a fired symbol without a position still counts as a used slot
free_slots ==
  MaxPositions - Cardinality(tracked) - Cardinality(fired_bits \ tracked)

\* select_entry_candidates: partial positions that still qualify, then as
\* many fresh candidates as slots are free
Selections ==
  LET fresh == candidate_bits \ tracked
      room == IF free_slots < 0 THEN 0 ELSE free_slots
      taken == IF Cardinality(fresh) <= room THEN Cardinality(fresh) ELSE room
  IN  {[i \in 1..(Len(p) + taken) |->
          IF i <= Len(p) THEN [sym |-> p[i], partial |-> TRUE]
                         ELSE [sym |-> f[i - Len(p)], partial |-> FALSE]] :
         p \in UNION {SetToSeqs(P) : P \in SUBSET (tracked \cap qualified)},
         f \in UNION {SetToSeqs(F) : F \in {G \in SUBSET fresh :
                                             Cardinality(G) = taken}}}

Select(t) ==
  /\ io[t].pc = "select"
  /\ \E sel \in Selections :
       io' = [io EXCEPT ![t] = IF sel = <<>> THEN Idle
                               ELSE [Idle EXCEPT !.pc = "emit", !.sel = sel]]
  /\ UNCHANGED <<cache, slots, loops, executor, worker>>

\* go on with the selection after its head, with its locals reset
NextCandidate(t) ==
  io' = [io EXCEPT ![t] =
           IF Len(io[t].sel) = 1 THEN Idle
           ELSE [Idle EXCEPT !.pc = "emit", !.sel = Tail(io[t].sel)]]

\* the flags are read again before the signal is sent
Emit(t) ==
  /\ io[t].pc = "emit"
  /\ LET c == Head(io[t].sel) IN
     \/ /\ c.sym \notin qualified \/ (~c.partial /\ c.sym \in signal_fired)
        /\ NextCandidate(t)
     \/ /\ c.sym \in qualified /\ c.partial
        /\ io' = [io EXCEPT ![t].pc = "callback", ![t].sym = c.sym]
     \/ /\ c.sym \in qualified /\ ~c.partial /\ c.sym \notin signal_fired
        /\ io' = [io EXCEPT ![t].pc = "mark", ![t].sym = c.sym]
  /\ UNCHANGED <<cache, slots, loops, executor, worker>>

Mark(t) ==
  /\ io[t].pc = "mark"
  /\ signal_fired' = signal_fired \cup {io[t].sym}
  /\ io' = [io EXCEPT ![t].pc = "mark_bits"]
  /\ UNCHANGED <<qualified, candidate_bits, fired_bits, slots, loops,
                 executor, worker>>

MarkBits(t) ==
  /\ io[t].pc = "mark_bits"
  /\ sync_entry_state_bits(io[t].sym, TRUE, TRUE)
  /\ io' = [io EXCEPT ![t].pc = "callback"]
  /\ UNCHANGED <<qualified, signal_fired, slots, loops, executor, worker>>

-----------------------------------------------------------------------------
(* The entry callback of main: claim a slot, queue a task.                 *)

Callback(t) ==
  /\ io[t].pc = "callback"
  /\ \/ io[t].sym \in tracked /\ NextCandidate(t)
     \/ /\ io[t].sym \notin tracked
        /\ io' = [io EXCEPT ![t].pc = "claim"]
  /\ UNCHANGED <<cache, slots, loops, executor, worker>>

\* mutant: one slot too many
HasRoom_inclusive == g_active_loops <= MaxPositions

HasRoom == g_active_loops < MaxPositions

\* mutant: the counter is stored without comparing
CasSucceeds_always(t) == TRUE

CasSucceeds(t) == g_active_loops = io[t].current

\* mutant: off by one
lifts_suppression_late(remaining) == remaining < MaxPositions - 1

lifts_suppression(remaining) == remaining < MaxPositions

\* try_claim_lifecycle_slot: load the counter ...
ClaimLoad(t) ==
  /\ io[t].pc = "claim"
  /\ \/ ~HasRoom /\ NextCandidate(t)
     \/ /\ HasRoom
        /\ io' = [io EXCEPT ![t].pc = "cas", ![t].current = g_active_loops]
  /\ UNCHANGED <<cache, slots, loops, executor, worker>>

\* ... then compare and swap
ClaimCas(t) ==
  /\ io[t].pc = "cas"
  /\ \/ /\ CasSucceeds(t)
        /\ g_active_loops' = io[t].current + 1
        /\ io' = [io EXCEPT ![t].pc = IF io[t].current + 1 >= MaxPositions
                                      THEN "suppress" ELSE "enqueue",
                            ![t].current = 0]
     \/ /\ ~CasSucceeds(t)
        /\ io' = [io EXCEPT ![t].pc = "claim", ![t].current = 0]
        /\ UNCHANGED g_active_loops
  /\ UNCHANGED <<cache, entry_suppressed, loops, executor, worker>>

Suppress(t) ==
  /\ io[t].pc = "suppress"
  /\ entry_suppressed' = TRUE
  /\ io' = [io EXCEPT ![t].pc = "enqueue"]
  /\ UNCHANGED <<cache, g_active_loops, loops, executor, worker>>

Enqueue(t) ==
  /\ io[t].pc = "enqueue"
  /\ \/ executor_running /\ queue' = Append(queue, io[t].sym) /\ NextCandidate(t)
     \/ /\ ~executor_running
        /\ io' = [io EXCEPT ![t].pc = "release"]
        /\ UNCHANGED queue
  /\ UNCHANGED <<cache, slots, loops, executor_running, worker>>

\* release_claimed_lifecycle_slot
Release(t) ==
  /\ io[t].pc = "release"
  /\ g_active_loops' = g_active_loops - 1
  /\ io' = [io EXCEPT ![t].pc = "unsuppress", ![t].current = g_active_loops - 1]
  /\ UNCHANGED <<cache, entry_suppressed, loops, executor, worker>>

Unsuppress(t) ==
  /\ io[t].pc = "unsuppress"
  /\ entry_suppressed' =
       IF lifts_suppression(io[t].current) THEN FALSE ELSE entry_suppressed
  /\ NextCandidate(t)
  /\ UNCHANGED <<cache, g_active_loops, loops, executor, worker>>

-----------------------------------------------------------------------------
(* The executor and its workers.                                           *)

StartExecutor ==
  /\ ~executor_running
  /\ executor_running' = TRUE
  /\ UNCHANGED <<cache, slots, loops, queue, io, worker>>

PickUp(w) ==
  /\ executor_running /\ worker[w].pc = "idle" /\ queue # <<>>
  /\ worker' = [worker EXCEPT ![w].pc = "run", ![w].sym = Head(queue)]
  /\ queue' = Tail(queue)
  /\ UNCHANGED <<cache, slots, loops, executor_running, io>>

\* the early returns of execute_spot_relay_entry
Refuse(w) ==
  /\ worker[w].pc = "run"
  /\ worker' = [worker EXCEPT ![w].pc = "guard"]
  /\ UNCHANGED <<cache, slots, loops, executor, io>>

Trade(w) ==
  /\ worker[w].pc = "run"
  /\ worker' = [worker EXCEPT ![w].pc = "loop"]
  /\ UNCHANGED <<cache, slots, loops, executor, io>>

\* while (running_): every split starts with a look at the flag
Split(w) ==
  /\ worker[w].pc = "loop" /\ om_running
  /\ worker' = [worker EXCEPT ![w].pc = "split"]
  /\ UNCHANGED <<cache, slots, loops, executor, io>>

\* the split opened nothing, or closed a part: the tracker keeps its position
SplitKeeps(w) ==
  /\ worker[w].pc = "split"
  /\ worker' = [worker EXCEPT ![w].pc = "loop"]
  /\ UNCHANGED <<cache, slots, loops, executor, io>>

\* persist_snapshot after an entry split: close the position, open the new
Replace(w) ==
  /\ worker[w].pc = "split"
  /\ tracked' = tracked \ {worker[w].sym}
  /\ worker' = [worker EXCEPT ![w].pc = "reopen"]
  /\ UNCHANGED <<cache, slots, om_running, critical, executor, io>>

Reopen(w) ==
  /\ worker[w].pc = "reopen"
  /\ tracked' = tracked \cup {worker[w].sym}
  /\ worker' = [worker EXCEPT ![w].pc = "loop"]
  /\ UNCHANGED <<cache, slots, om_running, critical, executor, io>>

\* the last exit split
Close(w) ==
  /\ worker[w].pc = "split"
  /\ worker[w].sym \in tracked
  /\ tracked' = tracked \ {worker[w].sym}
  /\ worker' = [worker EXCEPT ![w].pc = "loop"]
  /\ UNCHANGED <<cache, slots, om_running, critical, executor, io>>

CriticalStop(w) ==
  /\ worker[w].pc = "split"
  /\ om_running' = FALSE
  /\ critical' = TRUE
  /\ entry_suppressed' = TRUE
  /\ tracked' = tracked \ {worker[w].sym}
  /\ worker' = [worker EXCEPT ![w].pc = "stop_reopen"]
  /\ UNCHANGED <<cache, g_active_loops, executor, io>>

\* the snapshot is a position only if something is left open
StopReopen(w) ==
  /\ worker[w].pc = "stop_reopen"
  /\ tracked' \in {tracked, tracked \cup {worker[w].sym}}
  /\ worker' = [worker EXCEPT ![w].pc = "guard"]
  /\ UNCHANGED <<cache, slots, om_running, critical, executor, io>>

LoopExit(w) ==
  /\ worker[w].pc = "loop" /\ ~om_running
  /\ worker' = [worker EXCEPT ![w].pc = "guard"]
  /\ UNCHANGED <<cache, slots, loops, executor, io>>

\* ~LoopGuard
GuardRelease(w) ==
  /\ worker[w].pc = "guard"
  /\ g_active_loops' = g_active_loops - 1
  /\ worker' = [worker EXCEPT ![w].pc = "guard_unsuppress",
                              ![w].remaining = g_active_loops - 1]
  /\ UNCHANGED <<cache, entry_suppressed, loops, executor, io>>

GuardUnsuppress(w) ==
  /\ worker[w].pc = "guard_unsuppress"
  /\ entry_suppressed' =
       IF lifts_suppression(worker[w].remaining) THEN FALSE ELSE entry_suppressed
  /\ worker' = [worker EXCEPT ![w] = NoTask]
  /\ UNCHANGED <<cache, g_active_loops, loops, executor, io>>

-----------------------------------------------------------------------------
Engine(t) ==
  \/ UpdateStart(t) \/ UpdateQualified(t) \/ UpdateReset(t) \/ UpdateBits(t)
  \/ SkipScan(t) \/ FireCheck(t) \/ Select(t) \/ Emit(t) \/ Mark(t)
  \/ MarkBits(t) \/ Callback(t) \/ ClaimLoad(t) \/ ClaimCas(t) \/ Suppress(t)
  \/ Enqueue(t) \/ Release(t) \/ Unsuppress(t)

\* the steps a worker takes whatever the market does
Prompt(w) ==
  PickUp(w) \/ Refuse(w) \/ Trade(w) \/ Split(w) \/ SplitKeeps(w) \/ Reopen(w)
    \/ StopReopen(w) \/ LoopExit(w) \/ GuardRelease(w) \/ GuardUnsuppress(w)

Next ==
  \/ \E t \in Io : Engine(t)
  \/ StartExecutor
  \/ \E w \in Workers : Prompt(w) \/ Replace(w) \/ Close(w) \/ CriticalStop(w)

Spec == Init /\ [][Next]_vars

-----------------------------------------------------------------------------
(* Properties.                                                             *)

\* Types; the slot counter and its copies stay within 0..MAX_POSITIONS.
TypeOK ==
  /\ qualified \subseteq Symbols /\ signal_fired \subseteq Symbols
  /\ candidate_bits \subseteq Symbols /\ fired_bits \subseteq Symbols
  /\ entry_suppressed \in BOOLEAN /\ g_active_loops \in 0..MaxPositions
  /\ tracked \subseteq Symbols /\ om_running \in BOOLEAN
  /\ critical \in BOOLEAN /\ executor_running \in BOOLEAN
  /\ queue \in Seq(Symbols)
  /\ \A t \in Io :
       /\ io[t].sym \in Symbols \cup {NoSymbol}
       /\ io[t].sel \in Seq(Candidate)
       /\ io[t].current \in 0..MaxPositions
  /\ \A w \in Workers :
       /\ worker[w].sym \in Symbols \cup {NoSymbol}
       /\ worker[w].remaining \in 0..MaxPositions

Running == {"loop", "split", "reopen", "stop_reopen"}

Owners ==
  Cardinality({t \in Io : io[t].pc \in {"suppress", "enqueue", "release"}})
    + Len(queue)
    + Cardinality({w \in Workers :
                    worker[w].pc \in Running \cup {"run", "guard"}})

\* Every claimed slot has exactly one owner - the thread that claimed it, a
\* queued task or a running loop - and there are never more than
\* MAX_POSITIONS of them, however claims and releases interleave.
SlotsOwned == g_active_loops = Owners /\ g_active_loops <= MaxPositions

\* Short of a critical stop, entries are suppressed only while every slot is
\* taken or somebody who gave one back is about to lift the suppression.
SuppressedOnlyWhenFull ==
  entry_suppressed /\ ~critical =>
    \/ g_active_loops = MaxPositions
    \/ \E t \in Io : io[t].pc = "unsuppress"
    \/ \E w \in Workers : worker[w].pc = "guard_unsuppress"

\* A symbol is traded by one lifecycle loop.
OneLoopPerSymbol ==
  \A v, w \in Workers :
    /\ worker[v].pc \in Running /\ worker[w].pc \in Running
    /\ worker[v].sym = worker[w].sym
    => v = w

\* A queued task never waits for a loop to end, which may be never: at every
\* moment as many workers are idle, or leaving the guard of a finished loop,
\* as there are tasks in the queue (MAX_POSITIONS workers, one slot per task
\* from the claim to the guard).
QueuedHasWorker ==
  Len(queue)
    <= Cardinality({w \in Workers : worker[w].pc \in {"idle", "guard_unsuppress"}})

=============================================================================
