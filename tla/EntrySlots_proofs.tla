-------------------------- MODULE EntrySlots_proofs --------------------------
(***************************************************************************)
(* The lifecycle slots, for every MAX_POSITIONS, any number of IO threads  *)
(* and any set of symbols.                                                 *)
(***************************************************************************)
EXTENDS EntrySlots, FiniteSetTheorems, SequenceTheorems, TLAPS

Holding == {"suppress", "enqueue", "release"}
Serving ==
  Holding \cup {"emit", "mark", "mark_bits", "callback", "claim", "cas",
                "unsuppress"}
Busy == Running \cup {"run", "guard"}

Thread ==
  [pc : Serving \cup {"idle", "store", "reset", "sync", "scan", "select"},
   sym : Symbols \cup {NoSymbol}, pass : BOOLEAN, reset : BOOLEAN,
   fired : BOOLEAN, sel : Seq(Candidate), current : 0..MaxPositions]

Task ==
  [pc : Busy \cup {"idle", "guard_unsuppress"},
   sym : Symbols \cup {NoSymbol}, remaining : 0..MaxPositions]

\* What the locals of an IO thread hold at each point of its path: a count
\* read for the exchange left room for one more, a count left by a release
\* is below the limit, the candidates being served are not used up.
ThreadOK(r) ==
  /\ r.pc \in {"cas", "unsuppress"} => r.current < MaxPositions
  /\ r.pc \in Serving => r.sel # <<>>
  /\ r.pc \notin {"idle", "select", "emit"} => r.sym \in Symbols

TaskOK(r) ==
  /\ r.pc = "guard_unsuppress" => r.remaining < MaxPositions
  /\ r.pc # "idle" => r.sym \in Symbols

Holders == {t \in Io : io[t].pc \in Holding}
BusyWorkers == {w \in Workers : worker[w].pc \in Busy}

Flags ==
  /\ qualified \subseteq Symbols /\ signal_fired \subseteq Symbols
  /\ candidate_bits \subseteq Symbols /\ fired_bits \subseteq Symbols
  /\ entry_suppressed \in BOOLEAN /\ tracked \subseteq Symbols
  /\ om_running \in BOOLEAN /\ critical \in BOOLEAN
  /\ executor_running \in BOOLEAN /\ queue \in Seq(Symbols)

Shape ==
  /\ Flags
  /\ io \in [Io -> Thread] /\ \A t \in Io : ThreadOK(io[t])
  /\ worker \in [Workers -> Task] /\ \A w \in Workers : TaskOK(worker[w])

\* SlotsOwned, over the sets of owners named here
Balance ==
  /\ g_active_loops =
       Cardinality(Holders) + Len(queue) + Cardinality(BusyWorkers)
  /\ g_active_loops \in 0..MaxPositions

IInv == Shape /\ Balance

Count(b) == IF b THEN 1 ELSE 0

-----------------------------------------------------------------------------
(* Moving one thread, or one worker, along its path.                       *)

LEMMA Limits ==
  /\ MaxPositions \in Nat /\ MaxPositions >= 1
  /\ IsFiniteSet(Io) /\ IsFiniteSet(Workers) /\ IsFiniteSet(Symbols)
  BY SlotAssumption

LEMMA CountsAreNat ==
  /\ IsFiniteSet(Holders) /\ Cardinality(Holders) \in Nat
  /\ IsFiniteSet(BusyWorkers) /\ Cardinality(BusyWorkers) \in Nat
<1>1. Holders \in SUBSET Io /\ BusyWorkers \in SUBSET Workers
  BY DEF Holders, BusyWorkers
<1>2. IsFiniteSet(Holders) /\ IsFiniteSet(BusyWorkers)
  BY <1>1, FS_Subset, Limits
<1> QED
  BY <1>2, FS_CardinalityType

LEMMA CountOf ==
  ASSUME NEW S, IsFiniteSet(S), NEW T, NEW x,
         \A y : y # x => (y \in S <=> y \in T)
  PROVE  Cardinality(T) = Cardinality(S) + Count(x \in T) - Count(x \in S)
<1>1. CASE x \in T
  <2>1. T = S \cup {x}
    BY <1>1
  <2> QED
    BY <1>1, <2>1, FS_AddElement, FS_CardinalityType DEF Count
<1>2. CASE x \notin T
  <2>1. T = S \ {x}
    BY <1>2
  <2> QED
    BY <1>2, <2>1, FS_RemoveElement, FS_CardinalityType DEF Count
<1> QED
  BY <1>1, <1>2

LEMMA ThreadMoves ==
  ASSUME Shape, NEW t \in Io, NEW r \in Thread, ThreadOK(r),
         io' = [io EXCEPT ![t] = r]
  PROVE  /\ io' \in [Io -> Thread] /\ \A u \in Io : ThreadOK(io'[u])
         /\ Cardinality(Holders') = Cardinality(Holders)
              + Count(r.pc \in Holding) - Count(io[t].pc \in Holding)
<1>1. io'[t] = r /\ \A u \in Io : u # t => io'[u] = io[u]
  BY DEF Shape
<1>2. io' \in [Io -> Thread] /\ \A u \in Io : ThreadOK(io'[u])
  BY <1>1 DEF Shape
<1>3. \A u : u # t => (u \in Holders <=> u \in Holders')
  BY <1>1 DEF Holders
<1>4. (t \in Holders <=> io[t].pc \in Holding) /\ (t \in Holders' <=> r.pc \in Holding)
  BY <1>1 DEF Holders
<1>5. Cardinality(Holders') =
        Cardinality(Holders) + Count(t \in Holders') - Count(t \in Holders)
  BY <1>3, CountOf, CountsAreNat
<1> QED
  BY <1>2, <1>4, <1>5 DEF Count

LEMMA WorkerMoves ==
  ASSUME Shape, NEW w \in Workers, NEW r \in Task, TaskOK(r),
         worker' = [worker EXCEPT ![w] = r]
  PROVE  /\ worker' \in [Workers -> Task] /\ \A v \in Workers : TaskOK(worker'[v])
         /\ Cardinality(BusyWorkers') = Cardinality(BusyWorkers)
              + Count(r.pc \in Busy) - Count(worker[w].pc \in Busy)
<1>1. worker'[w] = r /\ \A v \in Workers : v # w => worker'[v] = worker[v]
  BY DEF Shape
<1>2. worker' \in [Workers -> Task] /\ \A v \in Workers : TaskOK(worker'[v])
  BY <1>1 DEF Shape
<1>3. \A v : v # w => (v \in BusyWorkers <=> v \in BusyWorkers')
  BY <1>1 DEF BusyWorkers
<1>4. /\ w \in BusyWorkers <=> worker[w].pc \in Busy
      /\ w \in BusyWorkers' <=> r.pc \in Busy
  BY <1>1 DEF BusyWorkers
<1>5. Cardinality(BusyWorkers') = Cardinality(BusyWorkers)
        + Count(w \in BusyWorkers') - Count(w \in BusyWorkers)
  BY <1>3, CountOf, CountsAreNat
<1> QED
  BY <1>2, <1>4, <1>5 DEF Count

-----------------------------------------------------------------------------
(* The candidates of a selection.                                          *)

LEMMA SelectionsAreCandidates ==
  ASSUME Shape PROVE Selections \subseteq Seq(Candidate)
<1> SUFFICES ASSUME NEW sel \in Selections PROVE sel \in Seq(Candidate)
  OBVIOUS
<1> DEFINE fresh == candidate_bits \ tracked
           room == IF free_slots < 0 THEN 0 ELSE free_slots
           taken == IF Cardinality(fresh) <= room THEN Cardinality(fresh) ELSE room
<1>0. PICK p \in UNION {SetToSeqs(P) : P \in SUBSET (tracked \cap qualified)},
           f \in UNION {SetToSeqs(F) : F \in {G \in SUBSET fresh :
                                               Cardinality(G) = taken}} :
        sel = [i \in 1..(Len(p) + taken) |->
                 IF i <= Len(p) THEN [sym |-> p[i], partial |-> TRUE]
                                ELSE [sym |-> f[i - Len(p)], partial |-> FALSE]]
  <2> DEFINE PS == UNION {SetToSeqs(P) : P \in SUBSET (tracked \cap qualified)}
             FS == UNION {SetToSeqs(F) : F \in {G \in SUBSET fresh :
                                                 Cardinality(G) = taken}}
             N == taken
  <2>1. Selections =
          {[i \in 1..(Len(p) + N) |->
              IF i <= Len(p) THEN [sym |-> p[i], partial |-> TRUE]
                             ELSE [sym |-> f[i - Len(p)], partial |-> FALSE]] :
             p \in PS, f \in FS}
    BY DEF Selections
  <2> HIDE DEF PS, FS, N
  <2>2. \E p \in PS, f \in FS :
          sel = [i \in 1..(Len(p) + N) |->
                   IF i <= Len(p) THEN [sym |-> p[i], partial |-> TRUE]
                                  ELSE [sym |-> f[i - Len(p)], partial |-> FALSE]]
    BY <2>1
  <2> QED
    BY <2>2 DEF PS, FS, N
<1>p. PICK P \in SUBSET (tracked \cap qualified) : p \in SetToSeqs(P)
  BY <1>0
<1>f. PICK F \in SUBSET fresh : Cardinality(F) = taken /\ f \in SetToSeqs(F)
  BY <1>0
<1>1. /\ P \subseteq Symbols /\ F \subseteq Symbols
  BY <1>p, <1>f DEF Shape, Flags
<1>2. IsFiniteSet(P) /\ IsFiniteSet(F)
  BY <1>1, FS_Subset, Limits
<1>3. Cardinality(P) \in Nat /\ Cardinality(F) \in Nat /\ taken = Cardinality(F)
  BY <1>f, <1>2, FS_CardinalityType
<1>4. p \in [1..Cardinality(P) -> Symbols] /\ f \in [1..Cardinality(F) -> Symbols]
  BY <1>p, <1>f, <1>1 DEF SetToSeqs
<1>5. Len(p) = Cardinality(P)
  BY <1>3, <1>4
<1> HIDE DEF taken
<1>6. sel \in [1..(Len(p) + taken) -> Candidate]
  <2> SUFFICES ASSUME NEW i \in 1..(Len(p) + taken)
               PROVE  (IF i <= Len(p) THEN [sym |-> p[i], partial |-> TRUE]
                       ELSE [sym |-> f[i - Len(p)], partial |-> FALSE]) \in Candidate
    BY <1>0
  <2>1. CASE i <= Len(p)
    BY <2>1, <1>3, <1>4, <1>5 DEF Candidate
  <2>2. CASE ~(i <= Len(p))
    <3>1. i - Len(p) \in 1..Cardinality(F)
      BY <2>2, <1>3, <1>5
    <3> QED
      BY <2>2, <3>1, <1>4 DEF Candidate
  <2> QED
    BY <2>1, <2>2
<1> QED
  BY <1>3, <1>5, <1>6

LEMMA IdleIsThread ==
  Idle \in Thread /\ ThreadOK(Idle)
  BY Limits DEF Idle, Thread, ThreadOK, Serving, Holding, NoSymbol

LEMMA HeadIsCandidate ==
  ASSUME Shape, NEW t \in Io, io[t].pc \in Serving
  PROVE  /\ io[t].sel \in Seq(Candidate) /\ io[t].sel # <<>>
         /\ Head(io[t].sel) \in Candidate
         /\ Tail(io[t].sel) \in Seq(Candidate)
         /\ Len(io[t].sel) # 1 => Tail(io[t].sel) # <<>>
<1>1. io[t].sel \in Seq(Candidate) /\ io[t].sel # <<>>
  BY DEF Shape, Thread, ThreadOK
<1>2. ASSUME NEW s \in Seq(Candidate), s # <<>>
      PROVE  /\ Head(s) \in Candidate /\ Tail(s) \in Seq(Candidate)
             /\ Len(s) # 1 => Tail(s) # <<>>
  <2>1. Head(s) \in Candidate /\ Tail(s) \in Seq(Candidate) /\ Len(Tail(s)) = Len(s) - 1
    BY <1>2, HeadTailProperties
  <2>2. Tail(s) = <<>> => Len(Tail(s)) = 0
    BY EmptySeq
  <2>3. Len(s) \in Nat
    BY LenProperties
  <2> QED
    BY <2>1, <2>2, <2>3
<1> QED
  BY <1>1, <1>2

LEMMA NextCandidateMoves ==
  ASSUME Shape, NEW t \in Io, io[t].pc \in Serving, NextCandidate(t)
  PROVE  \E r \in Thread : /\ ThreadOK(r) /\ io' = [io EXCEPT ![t] = r]
                           /\ r.pc \in {"idle", "emit"}
<1> DEFINE r == IF Len(io[t].sel) = 1 THEN Idle
                ELSE [Idle EXCEPT !.pc = "emit", !.sel = Tail(io[t].sel)]
<1>1. io' = [io EXCEPT ![t] = r]
  BY DEF NextCandidate
<1>2. CASE Len(io[t].sel) = 1
  BY <1>1, <1>2, IdleIsThread DEF Idle
<1>3. CASE Len(io[t].sel) # 1
  <2> DEFINE rest == Tail(io[t].sel)
  <2>1. rest \in Seq(Candidate) /\ rest # <<>>
    BY <1>3, HeadIsCandidate
  <2> HIDE DEF rest
  <2>2. [Idle EXCEPT !.pc = "emit", !.sel = rest] \in Thread
    BY <2>1, IdleIsThread DEF Thread, Serving
  <2>3. ThreadOK([Idle EXCEPT !.pc = "emit", !.sel = rest])
    BY <2>1 DEF Idle, ThreadOK
  <2> QED
    BY <1>1, <1>3, <2>2, <2>3 DEF rest, Idle
<1> QED
  BY <1>2, <1>3

-----------------------------------------------------------------------------
(* Steps of an IO thread.                                                  *)

\* steps that touch neither the counter nor the queue, and leave the thread
\* on the same side of the claim
LEMMA ThreadKeeps ==
  ASSUME IInv, NEW t \in Io, NEW r \in Thread, ThreadOK(r),
         io' = [io EXCEPT ![t] = r], Flags',
         r.pc \in Holding <=> io[t].pc \in Holding,
         UNCHANGED <<g_active_loops, queue, worker>>
  PROVE  IInv'
<1>1. /\ io' \in [Io -> Thread] /\ \A u \in Io : ThreadOK(io'[u])
      /\ Cardinality(Holders') = Cardinality(Holders)
           + Count(r.pc \in Holding) - Count(io[t].pc \in Holding)
  BY ThreadMoves DEF IInv
<1>2. Cardinality(Holders') = Cardinality(Holders)
  BY <1>1, CountsAreNat DEF Count
<1>3. BusyWorkers' = BusyWorkers
  BY DEF BusyWorkers
<1>4. Shape'
  BY <1>1 DEF IInv, Shape
<1> QED
  BY <1>2, <1>3, <1>4 DEF IInv, Balance

\* update_symbol_entry, the scan and the marking of a candidate
LEMMA EngineKeeps ==
  ASSUME IInv, NEW t \in Io,
         \/ UpdateQualified(t) \/ UpdateBits(t) \/ SkipScan(t)
         \/ FireCheck(t) \/ Mark(t) \/ MarkBits(t) \/ Suppress(t)
  PROVE  IInv'
<1>0. Flags /\ io[t] \in Thread /\ ThreadOK(io[t])
  BY DEF IInv, Shape
<1>1. CASE UpdateQualified(t)
  <2> DEFINE r == [io[t] EXCEPT !.pc = "reset"]
  <2>1. r \in Thread /\ ThreadOK(r) /\ (r.pc \in Holding <=> io[t].pc \in Holding)
    BY <1>1, <1>0 DEF UpdateQualified, Thread, ThreadOK, Serving, Holding
  <2>2. io' = [io EXCEPT ![t] = r] /\ UNCHANGED <<g_active_loops, queue, worker>>
    BY <1>1 DEF UpdateQualified, slots, executor
  <2>3. Flags'
    BY <1>1, <1>0 DEF UpdateQualified, Flags, cache, slots, loops, executor, Put, ThreadOK
  <2> QED
    BY <2>1, <2>2, <2>3, ThreadKeeps
<1>2. CASE UpdateBits(t)
  <2> DEFINE r == [Idle EXCEPT !.pc = "scan", !.sym = io[t].sym]
  <2>1. r \in Thread /\ ThreadOK(r) /\ (r.pc \in Holding <=> io[t].pc \in Holding)
    BY <1>2, <1>0, IdleIsThread DEF UpdateBits, Thread, ThreadOK, Serving, Holding, Idle
  <2>2. io' = [io EXCEPT ![t] = r] /\ UNCHANGED <<g_active_loops, queue, worker>>
    BY <1>2 DEF UpdateBits, slots, executor
  <2>3. Flags'
    BY <1>2, <1>0 DEF UpdateBits, Flags, cache, slots, loops, executor,
                     sync_entry_state_bits, Put, ThreadOK
  <2> QED
    BY <2>1, <2>2, <2>3, ThreadKeeps
<1>3. CASE SkipScan(t)
  <2> DEFINE r == Idle
  <2>1. r \in Thread /\ ThreadOK(r) /\ (r.pc \in Holding <=> io[t].pc \in Holding)
    BY <1>3, <1>0, IdleIsThread DEF SkipScan, Thread, ThreadOK, Serving, Holding, Idle
  <2>2. io' = [io EXCEPT ![t] = r] /\ UNCHANGED <<g_active_loops, queue, worker>>
    BY <1>3 DEF SkipScan, slots, executor
  <2>3. Flags'
    BY <1>3, <1>0 DEF SkipScan, Flags, cache, slots, loops, executor
  <2> QED
    BY <2>1, <2>2, <2>3, ThreadKeeps
<1>4. CASE FireCheck(t)
  <2> DEFINE r == IF entry_suppressed THEN Idle ELSE [Idle EXCEPT !.pc = "select"]
  <2>1. r \in Thread /\ ThreadOK(r) /\ (r.pc \in Holding <=> io[t].pc \in Holding)
    BY <1>4, <1>0, IdleIsThread DEF FireCheck, Thread, ThreadOK, Serving, Holding, Idle
  <2>2. io' = [io EXCEPT ![t] = r] /\ UNCHANGED <<g_active_loops, queue, worker>>
    BY <1>4 DEF FireCheck, slots, executor
  <2>3. Flags'
    BY <1>4, <1>0 DEF FireCheck, Flags, cache, slots, loops, executor
  <2> QED
    BY <2>1, <2>2, <2>3, ThreadKeeps
<1>5. CASE Mark(t)
  <2> DEFINE r == [io[t] EXCEPT !.pc = "mark_bits"]
  <2>1. r \in Thread /\ ThreadOK(r) /\ (r.pc \in Holding <=> io[t].pc \in Holding)
    BY <1>5, <1>0 DEF Mark, Thread, ThreadOK, Serving, Holding
  <2>2. io' = [io EXCEPT ![t] = r] /\ UNCHANGED <<g_active_loops, queue, worker>>
    BY <1>5 DEF Mark, slots, executor
  <2>3. Flags'
    BY <1>5, <1>0 DEF Mark, Flags, cache, slots, loops, executor, ThreadOK
  <2> QED
    BY <2>1, <2>2, <2>3, ThreadKeeps
<1>6. CASE MarkBits(t)
  <2> DEFINE r == [io[t] EXCEPT !.pc = "callback"]
  <2>1. r \in Thread /\ ThreadOK(r) /\ (r.pc \in Holding <=> io[t].pc \in Holding)
    BY <1>6, <1>0 DEF MarkBits, Thread, ThreadOK, Serving, Holding
  <2>2. io' = [io EXCEPT ![t] = r] /\ UNCHANGED <<g_active_loops, queue, worker>>
    BY <1>6 DEF MarkBits, slots, executor
  <2>3. Flags'
    BY <1>6, <1>0 DEF MarkBits, Flags, cache, slots, loops, executor,
                     sync_entry_state_bits, Put, ThreadOK
  <2> QED
    BY <2>1, <2>2, <2>3, ThreadKeeps
<1>7. CASE Suppress(t)
  <2> DEFINE r == [io[t] EXCEPT !.pc = "enqueue"]
  <2>1. r \in Thread /\ ThreadOK(r) /\ (r.pc \in Holding <=> io[t].pc \in Holding)
    BY <1>7, <1>0 DEF Suppress, Thread, ThreadOK, Serving, Holding
  <2>2. io' = [io EXCEPT ![t] = r] /\ UNCHANGED <<g_active_loops, queue, worker>>
    BY <1>7 DEF Suppress, slots, executor
  <2>3. Flags'
    BY <1>7, <1>0 DEF Suppress, Flags, cache, slots, loops, executor
  <2> QED
    BY <2>1, <2>2, <2>3, ThreadKeeps
<1> QED
  BY <1>1, <1>2, <1>3, <1>4, <1>5, <1>6, <1>7

LEMMA UpdateStartKeeps ==
  ASSUME IInv, NEW t \in Io, UpdateStart(t) PROVE IInv'
<1>1. PICK s \in Symbols, gate \in {"pass", "fail", "clear"} :
        io' = [io EXCEPT ![t] =
                 [@ EXCEPT !.pc = IF gate = "clear"
                                     /\ s \notin qualified \cup signal_fired
                                  THEN "sync" ELSE "store",
                           !.sym = s, !.pass = gate = "pass",
                           !.reset = \/ (s \in qualified) # (gate = "pass")
                                     \/ gate = "clear"]]
  BY DEF UpdateStart
<1> DEFINE r == [io[t] EXCEPT !.pc = IF gate = "clear"
                                        /\ s \notin qualified \cup signal_fired
                                     THEN "sync" ELSE "store",
                              !.sym = s, !.pass = gate = "pass",
                              !.reset = \/ (s \in qualified) # (gate = "pass")
                                        \/ gate = "clear"]
<1>2. io[t] \in Thread /\ io[t].pc = "idle"
  BY DEF IInv, Shape, UpdateStart
<1>3. r \in Thread /\ ThreadOK(r) /\ r.pc \notin Holding /\ io[t].pc \notin Holding
  BY <1>2 DEF Thread, ThreadOK, Serving, Holding
<1>4. io' = [io EXCEPT ![t] = r] /\ UNCHANGED <<g_active_loops, queue, worker>>
  BY <1>1, <1>2 DEF UpdateStart, slots, executor
<1>5. Flags'
  BY DEF IInv, Shape, UpdateStart, Flags, cache, slots, loops, executor
<1> QED
  BY <1>3, <1>4, <1>5, ThreadKeeps

LEMMA UpdateResetKeeps ==
  ASSUME IInv, NEW t \in Io, UpdateReset(t) PROVE IInv'
<1>1. io[t] \in Thread /\ ThreadOK(io[t]) /\ io[t].pc = "reset"
  BY DEF UpdateReset, IInv, Shape
<1>2. Flags' /\ UNCHANGED <<g_active_loops, queue, worker>>
  BY DEF UpdateReset, IInv, Shape, Flags, slots, loops, executor
<1>3. CASE io[t].reset
  <2> DEFINE r == [io[t] EXCEPT !.pc = "sync"]
  <2>1. r \in Thread /\ ThreadOK(r) /\ r.pc \notin Holding /\ io[t].pc \notin Holding
    BY <1>1 DEF Thread, ThreadOK, Serving, Holding
  <2>2. io' = [io EXCEPT ![t] = r]
    BY <1>3 DEF UpdateReset
  <2> QED
    BY <1>2, <2>1, <2>2, ThreadKeeps
<1>4. CASE ~io[t].reset
  <2> DEFINE r == [io[t] EXCEPT !.pc = "sync", !.fired = io[t].sym \in signal_fired]
  <2>1. \A q \in Thread, b \in BOOLEAN :
          [q EXCEPT !.pc = "sync", !.fired = b] \in Thread
    BY DEF Thread
  <2>2. r \in Thread
    <3>1. (io[t].sym \in signal_fired) \in BOOLEAN
      BY SMT
    <3> QED
      BY <1>1, <2>1, <3>1, Zenon
  <2>3. io' = [io EXCEPT ![t] = r]
    BY <1>4 DEF UpdateReset, IInv, Shape
  <2>4. r.pc = "sync" /\ r.sym = io[t].sym
    BY <1>1 DEF Thread
  <2>5. ThreadOK(r) /\ r.pc \notin Holding /\ io[t].pc \notin Holding
    BY <1>1, <2>4 DEF ThreadOK, Serving, Holding
  <2> QED
    BY <1>2, <2>2, <2>3, <2>5, ThreadKeeps
<1> QED
  BY <1>3, <1>4

LEMMA SelectKeeps ==
  ASSUME IInv, NEW t \in Io, Select(t) PROVE IInv'
<1>1. PICK sel \in Selections :
        io' = [io EXCEPT ![t] = IF sel = <<>> THEN Idle
                                ELSE [Idle EXCEPT !.pc = "emit", !.sel = sel]]
  BY DEF Select
<1> DEFINE r == IF sel = <<>> THEN Idle
                ELSE [Idle EXCEPT !.pc = "emit", !.sel = sel]
<1>2. sel \in Seq(Candidate)
  BY <1>1, SelectionsAreCandidates DEF IInv
<1>3. r \in Thread /\ ThreadOK(r) /\ r.pc \notin Holding
  BY <1>2, IdleIsThread DEF Idle, Thread, ThreadOK, Serving, Holding
<1>4. io[t].pc \notin Holding /\ UNCHANGED <<g_active_loops, queue, worker>>
  BY DEF Select, Holding, slots, executor
<1>5. Flags'
  BY DEF IInv, Shape, Select, Flags, cache, slots, loops, executor
<1> QED
  BY <1>1, <1>3, <1>4, <1>5, ThreadKeeps

LEMMA NextCandidateKeeps ==
  ASSUME IInv, NEW t \in Io, io[t].pc \in Serving \ Holding, NextCandidate(t),
         Flags', UNCHANGED <<g_active_loops, queue, worker>>
  PROVE  IInv'
<1>1. PICK r \in Thread : /\ ThreadOK(r) /\ io' = [io EXCEPT ![t] = r]
                          /\ r.pc \in {"idle", "emit"}
  BY NextCandidateMoves DEF IInv
<1> QED
  BY <1>1, ThreadKeeps DEF Holding

LEMMA EmitKeeps ==
  ASSUME IInv, NEW t \in Io, Emit(t) PROVE IInv'
<1> DEFINE c == Head(io[t].sel)
<1>1. /\ io[t] \in Thread /\ ThreadOK(io[t]) /\ io[t].pc = "emit"
      /\ io[t].pc \in Serving \ Holding
  BY DEF Emit, IInv, Shape, Serving, Holding
<1>2. Flags' /\ UNCHANGED <<g_active_loops, queue, worker>>
  BY DEF Emit, IInv, Shape, Flags, cache, slots, loops, executor
<1>3. c.sym \in Symbols
  BY <1>1, HeadIsCandidate DEF IInv, Candidate
<1> HIDE DEF c
<1>4. CASE NextCandidate(t)
  BY <1>1, <1>2, <1>4, NextCandidateKeeps
<1>5. ASSUME NEW to \in {"callback", "mark"},
             io' = [io EXCEPT ![t].pc = to, ![t].sym = c.sym]
      PROVE  IInv'
  <2> DEFINE r == [io[t] EXCEPT !.pc = to, !.sym = c.sym]
  <2>1. r \in Thread /\ ThreadOK(r) /\ r.pc \notin Holding
    BY <1>1, <1>3 DEF Thread, ThreadOK, Serving, Holding
  <2>2. io' = [io EXCEPT ![t] = r]
    BY <1>5 DEF IInv, Shape
  <2> QED
    BY <1>1, <1>2, <2>1, <2>2, ThreadKeeps
<1> QED
  BY <1>4, <1>5 DEF Emit, c

LEMMA CallbackKeeps ==
  ASSUME IInv, NEW t \in Io, Callback(t) PROVE IInv'
<1>1. /\ io[t] \in Thread /\ ThreadOK(io[t]) /\ io[t].pc = "callback"
      /\ io[t].pc \in Serving \ Holding
  BY DEF Callback, IInv, Shape, Serving, Holding
<1>2. Flags' /\ UNCHANGED <<g_active_loops, queue, worker>>
  BY DEF Callback, IInv, Shape, Flags, cache, slots, loops, executor
<1>3. CASE NextCandidate(t)
  BY <1>1, <1>2, <1>3, NextCandidateKeeps
<1>4. CASE io' = [io EXCEPT ![t].pc = "claim"]
  <2> DEFINE r == [io[t] EXCEPT !.pc = "claim"]
  <2>1. r \in Thread /\ ThreadOK(r) /\ r.pc \notin Holding
    BY <1>1 DEF Thread, ThreadOK, Serving, Holding
  <2>2. io' = [io EXCEPT ![t] = r]
    BY <1>4
  <2> QED
    BY <1>1, <1>2, <2>1, <2>2, ThreadKeeps
<1> QED
  BY <1>3, <1>4 DEF Callback

-----------------------------------------------------------------------------
(* Claiming a slot, passing it on, giving it back.                         *)

LEMMA ClaimLoadKeeps ==
  ASSUME IInv, NEW t \in Io, ClaimLoad(t) PROVE IInv'
<1>1. /\ io[t] \in Thread /\ ThreadOK(io[t]) /\ io[t].pc = "claim"
      /\ io[t].pc \in Serving \ Holding
  BY DEF ClaimLoad, IInv, Shape, Serving, Holding
<1>2. Flags' /\ UNCHANGED <<g_active_loops, queue, worker>>
  BY DEF ClaimLoad, IInv, Shape, Flags, cache, slots, loops, executor
<1>3. CASE NextCandidate(t)
  BY <1>1, <1>2, <1>3, NextCandidateKeeps
<1>4. CASE HasRoom /\ io' = [io EXCEPT ![t].pc = "cas", ![t].current = g_active_loops]
  <2> DEFINE r == [io[t] EXCEPT !.pc = "cas", !.current = g_active_loops]
  <2>1. g_active_loops \in 0..MaxPositions /\ g_active_loops < MaxPositions
    BY <1>4 DEF HasRoom, IInv, Balance
  <2>2. r \in Thread /\ ThreadOK(r) /\ r.pc \notin Holding
    BY <1>1, <2>1 DEF Thread, ThreadOK, Serving, Holding
  <2>3. io' = [io EXCEPT ![t] = r]
    BY <1>4 DEF IInv, Shape
  <2> QED
    BY <1>1, <1>2, <2>2, <2>3, ThreadKeeps
<1> QED
  BY <1>3, <1>4 DEF ClaimLoad

\* the exchange succeeds only on the value that left room
LEMMA ClaimCasKeeps ==
  ASSUME IInv, NEW t \in Io, ClaimCas(t) PROVE IInv'
<1>1. /\ io[t] \in Thread /\ ThreadOK(io[t]) /\ io[t].pc = "cas"
      /\ io[t].current \in Nat /\ io[t].current < MaxPositions
      /\ io[t].pc \notin Holding
  BY DEF ClaimCas, IInv, Shape, Thread, ThreadOK, Holding
<1>2. Flags' /\ UNCHANGED <<queue, worker>>
  BY DEF ClaimCas, IInv, Shape, Flags, cache, loops, executor
<1>3. CASE ~CasSucceeds(t)
  <2> DEFINE r == [io[t] EXCEPT !.pc = "claim", !.current = 0]
  <2>1. r \in Thread /\ ThreadOK(r) /\ r.pc \notin Holding
    <3>1. 0 \in 0..MaxPositions
      BY Limits
    <3> QED
      BY <1>1, <3>1 DEF Thread, ThreadOK, Serving, Holding
  <2>2. io' = [io EXCEPT ![t] = r] /\ UNCHANGED g_active_loops
    BY <1>3 DEF ClaimCas, IInv, Shape
  <2> QED
    BY <1>1, <1>2, <2>1, <2>2, ThreadKeeps
<1>4. CASE CasSucceeds(t)
  <2> DEFINE to == IF io[t].current + 1 >= MaxPositions THEN "suppress" ELSE "enqueue"
             r == [io[t] EXCEPT !.pc = to, !.current = 0]
  <2>1. r \in Thread /\ ThreadOK(r) /\ r.pc \in Holding
    <3>1. 0 \in 0..MaxPositions
      BY Limits
    <3> QED
      BY <1>1, <3>1 DEF Thread, ThreadOK, Serving, Holding
  <2>2. /\ io' = [io EXCEPT ![t] = r]
        /\ g_active_loops = io[t].current /\ g_active_loops' = g_active_loops + 1
    <3>1. /\ io[t].current = g_active_loops /\ g_active_loops' = io[t].current + 1
          /\ io' = [io EXCEPT ![t].pc = to, ![t].current = 0]
      BY <1>4 DEF ClaimCas, CasSucceeds
    <3> HIDE DEF to
    <3>2. io' = [io EXCEPT ![t] = r]
      BY <3>1 DEF IInv, Shape
    <3> QED
      BY <3>1, <3>2
  <2>3. /\ io' \in [Io -> Thread] /\ \A u \in Io : ThreadOK(io'[u])
        /\ Cardinality(Holders') = Cardinality(Holders) + Count(r.pc \in Holding)
             - Count(io[t].pc \in Holding)
    BY <2>1, <2>2, ThreadMoves DEF IInv
  <2>4. Cardinality(Holders') = Cardinality(Holders) + 1
    BY <1>1, <2>1, <2>3, CountsAreNat DEF Count
  <2>5. BusyWorkers' = BusyWorkers /\ Len(queue) \in Nat
    BY <1>2 DEF BusyWorkers, IInv, Shape, Flags
  <2>6. Balance'
    BY <1>1, <1>2, <2>2, <2>4, <2>5, CountsAreNat, Limits DEF Balance, IInv
  <2> QED
    BY <1>2, <2>3, <2>6 DEF IInv, Shape
<1> QED
  BY <1>3, <1>4

\* enqueue hands the slot to the queued task
LEMMA EnqueueKeeps ==
  ASSUME IInv, NEW t \in Io, Enqueue(t) PROVE IInv'
<1>1. /\ io[t] \in Thread /\ ThreadOK(io[t]) /\ io[t].pc = "enqueue"
      /\ io[t].pc \in Serving /\ io[t].pc \in Holding
      /\ io[t].sym \in Symbols /\ queue \in Seq(Symbols)
  BY DEF Enqueue, IInv, Shape, Flags, ThreadOK, Serving, Holding
<1>2. UNCHANGED <<g_active_loops, worker>>
  BY DEF Enqueue, slots
<1>3. CASE executor_running
  <2>1. queue' = Append(queue, io[t].sym) /\ NextCandidate(t)
    BY <1>3 DEF Enqueue
  <2>2. Flags'
    BY <1>1, <2>1 DEF Enqueue, IInv, Shape, Flags, cache, slots, loops
  <2>3. PICK r \in Thread : /\ ThreadOK(r) /\ io' = [io EXCEPT ![t] = r]
                            /\ r.pc \in {"idle", "emit"}
    BY <1>1, <2>1, NextCandidateMoves DEF IInv
  <2>4. /\ io' \in [Io -> Thread] /\ \A u \in Io : ThreadOK(io'[u])
        /\ Cardinality(Holders') = Cardinality(Holders) + Count(r.pc \in Holding)
             - Count(io[t].pc \in Holding)
    BY <2>3, ThreadMoves DEF IInv
  <2>5. Cardinality(Holders') = Cardinality(Holders) - 1
    BY <1>1, <2>3, <2>4, CountsAreNat DEF Count, Holding
  <2>6. BusyWorkers' = BusyWorkers /\ Len(queue') = Len(queue) + 1 /\ Len(queue) \in Nat
    BY <1>1, <1>2, <2>1 DEF BusyWorkers
  <2>7. Balance'
    BY <1>2, <2>5, <2>6, CountsAreNat DEF Balance, IInv
  <2> QED
    BY <1>2, <2>2, <2>4, <2>7 DEF IInv, Shape
<1>4. CASE ~executor_running
  <2> DEFINE r == [io[t] EXCEPT !.pc = "release"]
  <2>1. r \in Thread /\ ThreadOK(r) /\ r.pc \in Holding
    BY <1>1 DEF Thread, ThreadOK, Serving, Holding
  <2>2. io' = [io EXCEPT ![t] = r] /\ UNCHANGED queue
    BY <1>4 DEF Enqueue
  <2>3. Flags'
    BY <2>2 DEF Enqueue, IInv, Shape, Flags, cache, slots, loops
  <2> QED
    BY <1>1, <1>2, <2>1, <2>2, <2>3, ThreadKeeps
<1> QED
  BY <1>3, <1>4

LEMMA ReleaseKeeps ==
  ASSUME IInv, NEW t \in Io, Release(t) PROVE IInv'
<1>1. /\ io[t] \in Thread /\ ThreadOK(io[t]) /\ io[t].pc = "release"
      /\ io[t].pc \in Holding /\ t \in Holders
  BY DEF Release, IInv, Shape, Holders, Holding
<1>2. Flags' /\ UNCHANGED <<queue, worker>>
  BY DEF Release, IInv, Shape, Flags, cache, loops, executor
<1>3. Cardinality(Holders) # 0
  BY <1>1, CountsAreNat, FS_EmptySet
<1>4. g_active_loops \in 1..MaxPositions
  BY <1>3, CountsAreNat, Limits DEF IInv, Balance, Shape, Flags
<1> DEFINE r == [io[t] EXCEPT !.pc = "unsuppress", !.current = g_active_loops - 1]
<1>5. r \in Thread /\ ThreadOK(r) /\ r.pc \notin Holding
  <2> DEFINE left == g_active_loops - 1
  <2>1. left \in 0..MaxPositions /\ left < MaxPositions
    BY <1>4, Limits
  <2> HIDE DEF left
  <2>2. [io[t] EXCEPT !.pc = "unsuppress", !.current = left] \in Thread
    BY <1>1, <2>1 DEF Thread, Serving
  <2>3. /\ ThreadOK([io[t] EXCEPT !.pc = "unsuppress", !.current = left])
        /\ [io[t] EXCEPT !.pc = "unsuppress", !.current = left].pc \notin Holding
    BY <1>1, <2>1 DEF Thread, ThreadOK, Serving, Holding
  <2> QED
    BY <2>2, <2>3 DEF left
<1>6. io' = [io EXCEPT ![t] = r] /\ g_active_loops' = g_active_loops - 1
  <2>1. /\ io' = [io EXCEPT ![t].pc = "unsuppress", ![t].current = g_active_loops - 1]
        /\ g_active_loops' = g_active_loops - 1
    BY DEF Release
  <2>2. io' = [io EXCEPT ![t] = r]
    BY <2>1 DEF IInv, Shape
  <2> QED
    BY <2>1, <2>2
<1>7. /\ io' \in [Io -> Thread] /\ \A u \in Io : ThreadOK(io'[u])
      /\ Cardinality(Holders') = Cardinality(Holders) + Count(r.pc \in Holding)
           - Count(io[t].pc \in Holding)
  BY <1>5, <1>6, ThreadMoves DEF IInv
<1>8. Cardinality(Holders') = Cardinality(Holders) - 1
  BY <1>1, <1>5, <1>7, CountsAreNat DEF Count
<1>9. BusyWorkers' = BusyWorkers /\ Len(queue) \in Nat
  BY <1>2 DEF BusyWorkers, IInv, Shape, Flags
<1>10. Balance'
  BY <1>2, <1>4, <1>6, <1>8, <1>9, CountsAreNat, Limits DEF Balance, IInv
<1> QED
  BY <1>2, <1>7, <1>10 DEF IInv, Shape

LEMMA UnsuppressKeeps ==
  ASSUME IInv, NEW t \in Io, Unsuppress(t) PROVE IInv'
<1>1. io[t].pc \in Serving \ Holding
  BY DEF Unsuppress, Serving, Holding
<1>2. /\ Flags' /\ UNCHANGED <<g_active_loops, queue, worker>>
      /\ NextCandidate(t)
  BY DEF Unsuppress, IInv, Shape, Flags, cache, loops, executor
<1> QED
  BY <1>1, <1>2, NextCandidateKeeps

-----------------------------------------------------------------------------
(* Steps of a worker.                                                      *)

LEMMA WorkerKeeps ==
  ASSUME IInv, NEW w \in Workers, NEW r \in Task, TaskOK(r),
         worker' = [worker EXCEPT ![w] = r], Flags',
         r.pc \in Busy <=> worker[w].pc \in Busy,
         UNCHANGED <<g_active_loops, queue, io>>
  PROVE  IInv'
<1>1. /\ worker' \in [Workers -> Task] /\ \A v \in Workers : TaskOK(worker'[v])
      /\ Cardinality(BusyWorkers') = Cardinality(BusyWorkers)
           + Count(r.pc \in Busy) - Count(worker[w].pc \in Busy)
  BY WorkerMoves DEF IInv
<1>2. Cardinality(BusyWorkers') = Cardinality(BusyWorkers)
  BY <1>1, CountsAreNat DEF Count
<1>3. Holders' = Holders
  BY DEF Holders
<1>4. Shape'
  BY <1>1 DEF IInv, Shape
<1> QED
  BY <1>2, <1>3, <1>4 DEF IInv, Balance

\* the task runs its loop, with its slot
LEMMA LoopMoves ==
  ASSUME IInv, NEW w \in Workers, worker[w].pc \in Busy, NEW to \in Busy,
         worker' = [worker EXCEPT ![w].pc = to], Flags',
         UNCHANGED <<g_active_loops, queue, io>>
  PROVE  IInv'
<1> DEFINE r == [worker[w] EXCEPT !.pc = to]
<1>1. worker[w] \in Task /\ TaskOK(worker[w]) /\ worker' = [worker EXCEPT ![w] = r]
  BY DEF IInv, Shape
<1>2. r \in Task /\ r.pc = to /\ r.sym = worker[w].sym
  BY <1>1 DEF Task
<1>3. TaskOK(r)
  BY <1>1, <1>2 DEF TaskOK, Busy, Running
<1> QED
  BY <1>1, <1>2, <1>3, WorkerKeeps

LEMMA LoopKeeps ==
  ASSUME IInv, NEW w \in Workers,
         \/ Refuse(w) \/ Trade(w) \/ Split(w) \/ SplitKeeps(w) \/ Replace(w)
         \/ Reopen(w) \/ Close(w) \/ CriticalStop(w) \/ StopReopen(w)
         \/ LoopExit(w)
  PROVE  IInv'
<1>1. Flags /\ worker[w] \in Task /\ TaskOK(worker[w])
  BY DEF IInv, Shape
<1>2. worker[w].pc \in Busy /\ worker[w].sym \in Symbols
  <2>1. worker[w].pc \in Busy
    BY DEF Refuse, Trade, Split, SplitKeeps, Replace, Reopen, Close,
           CriticalStop, StopReopen, LoopExit, Busy, Running
  <2> QED
    BY <1>1, <2>1 DEF TaskOK, Busy, Running
<1>3. PICK to \in Busy : worker' = [worker EXCEPT ![w].pc = to]
  <2>1. {"guard", "loop", "split", "reopen", "stop_reopen"} \subseteq Busy
    BY DEF Busy, Running
  <2> QED
    BY <2>1 DEF Refuse, Trade, Split, SplitKeeps, Replace, Reopen, Close,
                CriticalStop, StopReopen, LoopExit
<1>4. /\ UNCHANGED <<g_active_loops, queue, io, executor_running>>
      /\ UNCHANGED <<qualified, signal_fired, candidate_bits, fired_bits>>
  BY DEF Refuse, Trade, Split, SplitKeeps, Replace, Reopen, Close,
         CriticalStop, StopReopen, LoopExit, cache, slots, executor
<1>5. tracked' \subseteq Symbols
  BY <1>1, <1>2 DEF Refuse, Trade, Split, SplitKeeps, Replace, Reopen, Close,
         CriticalStop, StopReopen, LoopExit, loops, Flags
<1>6. /\ om_running' \in {om_running, FALSE} /\ critical' \in {critical, TRUE}
      /\ entry_suppressed' \in {entry_suppressed, TRUE}
  BY DEF Refuse, Trade, Split, SplitKeeps, Replace, Reopen, Close,
         CriticalStop, StopReopen, LoopExit, loops, slots
<1>7. Flags'
  BY <1>1, <1>4, <1>5, <1>6 DEF Flags
<1> QED
  BY <1>2, <1>3, <1>4, <1>7, LoopMoves

\* a queued task hands its slot to the worker that runs it
LEMMA PickUpKeeps ==
  ASSUME IInv, NEW w \in Workers, PickUp(w) PROVE IInv'
<1>1. /\ worker[w] \in Task /\ TaskOK(worker[w]) /\ worker[w].pc = "idle"
      /\ worker[w].pc \notin Busy
      /\ queue \in Seq(Symbols) /\ queue # <<>>
  BY DEF PickUp, IInv, Shape, Flags, Busy, Running
<1>2. /\ Head(queue) \in Symbols /\ queue' \in Seq(Symbols)
      /\ Len(queue) \in Nat /\ Len(queue') = Len(queue) - 1
  BY <1>1 DEF PickUp
<1> DEFINE r == [worker[w] EXCEPT !.pc = "run", !.sym = Head(queue)]
<1>3. r \in Task /\ TaskOK(r) /\ r.pc \in Busy
  <2> DEFINE s == Head(queue)
  <2>1. s \in Symbols
    BY <1>2
  <2> HIDE DEF s
  <2>2. /\ [worker[w] EXCEPT !.pc = "run", !.sym = s] \in Task
        /\ TaskOK([worker[w] EXCEPT !.pc = "run", !.sym = s])
        /\ [worker[w] EXCEPT !.pc = "run", !.sym = s].pc \in Busy
    BY <1>1, <2>1 DEF Task, TaskOK, Busy
  <2> QED
    BY <2>2 DEF s
<1>4. worker' = [worker EXCEPT ![w] = r]
  <2>1. worker' = [worker EXCEPT ![w].pc = "run", ![w].sym = Head(queue)]
    BY DEF PickUp
  <2> QED
    BY <2>1 DEF IInv, Shape
<1>5. /\ worker' \in [Workers -> Task] /\ \A v \in Workers : TaskOK(worker'[v])
      /\ Cardinality(BusyWorkers') = Cardinality(BusyWorkers)
           + Count(r.pc \in Busy) - Count(worker[w].pc \in Busy)
  BY <1>3, <1>4, WorkerMoves DEF IInv
<1>6. Cardinality(BusyWorkers') = Cardinality(BusyWorkers) + 1
  BY <1>1, <1>3, <1>5, CountsAreNat DEF Count
<1>7. UNCHANGED <<g_active_loops, io>> /\ Holders' = Holders
  BY DEF PickUp, Holders, slots
<1>8. Balance'
  BY <1>2, <1>6, <1>7, CountsAreNat DEF IInv, Balance
<1>9. Flags'
  BY <1>2 DEF PickUp, IInv, Shape, Flags, cache, slots, loops
<1> QED
  BY <1>5, <1>7, <1>8, <1>9 DEF IInv, Shape

LEMMA GuardReleaseKeeps ==
  ASSUME IInv, NEW w \in Workers, GuardRelease(w) PROVE IInv'
<1>1. /\ worker[w] \in Task /\ TaskOK(worker[w]) /\ worker[w].pc = "guard"
      /\ worker[w].pc \in Busy /\ w \in BusyWorkers /\ worker[w].sym \in Symbols
  BY DEF GuardRelease, IInv, Shape, BusyWorkers, Busy, TaskOK
<1>2. Flags' /\ UNCHANGED <<queue, io>>
  BY DEF GuardRelease, IInv, Shape, Flags, cache, loops, executor
<1>3. Cardinality(BusyWorkers) # 0
  BY <1>1, CountsAreNat, FS_EmptySet
<1>4. g_active_loops \in 1..MaxPositions /\ Len(queue) \in Nat
  BY <1>3, CountsAreNat, Limits DEF IInv, Balance, Shape, Flags
<1> DEFINE left == g_active_loops - 1
           r == [worker[w] EXCEPT !.pc = "guard_unsuppress", !.remaining = left]
<1>5. left \in 0..MaxPositions /\ left < MaxPositions
  BY <1>4, Limits
<1>6. worker' = [worker EXCEPT ![w] = r] /\ g_active_loops' = left
  <2>1. /\ worker' = [worker EXCEPT ![w].pc = "guard_unsuppress",
                                    ![w].remaining = left]
        /\ g_active_loops' = left
    BY DEF GuardRelease
  <2> HIDE DEF left
  <2> QED
    BY <2>1 DEF IInv, Shape
<1>7. r \in Task /\ TaskOK(r) /\ r.pc \notin Busy
  <2> HIDE DEF left
  <2> QED
    BY <1>1, <1>5 DEF Task, TaskOK, Busy, Running
<1>8. /\ worker' \in [Workers -> Task] /\ \A v \in Workers : TaskOK(worker'[v])
      /\ Cardinality(BusyWorkers') = Cardinality(BusyWorkers)
           + Count(r.pc \in Busy) - Count(worker[w].pc \in Busy)
  BY <1>6, <1>7, WorkerMoves DEF IInv
<1>9. Cardinality(BusyWorkers') = Cardinality(BusyWorkers) - 1
  BY <1>1, <1>7, <1>8, CountsAreNat DEF Count
<1>10. Holders' = Holders
  BY <1>2 DEF Holders
<1>11. Balance'
  BY <1>2, <1>4, <1>5, <1>6, <1>9, <1>10, CountsAreNat DEF IInv, Balance
<1> QED
  BY <1>2, <1>8, <1>11 DEF IInv, Shape

LEMMA GuardUnsuppressKeeps ==
  ASSUME IInv, NEW w \in Workers, GuardUnsuppress(w) PROVE IInv'
<1>1. NoTask \in Task /\ TaskOK(NoTask) /\ NoTask.pc \notin Busy
  <2>1. 0 \in 0..MaxPositions
    BY Limits
  <2> QED
    BY <2>1 DEF NoTask, Task, TaskOK, Busy, Running
<1>2. worker[w].pc \notin Busy /\ worker' = [worker EXCEPT ![w] = NoTask]
  BY DEF GuardUnsuppress, Busy, Running
<1>3. Flags' /\ UNCHANGED <<g_active_loops, queue, io>>
  BY DEF GuardUnsuppress, IInv, Shape, Flags, cache, loops, executor
<1> QED
  BY <1>1, <1>2, <1>3, WorkerKeeps

-----------------------------------------------------------------------------
LEMMA InitSlots == ASSUME Init PROVE IInv
<1>1. 0 \in 0..MaxPositions
  BY Limits
<1>2. NoTask \in Task /\ TaskOK(NoTask)
  BY <1>1 DEF NoTask, Task, TaskOK
<1>3. Holders = {} /\ BusyWorkers = {}
  BY DEF Init, Holders, BusyWorkers, Idle, NoTask, Holding, Busy, Running
<1>4. Cardinality(Holders) = 0 /\ Cardinality(BusyWorkers) = 0
  BY <1>3, FS_EmptySet
<1>5. Flags
  <2>1. queue \in Seq(Symbols)
    BY EmptySeq DEF Init
  <2> QED
    BY <2>1, Zenon DEF Init, Flags
<1>6. Shape
  <2>1. \A t \in Io : io[t] = Idle
    BY DEF Init
  <2>2. \A w \in Workers : worker[w] = NoTask
    BY DEF Init
  <2>3. io \in [Io -> Thread] /\ worker \in [Workers -> Task]
    BY <1>2, IdleIsThread DEF Init
  <2> QED
    BY <1>2, <1>5, <2>1, <2>2, <2>3, IdleIsThread DEF Shape
<1>7. Len(queue) = 0 /\ g_active_loops = 0
  BY DEF Init
<1> QED
  BY <1>1, <1>4, <1>6, <1>7 DEF IInv, Balance

LEMMA IdleSlots == ASSUME IInv, UNCHANGED vars PROVE IInv'
  BY DEF IInv, Shape, Flags, Balance, Holders, BusyWorkers, vars, cache, slots,
         loops, executor

LEMMA StartKeeps == ASSUME IInv, StartExecutor PROVE IInv'
<1>1. Flags' /\ UNCHANGED <<g_active_loops, queue, io, worker>>
  BY DEF StartExecutor, IInv, Shape, Flags, cache, slots, loops
<1> QED
  BY <1>1 DEF IInv, Shape, Balance, Holders, BusyWorkers

LEMMA StepSlots == ASSUME IInv, [Next]_vars PROVE IInv'
<1>1. ASSUME NEW t \in Io, Engine(t) PROVE IInv'
  <2>1. CASE \/ UpdateQualified(t) \/ UpdateBits(t) \/ SkipScan(t)
             \/ FireCheck(t) \/ Mark(t) \/ MarkBits(t) \/ Suppress(t)
    BY <2>1, EngineKeeps
  <2>2. CASE UpdateStart(t) \/ UpdateReset(t) \/ Select(t) \/ Emit(t) \/ Callback(t)
    BY <2>2, UpdateStartKeeps, UpdateResetKeeps, SelectKeeps, EmitKeeps,
       CallbackKeeps
  <2>3. CASE ClaimLoad(t) \/ ClaimCas(t) \/ Enqueue(t) \/ Release(t) \/ Unsuppress(t)
    BY <2>3, ClaimLoadKeeps, ClaimCasKeeps, EnqueueKeeps, ReleaseKeeps,
       UnsuppressKeeps
  <2> QED
    BY <1>1, <2>1, <2>2, <2>3 DEF Engine
<1>2. ASSUME NEW w \in Workers,
             Prompt(w) \/ Replace(w) \/ Close(w) \/ CriticalStop(w)
      PROVE  IInv'
  BY <1>2, LoopKeeps, PickUpKeeps, GuardReleaseKeeps, GuardUnsuppressKeeps
  DEF Prompt
<1> QED
  BY <1>1, <1>2, StartKeeps, IdleSlots DEF Next

\* Types of the engine's flags, the threads and the workers; the counter and
\* its copies never leave 0..MAX_POSITIONS.
THEOREM SlotTypes == Spec => []TypeOK
<1>1. IInv => TypeOK
  BY DEF IInv, Shape, Flags, Thread, Task, Balance, TypeOK
<1> QED
  BY <1>1, InitSlots, StepSlots, PTL DEF Spec

LEMMA SlotsInvariant == Spec => []IInv
  BY InitSlots, StepSlots, PTL DEF Spec

\* Every claimed slot has exactly one owner and there are never more than
\* MAX_POSITIONS, however the exchanges of try_claim_lifecycle_slot and the
\* releases interleave.
THEOREM SlotsAreOwned == Spec => []SlotsOwned
<1>1. IInv => SlotsOwned
  BY Limits DEF IInv, Balance, SlotsOwned, Owners, Holders, BusyWorkers, Holding, Busy
<1> QED
  BY <1>1, SlotsInvariant, PTL

\* A queued task never waits for a running loop to end: the workers that are
\* not busy are at least as many as the tasks, because every task and every
\* busy worker owns one of as many slots as there are workers.
THEOREM QueuedTasksHaveWorkers == Spec => []QueuedHasWorker
<1>1. IInv => QueuedHasWorker
  <2> SUFFICES ASSUME IInv PROVE QueuedHasWorker
    OBVIOUS
  <2> DEFINE Free == {w \in Workers : worker[w].pc \in {"idle", "guard_unsuppress"}}
  <2>1. Free = Workers \ BusyWorkers /\ Workers \cap BusyWorkers = BusyWorkers
    BY DEF IInv, Shape, Task, BusyWorkers, Busy, Running
  <2>2. Cardinality(Free) = MaxPositions - Cardinality(BusyWorkers)
    BY ZenonT(40), <2>1, FS_Difference, SlotAssumption
  <2>3. Len(queue) + Cardinality(BusyWorkers) <= MaxPositions
    BY CountsAreNat, Limits DEF IInv, Balance, Shape, Flags
  <2>4. Len(queue) \in Nat
    BY DEF IInv, Shape, Flags
  <2>5. Len(queue) <= Cardinality(Free)
    BY <2>2, <2>3, <2>4, CountsAreNat, Limits
  <2> QED
    BY <2>5 DEF QueuedHasWorker
<1> QED
  BY <1>1, SlotsInvariant, PTL

-----------------------------------------------------------------------------
(* Who lifts the suppression.                                              *)

AboutToLift ==
  \/ \E t \in Io : io[t].pc = "unsuppress"
  \/ \E w \in Workers : worker[w].pc = "guard_unsuppress"

\* Short of a critical stop, suppressed entries always have somebody who will
\* lift the suppression: the owner of a slot, whose release comes first, or
\* one who released and is about to.  With one slot this is the same as
\* SuppressedOnlyWhenFull; with more, a slot may be free meanwhile.
SuppressionHasOwner ==
  entry_suppressed /\ ~critical => g_active_loops > 0 \/ AboutToLift

\* a step that leaves the suppression alone, gives back no slot and takes
\* nobody away who is about to lift it
LEMMA SuppressionStays ==
  ASSUME IInv, SuppressionHasOwner, UNCHANGED <<entry_suppressed, critical>>,
         g_active_loops > 0 => g_active_loops' > 0,
         \A t \in Io : io[t].pc = "unsuppress" => io'[t].pc = "unsuppress",
         \A w \in Workers : worker[w].pc = "guard_unsuppress"
                              => worker'[w].pc = "guard_unsuppress"
  PROVE  SuppressionHasOwner'
  BY DEF SuppressionHasOwner, AboutToLift

LEMMA EngineSuppression ==
  ASSUME IInv, SuppressionHasOwner, NEW t \in Io, Engine(t)
  PROVE  SuppressionHasOwner'
<1>1. io \in [Io -> Thread] /\ io[t] \in Thread /\ ThreadOK(io[t])
  BY DEF IInv, Shape
<1>2. CASE Suppress(t)
  <2>1. t \in Holders
    BY <1>2 DEF Suppress, Holders, Holding
  <2>2. Cardinality(Holders) # 0
    BY <2>1, CountsAreNat, FS_EmptySet
  <2>3. g_active_loops > 0 /\ g_active_loops' = g_active_loops
    BY <1>2, <2>2, CountsAreNat DEF Suppress, IInv, Balance, Shape, Flags
  <2> QED
    BY <2>3 DEF SuppressionHasOwner
<1>3. CASE Release(t)
  <2>1. io'[t].pc = "unsuppress"
    BY <1>1, <1>3 DEF Release, Thread
  <2> QED
    BY <2>1 DEF SuppressionHasOwner, AboutToLift
<1>4. CASE Unsuppress(t)
  <2>1. lifts_suppression(io[t].current)
    BY <1>1, <1>4 DEF Unsuppress, ThreadOK, lifts_suppression
  <2> QED
    BY <1>4, <2>1 DEF Unsuppress, SuppressionHasOwner
<1>5. CASE Engine(t) /\ ~Suppress(t) /\ ~Release(t) /\ ~Unsuppress(t)
  <2>1. UNCHANGED <<entry_suppressed, critical, worker>> /\ io[t].pc # "unsuppress"
    BY <1>5 DEF Engine, UpdateStart, UpdateQualified, UpdateReset, UpdateBits,
         SkipScan, FireCheck, Select, Emit, Mark, MarkBits, Callback, ClaimLoad,
         ClaimCas, Enqueue, slots, loops
  <2>2. g_active_loops > 0 => g_active_loops' > 0
    <3>1. CASE ClaimCas(t)
      BY <1>1, <3>1 DEF ClaimCas, Thread
    <3>2. CASE ~ClaimCas(t)
      BY <1>5, <3>2 DEF Engine, UpdateStart, UpdateQualified, UpdateReset,
           UpdateBits, SkipScan, FireCheck, Select, Emit, Mark, MarkBits,
           Callback, ClaimLoad, Enqueue, slots
    <3> QED
      BY <3>1, <3>2
  <2>3. \A u \in Io : u # t => io'[u] = io[u]
    <3>1. ASSUME NEW u \in Io, u # t PROVE io'[u] = io[u]
      BY <1>1, <1>5, <3>1 DEF Engine, UpdateStart, UpdateQualified, UpdateReset,
           UpdateBits, SkipScan, FireCheck, Select, Emit, Mark, MarkBits,
           Callback, ClaimLoad, ClaimCas, Enqueue, NextCandidate
    <3> QED
      BY <3>1
  <2> QED
    BY <2>1, <2>2, <2>3, SuppressionStays
<1> QED
  BY <1>2, <1>3, <1>4, <1>5

LEMMA WorkerSuppression ==
  ASSUME IInv, SuppressionHasOwner, NEW w \in Workers,
         Prompt(w) \/ Replace(w) \/ Close(w) \/ CriticalStop(w)
  PROVE  SuppressionHasOwner'
<1>1. worker \in [Workers -> Task] /\ worker[w] \in Task /\ TaskOK(worker[w])
  BY DEF IInv, Shape
<1>2. CASE CriticalStop(w)
  BY <1>2 DEF CriticalStop, SuppressionHasOwner
<1>3. CASE GuardRelease(w)
  <2>1. worker'[w].pc = "guard_unsuppress"
    BY <1>1, <1>3 DEF GuardRelease, Task
  <2> QED
    BY <2>1 DEF SuppressionHasOwner, AboutToLift
<1>4. CASE GuardUnsuppress(w)
  <2>1. lifts_suppression(worker[w].remaining)
    BY <1>1, <1>4 DEF GuardUnsuppress, TaskOK, lifts_suppression
  <2> QED
    BY <1>4, <2>1 DEF GuardUnsuppress, SuppressionHasOwner
<1>5. CASE ~CriticalStop(w) /\ ~GuardRelease(w) /\ ~GuardUnsuppress(w)
  <2>1. /\ UNCHANGED <<entry_suppressed, critical, io, g_active_loops>>
        /\ worker[w].pc # "guard_unsuppress"
    BY <1>5 DEF Prompt, PickUp, Refuse, Trade, Split, SplitKeeps, Replace,
         Reopen, Close, StopReopen, LoopExit, slots, loops
  <2>2. \A v \in Workers : v # w => worker'[v] = worker[v]
    BY <1>1, <1>5 DEF Prompt, PickUp, Refuse, Trade, Split, SplitKeeps, Replace,
         Reopen, Close, StopReopen, LoopExit
  <2> QED
    BY <2>1, <2>2, SuppressionStays
<1> QED
  BY <1>2, <1>3, <1>4, <1>5

\* Entries are never suppressed for good short of a critical stop, for every
\* MAX_POSITIONS: set_entry_suppressed(true) comes from the owner of a slot,
\* and every release ends with a look at the counter that lifts it.
THEOREM SuppressionIsOwned == Spec => []SuppressionHasOwner
<1>1. Init => SuppressionHasOwner
  BY DEF Init, SuppressionHasOwner
<1>2. ASSUME IInv, SuppressionHasOwner, [Next]_vars PROVE SuppressionHasOwner'
  <2>1. CASE StartExecutor
    BY <1>2, <2>1, SuppressionStays DEF StartExecutor, slots, loops
  <2>2. CASE UNCHANGED vars
    BY <1>2, <2>2, SuppressionStays DEF vars, slots, loops
  <2> QED
    BY <1>2, <2>1, <2>2, EngineSuppression, WorkerSuppression DEF Next
<1> QED
  BY <1>1, <1>2, SlotsInvariant, PTL DEF Spec

\* With one position, the default of TradingConfig::MAX_POSITIONS, entries
\* are suppressed only while the slot is taken or its release is not over.
THEOREM SuppressedOnlyWhenSlotTaken ==
  ASSUME MaxPositions = 1
  PROVE  Spec => []SuppressedOnlyWhenFull
<1>1. IInv /\ SuppressionHasOwner => SuppressedOnlyWhenFull
  BY DEF IInv, Balance, SuppressionHasOwner, AboutToLift, SuppressedOnlyWhenFull
<1> QED
  BY <1>1, SlotsInvariant, SuppressionIsOwned, PTL

=============================================================================
