--------------------------- MODULE MPMCRingBuffer ---------------------------
(***************************************************************************)
(* memory::MPMCRingBuffer: the queue behind LifecycleExecutor, the fill    *)
(* queries and the engine's signal queues.  Every cell has a sequence      *)
(* number; producers and consumers claim positions with compare-and-swap   *)
(* and hand the cell over by advancing its sequence.                       *)
(*                                                                         *)
(* One action is one atomic access.  Positions are size_t and wrap after   *)
(* 2^64 operations; the model bounds them by MaxPos instead, because a     *)
(* thread would have to sleep through 2^64 of them to meet its own ticket. *)
(***************************************************************************)
EXTENDS Integers, Sequences

CONSTANTS
  Capacity,              \* a power of two, so that pos & MASK is pos % Capacity;
                         \* with one cell "published" and "recycled" coincide
  Producers, Consumers,
  Items, Nothing,
  MaxPos                 \* bound of the model: pushes per behaviour

ASSUME RingAssumption ==
  /\ Capacity \in Nat \ {0, 1} /\ MaxPos \in Nat
  /\ Nothing \notin Items

VARIABLES
  enqueue_pos_, dequeue_pos_,
  sequence, data,        \* the cells of buffer_
  pusher, popper         \* the threads inside try_push and try_pop

vars == <<enqueue_pos_, dequeue_pos_, sequence, data, pusher, popper>>

Cells == 0..(Capacity - 1)
CellOf(pos) == pos % Capacity

Init ==
  /\ enqueue_pos_ = 0 /\ dequeue_pos_ = 0
  /\ sequence = [i \in Cells |-> i]
  /\ data = [i \in Cells |-> Nothing]
  /\ pusher = [p \in Producers |-> [pc |-> "out", pos |-> 0, item |-> Nothing]]
  /\ popper = [c \in Consumers |-> [pc |-> "out", pos |-> 0, item |-> Nothing]]

-----------------------------------------------------------------------------
(* try_push.                                                               *)

PushLoad(p) ==
  /\ pusher[p].pc \in {"out", "reload"}
  /\ \E v \in Items :
       /\ pusher[p].pc = "reload" => v = pusher[p].item
       /\ pusher' = [pusher EXCEPT ![p] =
                       [pc |-> "diff", pos |-> enqueue_pos_, item |-> v]]
  /\ UNCHANGED <<enqueue_pos_, dequeue_pos_, sequence, data, popper>>

\* mutant: a full buffer is not noticed
MayClaim_full(seq, pos) == seq <= pos

MayClaim(seq, pos) == seq = pos

\* the sequence is behind: the buffer is full; ahead: the position is stale
PushDiff(p) ==
  /\ pusher[p].pc = "diff"
  /\ LET seq == sequence[CellOf(pusher[p].pos)]
         pos == pusher[p].pos
     IN  pusher' = [pusher EXCEPT ![p] =
           CASE MayClaim(seq, pos) -> [@ EXCEPT !.pc = "cas"]
             [] ~MayClaim(seq, pos) /\ seq < pos -> [pc |-> "out", pos |-> 0, item |-> Nothing]
             [] seq > pos -> [@ EXCEPT !.pc = "reload"]]
  /\ UNCHANGED <<enqueue_pos_, dequeue_pos_, sequence, data, popper>>

PushTakes(p) == enqueue_pos_ = pusher[p].pos

\* a failed (or spuriously failing) CAS reloads the position
PushCas(p) ==
  /\ pusher[p].pc = "cas"
  /\ \/ /\ PushTakes(p) /\ enqueue_pos_ < MaxPos
        /\ enqueue_pos_' = pusher[p].pos + 1
        /\ pusher' = [pusher EXCEPT ![p].pc = "write"]
     \/ /\ pusher' = [pusher EXCEPT ![p].pc = "diff", ![p].pos = enqueue_pos_]
        /\ UNCHANGED enqueue_pos_
  /\ UNCHANGED <<dequeue_pos_, sequence, data, popper>>

PushWrite(p) ==
  /\ pusher[p].pc = "write"
  /\ data' = [data EXCEPT ![CellOf(pusher[p].pos)] = pusher[p].item]
  /\ pusher' = [pusher EXCEPT ![p].pc = "publish"]
  /\ UNCHANGED <<enqueue_pos_, dequeue_pos_, sequence, popper>>

PushPublish(p) ==
  /\ pusher[p].pc = "publish"
  /\ sequence' = [sequence EXCEPT ![CellOf(pusher[p].pos)] = pusher[p].pos + 1]
  /\ pusher' = [pusher EXCEPT ![p] = [pc |-> "out", pos |-> 0, item |-> Nothing]]
  /\ UNCHANGED <<enqueue_pos_, dequeue_pos_, data, popper>>

-----------------------------------------------------------------------------
(* try_pop.                                                                *)

PopLoad(c) ==
  /\ popper[c].pc \in {"out", "reload"}
  /\ popper' = [popper EXCEPT ![c].pc = "diff", ![c].pos = dequeue_pos_]
  /\ UNCHANGED <<enqueue_pos_, dequeue_pos_, sequence, data, pusher>>

PopDiff(c) ==
  /\ popper[c].pc = "diff"
  /\ LET seq == sequence[CellOf(popper[c].pos)]
         pos == popper[c].pos
     IN  popper' = [popper EXCEPT ![c] =
           CASE seq = pos + 1 -> [@ EXCEPT !.pc = "cas"]
             [] seq < pos + 1 -> [@ EXCEPT !.pc = "out", !.pos = 0]
             [] seq > pos + 1 -> [@ EXCEPT !.pc = "reload"]]
  /\ UNCHANGED <<enqueue_pos_, dequeue_pos_, sequence, data, pusher>>

PopCas(c) ==
  /\ popper[c].pc = "cas"
  /\ \/ /\ dequeue_pos_ = popper[c].pos
        /\ dequeue_pos_' = popper[c].pos + 1
        /\ popper' = [popper EXCEPT ![c].pc = "read"]
     \/ /\ popper' = [popper EXCEPT ![c].pc = "diff", ![c].pos = dequeue_pos_]
        /\ UNCHANGED dequeue_pos_
  /\ UNCHANGED <<enqueue_pos_, sequence, data, pusher>>

PopRead(c) ==
  /\ popper[c].pc = "read"
  /\ popper' = [popper EXCEPT ![c].pc = "recycle",
                              ![c].item = data[CellOf(popper[c].pos)]]
  /\ UNCHANGED <<enqueue_pos_, dequeue_pos_, sequence, data, pusher>>

\* pos + MASK + 1: the cell is free for the producer one round later
RecycledSequence(pos) == pos + Capacity

PopRecycle(c) ==
  /\ popper[c].pc = "recycle"
  /\ sequence' = [sequence EXCEPT ![CellOf(popper[c].pos)] =
                    RecycledSequence(popper[c].pos)]
  /\ popper' = [popper EXCEPT ![c].pc = "out", ![c].pos = 0]
  /\ UNCHANGED <<enqueue_pos_, dequeue_pos_, data, pusher>>

-----------------------------------------------------------------------------
Next ==
  \/ \E p \in Producers : PushLoad(p) \/ PushDiff(p) \/ PushCas(p)
                            \/ PushWrite(p) \/ PushPublish(p)
  \/ \E c \in Consumers : PopLoad(c) \/ PopDiff(c) \/ PopCas(c)
                            \/ PopRead(c) \/ PopRecycle(c)

Spec == Init /\ [][Next]_vars

-----------------------------------------------------------------------------
(* Properties.                                                             *)

\* Types of the positions (no consumer is ahead of the producers), the cells
\* and the threads' locals.
TypeOK ==
  /\ enqueue_pos_ \in 0..MaxPos /\ dequeue_pos_ \in 0..enqueue_pos_
  /\ sequence \in [Cells -> Nat]
  /\ data \in [Cells -> Items \cup {Nothing}]
  /\ pusher \in [Producers ->
       [pc : {"out", "reload", "diff", "cas", "write", "publish"},
        pos : Nat, item : Items \cup {Nothing}]]
  /\ popper \in [Consumers ->
       [pc : {"out", "reload", "diff", "cas", "read", "recycle"},
        pos : Nat, item : Items \cup {Nothing}]]

\* The plain (non-atomic) payload of a cell is never accessed by two threads
\* at once: the sequence numbers order every write before its one read and
\* every read before the next write.
NoDataRace ==
  LET Writing(p, i) == /\ pusher[p].pc \in {"write", "publish"}
                       /\ CellOf(pusher[p].pos) = i
      Reading(c, i) == /\ popper[c].pc \in {"read", "recycle"}
                       /\ CellOf(popper[c].pos) = i
  IN  \A i \in Cells :
        /\ \A p, q \in Producers : Writing(p, i) /\ Writing(q, i) => p = q
        /\ \A c, d \in Consumers : Reading(c, i) /\ Reading(d, i) => c = d
        /\ \A p \in Producers, c \in Consumers : ~(Writing(p, i) /\ Reading(c, i))

\* the item at a claimed position: still with its producer, or in its cell
ItemAt(pos) ==
  IF \E p \in Producers : pusher[p].pc = "write" /\ pusher[p].pos = pos
  THEN pusher[CHOOSE p \in Producers :
                pusher[p].pc = "write" /\ pusher[p].pos = pos].item
  ELSE data[CellOf(pos)]

AbstractFifo ==
  [i \in 1..(enqueue_pos_ - dequeue_pos_) |-> ItemAt(dequeue_pos_ + i - 1)]
AbstractGot ==
  [c \in Consumers |-> IF popper[c].pc = "read"
                       THEN data[CellOf(popper[c].pos)] ELSE popper[c].item]

Fifo == INSTANCE BoundedFifo WITH fifo <- AbstractFifo, got <- AbstractGot

\* The ring buffer implements a bounded FIFO: a push takes effect when its
\* compare-and-swap claims the position, a pop when its own does, every pop
\* returns the oldest item, nothing is lost, duplicated or overwritten, and
\* there are never more than Capacity items.
ImplementsFifo == Fifo!Spec

=============================================================================
