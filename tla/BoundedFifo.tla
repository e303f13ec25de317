---------------------------- MODULE BoundedFifo -----------------------------
(***************************************************************************)
(* What MPMCRingBuffer promises: a FIFO of at most Capacity items.  A push *)
(* takes effect at once or does nothing, a pop hands the oldest item to    *)
(* its consumer.  (A push may fail although there is room, and a pop may   *)
(* find nothing although there are items, while another thread is half-way *)
(* through its own operation: failing changes nothing here.)               *)
(***************************************************************************)
EXTENDS Naturals, Sequences

CONSTANTS Capacity, Items, Consumers, Nothing

VARIABLES
  fifo,   \* the items, oldest first
  got     \* what each consumer's last successful pop returned

Init == fifo = <<>> /\ got = [c \in Consumers |-> Nothing]

Push(v) ==
  /\ Len(fifo) < Capacity
  /\ fifo' = Append(fifo, v)
  /\ UNCHANGED got

Pop(c) ==
  /\ fifo # <<>>
  /\ fifo' = Tail(fifo)
  /\ got' = [got EXCEPT ![c] = Head(fifo)]

Next == (\E v \in Items : Push(v)) \/ (\E c \in Consumers : Pop(c))

Spec == Init /\ [][Next]_<<fifo, got>>
=============================================================================
