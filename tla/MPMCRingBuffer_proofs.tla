------------------------ MODULE MPMCRingBuffer_proofs ------------------------
(***************************************************************************)
(* The ring buffer is race free and implements a bounded FIFO, for every   *)
(* capacity above one and any number of producers, consumers and           *)
(* operations.                                                             *)
(***************************************************************************)
EXTENDS MPMCRingBuffer, SequenceTheorems, TLAPS

PushRecord ==
  [pc : {"out", "reload", "diff", "cas", "write", "publish"},
   pos : Nat, item : Items \cup {Nothing}]
PopRecord ==
  [pc : {"out", "reload", "diff", "cas", "read", "recycle"},
   pos : Nat, item : Items \cup {Nothing}]

\* a position is claimed by its producer until it is published, and by its
\* consumer until its cell is recycled
Claimed(r) == r.pc \in {"write", "publish"}
Taken(r) == r.pc \in {"read", "recycle"}

\* the cells of the positions claimed and not yet popped, and of those free
\* for the producers: each holds one of two sequence numbers
Window ==
  /\ enqueue_pos_ <= dequeue_pos_ + Capacity
  /\ \A k \in Nat : dequeue_pos_ <= k /\ k < enqueue_pos_
                      => sequence[CellOf(k)] \in {k, k + 1}
  /\ \A k \in Nat : enqueue_pos_ <= k /\ k < dequeue_pos_ + Capacity
                      => sequence[CellOf(k)] \in {k, k - Capacity + 1}

\* what a producer relies on: a claimed cell still carries its position; a
\* sequence number read before the exchange is still there if it succeeds
PusherOK(r, e, d, s) ==
  /\ r.pc # "out" => r.item \in Items
  /\ r.pc \in {"diff", "cas"} => r.pos <= e
  /\ r.pc = "cas" /\ r.pos = e => s[CellOf(r.pos)] = r.pos
  /\ Claimed(r) => d <= r.pos /\ r.pos < e /\ s[CellOf(r.pos)] = r.pos

\* and a consumer
PopperOK(r, e, d, s) ==
  /\ r.pc \in {"diff", "cas"} => r.pos <= d
  /\ r.pc = "cas" /\ r.pos = d => s[CellOf(r.pos)] = r.pos + 1
  /\ Taken(r) => r.pos < d /\ e <= r.pos + Capacity
                           /\ s[CellOf(r.pos)] = r.pos + 1

Pushers ==
  /\ \A p \in Producers :
       PusherOK(pusher[p], enqueue_pos_, dequeue_pos_, sequence)
  /\ \A p, q \in Producers :
       Claimed(pusher[p]) /\ Claimed(pusher[q]) /\ pusher[p].pos = pusher[q].pos
         => p = q

Poppers ==
  /\ \A c \in Consumers :
       PopperOK(popper[c], enqueue_pos_, dequeue_pos_, sequence)
  /\ \A c, d \in Consumers :
       Taken(popper[c]) /\ Taken(popper[d]) /\ popper[c].pos = popper[d].pos
         => c = d

RingInv == TypeOK /\ Window /\ Pushers /\ Poppers

-----------------------------------------------------------------------------
(* Positions and cells.                                                    *)

LEMMA DivMod ==
  ASSUME NEW N \in Nat, N > 0, NEW a \in Int
  PROVE  /\ a \div N \in Int /\ a % N \in 0..(N - 1)
         /\ a = N * (a \div N) + (a % N)
  OBVIOUS

LEMMA SameQuotient ==
  ASSUME NEW N \in Nat, N > 0, NEW x \in Int, NEW y \in Int,
         N * x - N * y < N, N * y - N * x < N
  PROVE  x = y
  OBVIOUS

LEMMA Sizes == Capacity \in Nat /\ Capacity > 1 /\ MaxPos \in Nat
  BY RingAssumption

LEMMA CellType == ASSUME NEW k \in Nat PROVE CellOf(k) \in Cells
  BY DivMod, Sizes DEF CellOf, Cells

\* two positions less than a round apart share no cell
LEMMA CellNear ==
  ASSUME NEW j \in Nat, NEW k \in Nat, CellOf(j) = CellOf(k),
         j - k < Capacity, k - j < Capacity
  PROVE  j = k
<1> DEFINE q == j \div Capacity
           p == k \div Capacity
           r == j % Capacity
<1>1. q \in Int /\ j = Capacity * q + r /\ r \in Int
  BY DivMod, Sizes
<1>2. p \in Int /\ k = Capacity * p + r
  BY DivMod, Sizes DEF CellOf
<1> HIDE DEF q, p, r
<1>3. Capacity * p \in Int /\ Capacity * q \in Int
  BY <1>1, <1>2, Sizes
<1>4. p = q
  BY <1>1, <1>2, <1>3, SameQuotient, Sizes
<1> QED
  BY <1>1, <1>2, <1>4

\* a round later the cell is the same
LEMMA CellRound ==
  ASSUME NEW k \in Nat PROVE CellOf(k + Capacity) = CellOf(k)
<1> DEFINE q == k \div Capacity
           r == k % Capacity
           p == (k + Capacity) \div Capacity
           s == (k + Capacity) % Capacity
<1>1. q \in Int /\ r \in 0..(Capacity - 1) /\ k = Capacity * q + r
  BY DivMod, Sizes
<1>2. p \in Int /\ s \in 0..(Capacity - 1) /\ k + Capacity = Capacity * p + s
  <2>1. k + Capacity \in Int
    BY Sizes
  <2> QED
    BY <2>1, DivMod, Sizes
<1> HIDE DEF q, r, p, s
<1>3. Capacity * (q + 1) = Capacity * q + Capacity
  BY <1>1, Sizes
<1>4. p = q + 1
  <2>1. q + 1 \in Int /\ Capacity * p \in Int /\ Capacity * q \in Int
    BY <1>1, <1>2, Sizes
  <2>2. /\ Capacity * p - Capacity * (q + 1) < Capacity
        /\ Capacity * (q + 1) - Capacity * p < Capacity
    BY <1>1, <1>2, <1>3, <2>1, Sizes
  <2> QED
    BY <1>2, <2>1, <2>2, SameQuotient, Sizes
<1>5. r = s
  BY <1>1, <1>2, <1>3, <1>4, Sizes
<1> QED
  BY <1>5 DEF r, s, CellOf

LEMMA CellNext == ASSUME NEW k \in Nat PROVE CellOf(k + 1) # CellOf(k)
<1> SUFFICES ASSUME CellOf(k + 1) = CellOf(k) PROVE FALSE
  OBVIOUS
<1>1. k + 1 = k
  BY CellNear, Sizes
<1> QED
  BY <1>1

-----------------------------------------------------------------------------
(* Steps that claim nothing and hand nothing over.                         *)

LEMMA PusherMoves ==
  ASSUME RingInv, NEW p \in Producers, NEW r \in PushRecord,
         pusher' = [pusher EXCEPT ![p] = r], ~Claimed(r),
         PusherOK(r, enqueue_pos_, dequeue_pos_, sequence),
         UNCHANGED <<enqueue_pos_, dequeue_pos_, sequence, data, popper>>
  PROVE  RingInv'
<1>1. pusher'[p] = r /\ \A q \in Producers : q # p => pusher'[q] = pusher[q]
  BY DEF RingInv, TypeOK
<1>2. TypeOK'
  BY DEF RingInv, TypeOK, PushRecord
<1>3. Window' /\ Poppers'
  BY DEF RingInv, Window, Poppers
<1>4. Pushers'
  BY <1>1 DEF RingInv, Pushers
<1> QED
  BY <1>2, <1>3, <1>4 DEF RingInv

LEMMA PopperMoves ==
  ASSUME RingInv, NEW c \in Consumers, NEW r \in PopRecord,
         popper' = [popper EXCEPT ![c] = r],
         Taken(r) => Taken(popper[c]) /\ r.pos = popper[c].pos,
         PopperOK(r, enqueue_pos_, dequeue_pos_, sequence),
         UNCHANGED <<enqueue_pos_, dequeue_pos_, sequence, data, pusher>>
  PROVE  RingInv'
<1>1. popper'[c] = r /\ \A d \in Consumers : d # c => popper'[d] = popper[d]
  BY DEF RingInv, TypeOK
<1>2. TypeOK'
  BY DEF RingInv, TypeOK, PopRecord
<1>3. Window' /\ Pushers'
  BY DEF RingInv, Window, Pushers
<1>4. Poppers'
  BY <1>1 DEF RingInv, Poppers
<1> QED
  BY <1>2, <1>3, <1>4 DEF RingInv

LEMMA PushLoadKeeps ==
  ASSUME RingInv, NEW p \in Producers, PushLoad(p) PROVE RingInv'
<1>1. PICK v \in Items :
        pusher' = [pusher EXCEPT ![p] =
                     [pc |-> "diff", pos |-> enqueue_pos_, item |-> v]]
  BY DEF PushLoad
<1> DEFINE r == [pc |-> "diff", pos |-> enqueue_pos_, item |-> v]
<1>2. enqueue_pos_ \in Nat
  BY Sizes DEF RingInv, TypeOK
<1>3. /\ r \in PushRecord /\ ~Claimed(r)
      /\ PusherOK(r, enqueue_pos_, dequeue_pos_, sequence)
  BY <1>2 DEF PushRecord, Claimed, PusherOK
<1> QED
  BY <1>1, <1>3, PusherMoves DEF PushLoad

LEMMA PushDiffLeads ==
  ASSUME RingInv, NEW p \in Producers, PushDiff(p)
  PROVE  \E r \in PushRecord :
           /\ pusher' = [pusher EXCEPT ![p] = r] /\ ~Claimed(r)
           /\ PusherOK(r, enqueue_pos_, dequeue_pos_, sequence)
<1> DEFINE pos == pusher[p].pos
           seq == sequence[CellOf(pos)]
<1>1. /\ pusher[p] \in PushRecord /\ pos \in Nat /\ pusher[p].pc = "diff"
      /\ PusherOK(pusher[p], enqueue_pos_, dequeue_pos_, sequence)
  BY DEF RingInv, TypeOK, PushRecord, Pushers, PushDiff
<1>2. seq \in Nat
  BY <1>1, CellType DEF RingInv, TypeOK
<1>3. CASE seq = pos
  <2> DEFINE r == [pusher[p] EXCEPT !.pc = "cas"]
  <2>0. MayClaim(seq, pos) /\ (seq > pos) = FALSE
    BY <1>1, <1>2, <1>3 DEF MayClaim
  <2>1. pusher' = [pusher EXCEPT ![p] = r]
    BY <2>0, Zenon DEF PushDiff
  <2>2. /\ r \in PushRecord /\ ~Claimed(r)
        /\ PusherOK(r, enqueue_pos_, dequeue_pos_, sequence)
    BY <1>1, <1>3 DEF PushRecord, Claimed, PusherOK
  <2> QED
    BY <2>1, <2>2
<1>4. CASE seq < pos
  <2> DEFINE r == [pc |-> "out", pos |-> 0, item |-> Nothing]
  <2>0. ~MayClaim(seq, pos) /\ (seq < pos) = (TRUE) /\ (seq > pos) = (FALSE)
    BY <1>1, <1>2, <1>4 DEF MayClaim
  <2>1. pusher' = [pusher EXCEPT ![p] = r]
    BY <2>0, Zenon DEF PushDiff
  <2>2. /\ r \in PushRecord /\ ~Claimed(r)
        /\ PusherOK(r, enqueue_pos_, dequeue_pos_, sequence)
    BY DEF PushRecord, Claimed, PusherOK
  <2> QED
    BY <2>1, <2>2
<1>5. CASE seq > pos
  <2> DEFINE r == [pusher[p] EXCEPT !.pc = "reload"]
  <2>0. ~MayClaim(seq, pos) /\ (seq < pos) = (FALSE) /\ (seq > pos) = (TRUE)
    BY <1>1, <1>2, <1>5 DEF MayClaim
  <2>1. pusher' = [pusher EXCEPT ![p] = r]
    BY <2>0, Zenon DEF PushDiff
  <2>2. /\ r \in PushRecord /\ ~Claimed(r)
        /\ PusherOK(r, enqueue_pos_, dequeue_pos_, sequence)
    BY <1>1 DEF PushRecord, Claimed, PusherOK
  <2> QED
    BY <2>1, <2>2
<1> QED
  BY <1>1, <1>2, <1>3, <1>4, <1>5

LEMMA PushDiffKeeps ==
  ASSUME RingInv, NEW p \in Producers, PushDiff(p) PROVE RingInv'
  BY PushDiffLeads, PusherMoves DEF PushDiff

LEMMA PushDiffClaimsNothing ==
  ASSUME RingInv, NEW p \in Producers, PushDiff(p) PROVE ~Claimed(pusher'[p])
  BY PushDiffLeads DEF RingInv, TypeOK

LEMMA PopLoadKeeps ==
  ASSUME RingInv, NEW c \in Consumers, PopLoad(c) PROVE RingInv'
<1> DEFINE r == [popper[c] EXCEPT !.pc = "diff", !.pos = dequeue_pos_]
<1>1. dequeue_pos_ \in Nat /\ popper[c] \in PopRecord
  BY Sizes DEF RingInv, TypeOK, PopRecord
<1>2. /\ r \in PopRecord /\ ~Taken(r)
      /\ PopperOK(r, enqueue_pos_, dequeue_pos_, sequence)
  <2>1. r \in PopRecord /\ r.pc = "diff" /\ r.pos = dequeue_pos_
    BY <1>1 DEF PopRecord
  <2> HIDE DEF r
  <2> QED
    BY <1>1, <2>1 DEF Taken, PopperOK
<1>3. popper' = [popper EXCEPT ![c] = r]
  BY DEF PopLoad, RingInv, TypeOK
<1> QED
  BY <1>2, <1>3, PopperMoves DEF PopLoad

LEMMA PopDiffLeads ==
  ASSUME RingInv, NEW c \in Consumers, PopDiff(c)
  PROVE  \E r \in PopRecord :
           /\ popper' = [popper EXCEPT ![c] = r] /\ ~Taken(r)
           /\ r.item = popper[c].item
           /\ PopperOK(r, enqueue_pos_, dequeue_pos_, sequence)
<1> DEFINE pos == popper[c].pos
           seq == sequence[CellOf(pos)]
<1>1. /\ popper[c] \in PopRecord /\ pos \in Nat /\ popper[c].pc = "diff"
      /\ PopperOK(popper[c], enqueue_pos_, dequeue_pos_, sequence)
  BY DEF RingInv, TypeOK, PopRecord, Poppers, PopDiff
<1>2. seq \in Nat
  BY <1>1, CellType DEF RingInv, TypeOK
<1>3. CASE seq = pos + 1
  <2> DEFINE r == [popper[c] EXCEPT !.pc = "cas"]
  <2>0. seq = pos + 1 /\ (seq < pos + 1) = FALSE /\ (seq > pos + 1) = FALSE
    BY <1>1, <1>2, <1>3
  <2>1. popper' = [popper EXCEPT ![c] = r]
    BY <2>0, Zenon DEF PopDiff
  <2>2. /\ r \in PopRecord /\ ~Taken(r) /\ r.item = popper[c].item
        /\ PopperOK(r, enqueue_pos_, dequeue_pos_, sequence)
    BY <1>1, <1>3 DEF PopRecord, Taken, PopperOK
  <2> QED
    BY <2>1, <2>2
<1>4. CASE seq < pos + 1
  <2> DEFINE r == [popper[c] EXCEPT !.pc = "out", !.pos = 0]
  <2>0. seq # pos + 1 /\ (seq < pos + 1) = (TRUE) /\ (seq > pos + 1) = (FALSE)
    BY <1>1, <1>2, <1>4
  <2>1. popper' = [popper EXCEPT ![c] = r]
    BY <2>0, Zenon DEF PopDiff
  <2>2. /\ r \in PopRecord /\ ~Taken(r) /\ r.item = popper[c].item
        /\ PopperOK(r, enqueue_pos_, dequeue_pos_, sequence)
    BY <1>1 DEF PopRecord, Taken, PopperOK
  <2> QED
    BY <2>1, <2>2
<1>5. CASE seq > pos + 1
  <2> DEFINE r == [popper[c] EXCEPT !.pc = "reload"]
  <2>0. seq # pos + 1 /\ (seq < pos + 1) = (FALSE) /\ (seq > pos + 1) = (TRUE)
    BY <1>1, <1>2, <1>5
  <2>1. popper' = [popper EXCEPT ![c] = r]
    BY <2>0, Zenon DEF PopDiff
  <2>2. /\ r \in PopRecord /\ ~Taken(r) /\ r.item = popper[c].item
        /\ PopperOK(r, enqueue_pos_, dequeue_pos_, sequence)
    BY <1>1 DEF PopRecord, Taken, PopperOK
  <2> QED
    BY <2>1, <2>2
<1> QED
  BY <1>1, <1>2, <1>3, <1>4, <1>5

LEMMA PopDiffKeeps ==
  ASSUME RingInv, NEW c \in Consumers, PopDiff(c) PROVE RingInv'
  BY PopDiffLeads, PopperMoves DEF PopDiff

LEMMA PopDiffKeepsItem ==
  ASSUME RingInv, NEW c \in Consumers, PopDiff(c)
  PROVE  ~Taken(popper'[c]) /\ popper'[c].item = popper[c].item
  BY PopDiffLeads DEF RingInv, TypeOK

LEMMA PopReadKeeps ==
  ASSUME RingInv, NEW c \in Consumers, PopRead(c) PROVE RingInv'
<1> DEFINE r == [popper[c] EXCEPT !.pc = "recycle",
                                  !.item = data[CellOf(popper[c].pos)]]
<1>1. /\ popper[c] \in PopRecord /\ popper[c].pc = "read"
      /\ PopperOK(popper[c], enqueue_pos_, dequeue_pos_, sequence)
  BY DEF RingInv, TypeOK, PopRecord, Poppers, PopRead
<1>2. data[CellOf(popper[c].pos)] \in Items \cup {Nothing}
  BY <1>1, CellType DEF RingInv, TypeOK, PopRecord
<1>3. r \in PopRecord /\ r.pc = "recycle" /\ r.pos = popper[c].pos
  BY <1>1, <1>2 DEF PopRecord
<1>4. popper' = [popper EXCEPT ![c] = r]
  BY DEF PopRead, RingInv, TypeOK
<1>5. Taken(popper[c]) /\ PopperOK(r, enqueue_pos_, dequeue_pos_, sequence)
  BY <1>1, <1>3 DEF Taken, PopperOK
<1> QED
  BY <1>3, <1>4, <1>5, PopperMoves DEF PopRead

LEMMA PushWriteKeeps ==
  ASSUME RingInv, NEW p \in Producers, PushWrite(p) PROVE RingInv'
<1> DEFINE r == [pusher[p] EXCEPT !.pc = "publish"]
<1>1. /\ pusher[p] \in PushRecord /\ pusher[p].pc = "write"
      /\ PusherOK(pusher[p], enqueue_pos_, dequeue_pos_, sequence)
  BY DEF RingInv, TypeOK, PushRecord, Pushers, PushWrite
<1>2. /\ r \in PushRecord /\ Claimed(r) /\ Claimed(pusher[p]) /\ r.pos = pusher[p].pos
      /\ PusherOK(r, enqueue_pos_, dequeue_pos_, sequence)
  BY <1>1 DEF PushRecord, Claimed, PusherOK
<1>3. pusher'[p] = r /\ \A q \in Producers : q # p => pusher'[q] = pusher[q]
  BY DEF RingInv, TypeOK, PushWrite
<1>4. TypeOK'
  <2>1. data' \in [Cells -> Items \cup {Nothing}]
    BY <1>1, CellType DEF PushWrite, RingInv, TypeOK, PushRecord
  <2> QED
    BY <1>2, <2>1 DEF PushWrite, RingInv, TypeOK, PushRecord
<1>5. Window' /\ Poppers'
  BY DEF PushWrite, RingInv, Window, Poppers
<1>6. Pushers'
  BY <1>2, <1>3 DEF RingInv, Pushers, PushWrite
<1> QED
  BY <1>4, <1>5, <1>6 DEF RingInv

-----------------------------------------------------------------------------
(* Claiming a position, publishing it, taking it, recycling its cell.      *)

LEMMA Positions ==
  ASSUME RingInv
  PROVE  /\ enqueue_pos_ \in Nat /\ dequeue_pos_ \in Nat
         /\ dequeue_pos_ <= enqueue_pos_
         /\ enqueue_pos_ <= dequeue_pos_ + Capacity
         /\ sequence \in [Cells -> Nat]
  BY Sizes DEF RingInv, TypeOK, Window

\* the cell of the next free position is never one a consumer still reads,
\* and claiming it does not catch up with the oldest item
LEMMA ClaimHasRoom ==
  ASSUME RingInv, sequence[CellOf(enqueue_pos_)] = enqueue_pos_
  PROVE  /\ enqueue_pos_ < dequeue_pos_ + Capacity
         /\ \A c \in Consumers : Taken(popper[c])
                                   => enqueue_pos_ < popper[c].pos + Capacity
<1>1. enqueue_pos_ # dequeue_pos_ + Capacity
  <2> SUFFICES ASSUME enqueue_pos_ = dequeue_pos_ + Capacity PROVE FALSE
    OBVIOUS
  <2>1. CellOf(enqueue_pos_) = CellOf(dequeue_pos_)
    BY Positions, CellRound
  <2>2. sequence[CellOf(dequeue_pos_)] \in {dequeue_pos_, dequeue_pos_ + 1}
    BY Positions, Sizes DEF RingInv, Window
  <2> QED
    BY <2>1, <2>2, Positions, Sizes
<1>2. ASSUME NEW c \in Consumers, Taken(popper[c])
      PROVE  enqueue_pos_ < popper[c].pos + Capacity
  <2>1. /\ popper[c].pos \in Nat /\ enqueue_pos_ <= popper[c].pos + Capacity
        /\ sequence[CellOf(popper[c].pos)] = popper[c].pos + 1
    BY <1>2 DEF RingInv, TypeOK, Poppers, PopperOK
  <2>2. enqueue_pos_ # popper[c].pos + Capacity
    <3> SUFFICES ASSUME enqueue_pos_ = popper[c].pos + Capacity PROVE FALSE
      OBVIOUS
    <3>1. CellOf(enqueue_pos_) = CellOf(popper[c].pos)
      BY <2>1, CellRound
    <3> QED
      BY <2>1, <3>1, Sizes
  <2> QED
    BY <2>1, <2>2, Positions, Sizes
<1> QED
  BY <1>1, <1>2, Positions, Sizes

\* a published sequence number at the oldest position: there is an item
LEMMA TakesAnItem ==
  ASSUME RingInv, sequence[CellOf(dequeue_pos_)] = dequeue_pos_ + 1
  PROVE  dequeue_pos_ < enqueue_pos_
<1> SUFFICES ASSUME dequeue_pos_ = enqueue_pos_ PROVE FALSE
  BY Positions
<1>1. sequence[CellOf(dequeue_pos_)] \in {dequeue_pos_, dequeue_pos_ - Capacity + 1}
  BY Positions, Sizes DEF RingInv, Window
<1> QED
  BY <1>1, Positions, Sizes

LEMMA PushCasKeeps ==
  ASSUME RingInv, NEW p \in Producers, PushCas(p) PROVE RingInv'
<1>1. /\ pusher[p] \in PushRecord /\ pusher[p].pc = "cas" /\ pusher[p].pos \in Nat
      /\ PusherOK(pusher[p], enqueue_pos_, dequeue_pos_, sequence)
  BY DEF RingInv, TypeOK, PushRecord, Pushers, PushCas
<1>2. CASE /\ pusher' = [pusher EXCEPT ![p].pc = "diff", ![p].pos = enqueue_pos_]
           /\ UNCHANGED enqueue_pos_
  <2> DEFINE r == [pusher[p] EXCEPT !.pc = "diff", !.pos = enqueue_pos_]
  <2>1. pusher' = [pusher EXCEPT ![p] = r]
    BY <1>2 DEF RingInv, TypeOK
  <2>2. /\ r \in PushRecord /\ r.pc = "diff" /\ r.pos = enqueue_pos_
        /\ r.item = pusher[p].item
    BY <1>1, Positions DEF PushRecord
  <2> HIDE DEF r
  <2>3. ~Claimed(r) /\ PusherOK(r, enqueue_pos_, dequeue_pos_, sequence)
    BY <1>1, <2>2, Positions DEF Claimed, PusherOK
  <2> QED
    BY <1>2, <2>1, <2>2, <2>3, PusherMoves DEF PushCas
<1>3. CASE /\ PushTakes(p) /\ enqueue_pos_ < MaxPos
           /\ enqueue_pos_' = pusher[p].pos + 1
           /\ pusher' = [pusher EXCEPT ![p].pc = "write"]
  <2>1. /\ enqueue_pos_ = pusher[p].pos /\ enqueue_pos_' = enqueue_pos_ + 1
        /\ sequence[CellOf(enqueue_pos_)] = enqueue_pos_
        /\ UNCHANGED <<dequeue_pos_, sequence, data, popper>>
    BY <1>1, <1>3 DEF PushTakes, PusherOK, PushCas
  <2>2. /\ enqueue_pos_ < dequeue_pos_ + Capacity
        /\ \A c \in Consumers : Taken(popper[c])
                                  => enqueue_pos_ < popper[c].pos + Capacity
    BY <2>1, ClaimHasRoom
  <2> DEFINE r == [pusher[p] EXCEPT !.pc = "write"]
  <2>3. /\ r \in PushRecord /\ r.pc = "write" /\ r.pos = enqueue_pos_
        /\ r.item \in Items
    BY <1>1, <2>1 DEF PushRecord, PusherOK
  <2>4. pusher'[p] = r /\ \A q \in Producers : q # p => pusher'[q] = pusher[q]
    BY <1>3 DEF RingInv, TypeOK
  <2>5. TypeOK'
    <3>1. enqueue_pos_' \in 0..MaxPos /\ dequeue_pos_' \in 0..enqueue_pos_'
      BY <1>3, <2>1, Positions, Sizes
    <3>2. pusher' \in [Producers -> PushRecord]
      BY <1>3, <2>3 DEF RingInv, TypeOK, PushRecord
    <3> QED
      BY <2>1, <3>1, <3>2 DEF RingInv, TypeOK, PushRecord
  <2>6. Window'
    <3>1. enqueue_pos_' <= dequeue_pos_' + Capacity
      BY <2>1, <2>2, Positions, Sizes
    <3>2. ASSUME NEW k \in Nat, dequeue_pos_' <= k, k < enqueue_pos_'
          PROVE  sequence'[CellOf(k)] \in {k, k + 1}
      <4>1. CASE k = enqueue_pos_
        BY <2>1, <4>1
      <4>2. CASE k # enqueue_pos_
        BY <2>1, <3>2, <4>2, Positions DEF RingInv, Window
      <4> QED
        BY <4>1, <4>2
    <3>3. ASSUME NEW k \in Nat, enqueue_pos_' <= k, k < dequeue_pos_' + Capacity
          PROVE  sequence'[CellOf(k)] \in {k, k - Capacity + 1}
      BY <2>1, <3>3, Positions, Sizes DEF RingInv, Window
    <3> QED
      BY <3>1, <3>2, <3>3 DEF Window
  <2> HIDE DEF r
  <2>7. Pushers'
    <3>1. ASSUME NEW q \in Producers
          PROVE  PusherOK(pusher'[q], enqueue_pos_', dequeue_pos_', sequence')
      <4>1. CASE q = p
        BY <2>1, <2>3, <2>4, <4>1, Positions DEF PusherOK, Claimed
      <4>2. CASE q # p
        <5>1. pusher'[q] = pusher[q] /\ pusher[q].pos \in Nat
          BY <2>4, <4>2 DEF RingInv, TypeOK
        <5>2. PusherOK(pusher[q], enqueue_pos_, dequeue_pos_, sequence)
          BY DEF RingInv, Pushers
        <5> QED
          BY <2>1, <5>1, <5>2, Positions DEF PusherOK
      <4> QED
        BY <4>1, <4>2
    <3>2. \A q \in Producers : Claimed(pusher[q]) => pusher[q].pos < enqueue_pos_
      BY DEF RingInv, Pushers, PusherOK
    <3>3. ASSUME NEW q \in Producers, NEW s \in Producers,
                 Claimed(pusher'[q]), Claimed(pusher'[s]),
                 pusher'[q].pos = pusher'[s].pos
          PROVE  q = s
      <4>1. CASE q # p /\ s # p
        BY <2>4, <3>3, <4>1 DEF RingInv, Pushers
      <4>2. CASE q = p /\ s # p
        BY <2>3, <2>4, <3>2, <3>3, <4>2, Positions
      <4>3. CASE q # p /\ s = p
        BY <2>3, <2>4, <3>2, <3>3, <4>3, Positions
      <4> QED
        BY <4>1, <4>2, <4>3
    <3> QED
      BY <3>1, <3>3 DEF Pushers
  <2>8. Poppers'
    <3>1. ASSUME NEW c \in Consumers
          PROVE  PopperOK(popper'[c], enqueue_pos_', dequeue_pos_', sequence')
      <4>1. PopperOK(popper[c], enqueue_pos_, dequeue_pos_, sequence)
        BY DEF RingInv, Poppers
      <4>2. popper[c].pos \in Nat
        BY DEF RingInv, TypeOK
      <4> QED
        BY <2>1, <2>2, <4>1, <4>2, Positions, Sizes DEF PopperOK
    <3> QED
      BY <2>1, <3>1 DEF RingInv, Poppers
  <2> QED
    BY <2>5, <2>6, <2>7, <2>8 DEF RingInv
<1> QED
  BY <1>2, <1>3 DEF PushCas

LEMMA PushPublishKeeps ==
  ASSUME RingInv, NEW p \in Producers, PushPublish(p) PROVE RingInv'
<1> DEFINE pos == pusher[p].pos
           r == [pc |-> "out", pos |-> 0, item |-> Nothing]
<1>1. /\ pusher[p].pc = "publish" /\ pos \in Nat /\ Claimed(pusher[p])
      /\ dequeue_pos_ <= pos /\ pos < enqueue_pos_ /\ sequence[CellOf(pos)] = pos
  BY DEF RingInv, TypeOK, Pushers, PusherOK, Claimed, PushPublish
<1>2. /\ CellOf(pos) \in Cells
      /\ sequence' = [sequence EXCEPT ![CellOf(pos)] = pos + 1]
      /\ UNCHANGED <<enqueue_pos_, dequeue_pos_, data, popper>>
  BY <1>1, CellType DEF PushPublish
<1>3. r \in PushRecord /\ pusher'[p] = r /\ ~Claimed(r)
      /\ \A q \in Producers : q # p => pusher'[q] = pusher[q]
  BY DEF PushPublish, RingInv, TypeOK, PushRecord, Claimed
<1>4. ASSUME NEW k \in Nat, sequence[CellOf(k)] # pos
      PROVE  sequence'[CellOf(k)] = sequence[CellOf(k)]
  BY <1>1, <1>2, <1>4, CellType, Positions
<1>5. sequence'[CellOf(pos)] = pos + 1
  BY <1>2, Positions
<1>6. TypeOK'
  <2>1. sequence' \in [Cells -> Nat]
    BY <1>1, <1>2, Positions
  <2> QED
    BY <1>2, <1>3, <2>1 DEF PushPublish, RingInv, TypeOK, PushRecord
<1> HIDE DEF pos, r
<1>7. Window'
  <2>1. ASSUME NEW k \in Nat, dequeue_pos_ <= k, k < enqueue_pos_
        PROVE  sequence'[CellOf(k)] \in {k, k + 1}
    <3>1. CASE CellOf(k) = CellOf(pos)
      <4>1. k = pos
        BY <1>1, <2>1, <3>1, CellNear, Positions, Sizes
      <4> QED
        BY <1>5, <4>1
    <3>2. CASE CellOf(k) # CellOf(pos)
      <4>1. sequence'[CellOf(k)] = sequence[CellOf(k)]
        BY <1>2, <3>2, CellType, Positions
      <4> QED
        BY <2>1, <4>1 DEF RingInv, Window
    <3> QED
      BY <3>1, <3>2
  <2>2. ASSUME NEW k \in Nat, enqueue_pos_ <= k, k < dequeue_pos_ + Capacity
        PROVE  sequence'[CellOf(k)] \in {k, k - Capacity + 1}
    <3>1. CellOf(k) # CellOf(pos)
      BY <1>1, <2>2, CellNear, Positions, Sizes
    <3>2. sequence'[CellOf(k)] = sequence[CellOf(k)]
      BY <1>2, <3>1, CellType, Positions
    <3> QED
      BY <2>2, <3>2 DEF RingInv, Window
  <2> QED
    BY <1>2, <2>1, <2>2 DEF RingInv, Window
<1>8. Pushers'
  <2>1. ASSUME NEW q \in Producers
        PROVE  PusherOK(pusher'[q], enqueue_pos_', dequeue_pos_', sequence')
    <3>1. CASE q = p
      BY <1>3, <3>1 DEF PusherOK, Claimed, r
    <3>2. CASE q # p
      <4>1. pusher'[q] = pusher[q] /\ pusher[q].pos \in Nat
        BY <1>3, <3>2 DEF RingInv, TypeOK
      <4>2. PusherOK(pusher[q], enqueue_pos_, dequeue_pos_, sequence)
        BY DEF RingInv, Pushers
      <4>3. Claimed(pusher[q]) => pusher[q].pos # pos
        BY <1>1, <3>2 DEF RingInv, Pushers, pos
      <4>4. /\ Claimed(pusher[q]) => sequence'[CellOf(pusher[q].pos)] = pusher[q].pos
            /\ pusher[q].pc = "cas" /\ pusher[q].pos = enqueue_pos_
                 => sequence'[CellOf(pusher[q].pos)] = pusher[q].pos
        BY <1>1, <1>4, <4>1, <4>2, <4>3, Positions DEF PusherOK
      <4> QED
        BY <1>2, <4>1, <4>2, <4>4 DEF PusherOK
    <3> QED
      BY <3>1, <3>2
  <2>2. ASSUME NEW q \in Producers, Claimed(pusher'[q])
        PROVE  q # p /\ pusher'[q] = pusher[q]
    BY <1>3, <2>2
  <2> QED
    BY <2>1, <2>2 DEF RingInv, Pushers
<1>9. Poppers'
  <2>1. ASSUME NEW c \in Consumers
        PROVE  PopperOK(popper'[c], enqueue_pos_', dequeue_pos_', sequence')
    <3>1. PopperOK(popper[c], enqueue_pos_, dequeue_pos_, sequence)
      BY DEF RingInv, Poppers
    <3>2. popper[c].pos \in Nat
      BY DEF RingInv, TypeOK
    <3>3. ASSUME sequence[CellOf(popper[c].pos)] = popper[c].pos + 1
          PROVE  sequence'[CellOf(popper[c].pos)] = popper[c].pos + 1
      <4>1. CellOf(popper[c].pos) # CellOf(pos)
        <5> SUFFICES ASSUME CellOf(popper[c].pos) = CellOf(pos) PROVE FALSE
          OBVIOUS
        <5>1. pos = popper[c].pos + 1
          BY <1>1, <3>3
        <5> QED
          BY <3>2, <5>1, CellNext
      <4> QED
        BY <1>2, <3>2, <3>3, <4>1, CellType, Positions
    <3> QED
      BY <1>2, <3>1, <3>2, <3>3 DEF PopperOK
  <2> QED
    BY <1>2, <2>1 DEF RingInv, Poppers
<1> QED
  BY <1>6, <1>7, <1>8, <1>9 DEF RingInv

LEMMA PopCasKeeps ==
  ASSUME RingInv, NEW c \in Consumers, PopCas(c) PROVE RingInv'
<1>1. /\ popper[c] \in PopRecord /\ popper[c].pc = "cas" /\ popper[c].pos \in Nat
      /\ PopperOK(popper[c], enqueue_pos_, dequeue_pos_, sequence)
  BY DEF RingInv, TypeOK, PopRecord, Poppers, PopCas
<1>2. CASE /\ popper' = [popper EXCEPT ![c].pc = "diff", ![c].pos = dequeue_pos_]
           /\ UNCHANGED dequeue_pos_
  <2> DEFINE r == [popper[c] EXCEPT !.pc = "diff", !.pos = dequeue_pos_]
  <2>1. popper' = [popper EXCEPT ![c] = r]
    BY <1>2 DEF RingInv, TypeOK
  <2>2. r \in PopRecord /\ r.pc = "diff" /\ r.pos = dequeue_pos_
    BY <1>1, Positions DEF PopRecord
  <2> HIDE DEF r
  <2>3. ~Taken(r) /\ PopperOK(r, enqueue_pos_, dequeue_pos_, sequence)
    BY <2>2, Positions DEF Taken, PopperOK
  <2> QED
    BY <1>2, <2>1, <2>2, <2>3, PopperMoves DEF PopCas
<1>3. CASE /\ dequeue_pos_ = popper[c].pos
           /\ dequeue_pos_' = popper[c].pos + 1
           /\ popper' = [popper EXCEPT ![c].pc = "read"]
  <2>1. /\ dequeue_pos_ = popper[c].pos /\ dequeue_pos_' = dequeue_pos_ + 1
        /\ sequence[CellOf(dequeue_pos_)] = dequeue_pos_ + 1
        /\ UNCHANGED <<enqueue_pos_, sequence, data, pusher>>
    BY <1>1, <1>3 DEF PopperOK, PopCas
  <2>2. dequeue_pos_ < enqueue_pos_
    BY <2>1, TakesAnItem
  <2> DEFINE r == [popper[c] EXCEPT !.pc = "read"]
  <2>3. r \in PopRecord /\ r.pc = "read" /\ r.pos = dequeue_pos_
    BY <1>1, <2>1 DEF PopRecord
  <2>4. popper'[c] = r /\ \A d \in Consumers : d # c => popper'[d] = popper[d]
    BY <1>3 DEF RingInv, TypeOK
  <2>5. TypeOK'
    <3>1. dequeue_pos_' \in 0..enqueue_pos_'
      BY <2>1, <2>2, Positions
    <3>2. popper' \in [Consumers -> PopRecord]
      BY <1>3, <2>3 DEF RingInv, TypeOK, PopRecord
    <3> QED
      BY <2>1, <3>1, <3>2 DEF RingInv, TypeOK, PopRecord
  <2>6. Window'
    <3>1. enqueue_pos_' <= dequeue_pos_' + Capacity
      BY <2>1, Positions, Sizes
    <3>2. ASSUME NEW k \in Nat, dequeue_pos_' <= k, k < enqueue_pos_'
          PROVE  sequence'[CellOf(k)] \in {k, k + 1}
      BY <2>1, <3>2, Positions DEF RingInv, Window
    <3>3. ASSUME NEW k \in Nat, enqueue_pos_' <= k, k < dequeue_pos_' + Capacity
          PROVE  sequence'[CellOf(k)] \in {k, k - Capacity + 1}
      <4>1. CASE k = dequeue_pos_ + Capacity
        <5>1. CellOf(k) = CellOf(dequeue_pos_)
          BY <4>1, CellRound, Positions
        <5>2. k - Capacity + 1 = dequeue_pos_ + 1
          BY <4>1, Positions, Sizes
        <5> QED
          BY <2>1, <5>1, <5>2
      <4>2. CASE k # dequeue_pos_ + Capacity
        BY <2>1, <3>3, <4>2, Positions, Sizes DEF RingInv, Window
      <4> QED
        BY <4>1, <4>2
    <3> QED
      BY <3>1, <3>2, <3>3 DEF Window
  <2> HIDE DEF r
  <2>7. Poppers'
    <3>1. ASSUME NEW d \in Consumers
          PROVE  PopperOK(popper'[d], enqueue_pos_', dequeue_pos_', sequence')
      <4>1. CASE d = c
        BY <2>1, <2>3, <2>4, <4>1, Positions, Sizes DEF PopperOK, Taken
      <4>2. CASE d # c
        <5>1. popper'[d] = popper[d] /\ popper[d].pos \in Nat
          BY <2>4, <4>2 DEF RingInv, TypeOK
        <5>2. PopperOK(popper[d], enqueue_pos_, dequeue_pos_, sequence)
          BY DEF RingInv, Poppers
        <5> QED
          BY <2>1, <5>1, <5>2, Positions, Sizes DEF PopperOK
      <4> QED
        BY <4>1, <4>2
    <3>2. \A d \in Consumers : Taken(popper[d]) => popper[d].pos < dequeue_pos_
      BY DEF RingInv, Poppers, PopperOK
    <3>3. ASSUME NEW d \in Consumers, NEW s \in Consumers,
                 Taken(popper'[d]), Taken(popper'[s]),
                 popper'[d].pos = popper'[s].pos
          PROVE  d = s
      <4>1. CASE d # c /\ s # c
        BY <2>4, <3>3, <4>1 DEF RingInv, Poppers
      <4>2. CASE d = c /\ s # c
        BY <2>3, <2>4, <3>2, <3>3, <4>2, Positions
      <4>3. CASE d # c /\ s = c
        BY <2>3, <2>4, <3>2, <3>3, <4>3, Positions
      <4> QED
        BY <4>1, <4>2, <4>3
    <3> QED
      BY <3>1, <3>3 DEF Poppers
  <2>8. Pushers'
    <3>1. ASSUME NEW p \in Producers
          PROVE  PusherOK(pusher'[p], enqueue_pos_', dequeue_pos_', sequence')
      <4>1. PusherOK(pusher[p], enqueue_pos_, dequeue_pos_, sequence)
        BY DEF RingInv, Pushers
      <4>2. pusher[p].pos \in Nat
        BY DEF RingInv, TypeOK
      <4>3. Claimed(pusher[p]) => pusher[p].pos # dequeue_pos_
        BY <2>1, <4>1, Positions DEF PusherOK
      <4> QED
        BY <2>1, <4>1, <4>2, <4>3, Positions DEF PusherOK
    <3> QED
      BY <2>1, <3>1 DEF RingInv, Pushers
  <2> QED
    BY <2>5, <2>6, <2>7, <2>8 DEF RingInv
<1> QED
  BY <1>2, <1>3 DEF PopCas

LEMMA PopRecycleKeeps ==
  ASSUME RingInv, NEW c \in Consumers, PopRecycle(c) PROVE RingInv'
<1> DEFINE pos == popper[c].pos
           r == [popper[c] EXCEPT !.pc = "out", !.pos = 0]
<1>1. /\ popper[c] \in PopRecord /\ pos \in Nat /\ Taken(popper[c])
      /\ pos < dequeue_pos_ /\ enqueue_pos_ <= pos + Capacity
      /\ sequence[CellOf(pos)] = pos + 1
  BY DEF RingInv, TypeOK, PopRecord, Poppers, PopperOK, Taken, PopRecycle
<1>2. /\ CellOf(pos) \in Cells
      /\ sequence' = [sequence EXCEPT ![CellOf(pos)] = pos + Capacity]
      /\ UNCHANGED <<enqueue_pos_, dequeue_pos_, data, pusher>>
  BY <1>1, CellType DEF PopRecycle, RecycledSequence
<1>3. r \in PopRecord /\ popper'[c] = r /\ ~Taken(r)
      /\ \A d \in Consumers : d # c => popper'[d] = popper[d]
  BY <1>1 DEF PopRecycle, RingInv, TypeOK, PopRecord, Taken
<1>4. ASSUME NEW k \in Nat, CellOf(k) # CellOf(pos)
      PROVE  sequence'[CellOf(k)] = sequence[CellOf(k)]
  BY <1>2, <1>4, CellType, Positions
<1>5. sequence'[CellOf(pos)] = pos + Capacity
  BY <1>2, Positions
<1>6. TypeOK'
  <2>1. sequence' \in [Cells -> Nat]
    BY <1>1, <1>2, Positions, Sizes
  <2>2. popper' \in [Consumers -> PopRecord]
    BY <1>3 DEF PopRecycle, RingInv, TypeOK, PopRecord
  <2> QED
    BY <1>2, <2>1, <2>2 DEF RingInv, TypeOK, PopRecord
<1>7. pos + Capacity \in Nat /\ CellOf(pos + Capacity) = CellOf(pos)
  BY <1>1, CellRound, Sizes
<1>8. r.pc = "out"
  BY <1>1 DEF PopRecord
<1> HIDE DEF pos, r
<1>9. Window'
  <2>1. ASSUME NEW k \in Nat, dequeue_pos_ <= k, k < enqueue_pos_
        PROVE  sequence'[CellOf(k)] \in {k, k + 1}
    <3>1. CellOf(k) # CellOf(pos)
      BY <1>1, <1>7, <2>1, CellNear, Positions, Sizes
    <3> QED
      BY <1>4, <2>1, <3>1 DEF RingInv, Window
  <2>2. ASSUME NEW k \in Nat, enqueue_pos_ <= k, k < dequeue_pos_ + Capacity
        PROVE  sequence'[CellOf(k)] \in {k, k - Capacity + 1}
    <3>1. CASE CellOf(k) = CellOf(pos)
      <4>1. k = pos + Capacity
        BY <1>1, <1>7, <2>2, <3>1, CellNear, Positions, Sizes
      <4> QED
        BY <1>5, <3>1, <4>1
    <3>2. CASE CellOf(k) # CellOf(pos)
      BY <1>4, <2>2, <3>2 DEF RingInv, Window
    <3> QED
      BY <3>1, <3>2
  <2> QED
    BY <1>2, <2>1, <2>2 DEF RingInv, Window
<1>10. Poppers'
  <2>1. ASSUME NEW d \in Consumers
        PROVE  PopperOK(popper'[d], enqueue_pos_', dequeue_pos_', sequence')
    <3>1. CASE d = c
      BY <1>3, <1>8, <3>1 DEF PopperOK, Taken
    <3>2. CASE d # c
      <4>1. popper'[d] = popper[d] /\ popper[d].pos \in Nat
        BY <1>3, <3>2 DEF RingInv, TypeOK
      <4>2. PopperOK(popper[d], enqueue_pos_, dequeue_pos_, sequence)
        BY DEF RingInv, Poppers
      <4>3. Taken(popper[d]) => popper[d].pos # pos
        BY <1>1, <3>2 DEF RingInv, Poppers, pos
      <4>4. /\ Taken(popper[d]) => CellOf(popper[d].pos) # CellOf(pos)
            /\ popper[d].pc = "cas" /\ popper[d].pos = dequeue_pos_
                 => CellOf(popper[d].pos) # CellOf(pos)
        BY <1>1, <4>1, <4>2, <4>3, Positions DEF PopperOK
      <4> QED
        BY <1>2, <1>4, <4>1, <4>2, <4>4 DEF PopperOK
    <3> QED
      BY <3>1, <3>2
  <2>2. ASSUME NEW d \in Consumers, Taken(popper'[d])
        PROVE  d # c /\ popper'[d] = popper[d]
    BY <1>3, <2>2
  <2> QED
    BY <2>1, <2>2 DEF RingInv, Poppers
<1>11. Pushers'
  <2>1. ASSUME NEW p \in Producers
        PROVE  PusherOK(pusher'[p], enqueue_pos_', dequeue_pos_', sequence')
    <3>1. PusherOK(pusher[p], enqueue_pos_, dequeue_pos_, sequence)
      BY DEF RingInv, Pushers
    <3>2. pusher[p].pos \in Nat
      BY DEF RingInv, TypeOK
    <3>3. ASSUME sequence[CellOf(pusher[p].pos)] = pusher[p].pos
          PROVE  sequence'[CellOf(pusher[p].pos)] = pusher[p].pos
      <4>1. CellOf(pusher[p].pos) # CellOf(pos)
        <5> SUFFICES ASSUME CellOf(pusher[p].pos) = CellOf(pos) PROVE FALSE
          OBVIOUS
        <5>1. pusher[p].pos = pos + 1
          BY <1>1, <3>3
        <5> QED
          BY <1>1, <5>1, CellNext
      <4> QED
        BY <1>4, <3>2, <3>3, <4>1
    <3> QED
      BY <1>2, <3>1, <3>2, <3>3 DEF PusherOK
  <2> QED
    BY <1>2, <2>1 DEF RingInv, Pushers
<1> QED
  BY <1>6, <1>9, <1>10, <1>11 DEF RingInv

-----------------------------------------------------------------------------
LEMMA InitRing == ASSUME Init PROVE RingInv
<1>1. TypeOK
  BY Sizes DEF Init, TypeOK, Cells
<1>2. Window
  <2>1. ASSUME NEW k \in Nat, k < Capacity PROVE sequence[CellOf(k)] = k
    <3>1. CellOf(k) = k
      BY <2>1, Sizes DEF CellOf
    <3>2. k \in Cells
      BY <2>1, Sizes DEF Cells
    <3> QED
      BY <3>1, <3>2 DEF Init
  <2> QED
    BY <2>1, Sizes DEF Init, Window
<1>3. Pushers /\ Poppers
  BY DEF Init, Pushers, Poppers, PusherOK, PopperOK, Claimed, Taken
<1> QED
  BY <1>1, <1>2, <1>3 DEF RingInv

LEMMA StepRing == ASSUME RingInv, [Next]_vars PROVE RingInv'
<1>1. CASE UNCHANGED vars
  BY <1>1 DEF vars, RingInv, TypeOK, Window, Pushers, Poppers
<1>2. CASE Next
  BY <1>2, PushLoadKeeps, PushDiffKeeps, PushCasKeeps, PushWriteKeeps,
     PushPublishKeeps, PopLoadKeeps, PopDiffKeeps, PopCasKeeps, PopReadKeeps,
     PopRecycleKeeps DEF Next
<1> QED
  BY <1>1, <1>2

LEMMA RingInvariant == Spec => []RingInv
  BY InitRing, StepRing, PTL DEF Spec

\* The plain payload of a cell is never accessed by two threads at once, for
\* every capacity above one and any number of producers and consumers.
THEOREM RaceFree == Spec => []NoDataRace
<1>1. RingInv => NoDataRace
  <2> SUFFICES ASSUME RingInv PROVE NoDataRace
    OBVIOUS
  <2>1. ASSUME NEW p \in Producers, NEW q \in Producers,
               Claimed(pusher[p]), Claimed(pusher[q]),
               CellOf(pusher[p].pos) = CellOf(pusher[q].pos)
        PROVE  p = q
    BY <2>1 DEF RingInv, Pushers, PusherOK
  <2>2. ASSUME NEW c \in Consumers, NEW d \in Consumers,
               Taken(popper[c]), Taken(popper[d]),
               CellOf(popper[c].pos) = CellOf(popper[d].pos)
        PROVE  c = d
    <3>1. popper[c].pos \in Nat /\ popper[d].pos \in Nat
      BY DEF RingInv, TypeOK
    <3>2. popper[c].pos + 1 = popper[d].pos + 1
      BY <2>2 DEF RingInv, Poppers, PopperOK
    <3>3. popper[c].pos = popper[d].pos
      BY <3>1, <3>2
    <3> QED
      BY <2>2, <3>3 DEF RingInv, Poppers
  <2>3. ASSUME NEW p \in Producers, NEW c \in Consumers,
               Claimed(pusher[p]), Taken(popper[c])
        PROVE  CellOf(pusher[p].pos) # CellOf(popper[c].pos)
    <3> SUFFICES ASSUME CellOf(pusher[p].pos) = CellOf(popper[c].pos) PROVE FALSE
      OBVIOUS
    <3>1. popper[c].pos \in Nat
      BY DEF RingInv, TypeOK
    <3>2. pusher[p].pos = popper[c].pos + 1
      BY <2>3 DEF RingInv, Pushers, Poppers, PusherOK, PopperOK
    <3> QED
      BY <3>1, <3>2, CellNext
  <2> QED
    BY <2>1, <2>2, <2>3 DEF NoDataRace, Claimed, Taken
<1> QED
  BY <1>1, RingInvariant, PTL

-----------------------------------------------------------------------------
(* The refinement: which item is at a position.                            *)

\* ItemAt over any values of the two variables it reads, so that the lemmas
\* below apply before and after a step
WritesAt(r, pos) == r.pc = "write" /\ r.pos = pos
ItemOf(pu, da, pos) ==
  IF \E p \in Producers : WritesAt(pu[p], pos)
  THEN pu[CHOOSE p \in Producers : WritesAt(pu[p], pos)].item
  ELSE da[CellOf(pos)]

LEMMA AbstractFifoIs ==
  /\ AbstractFifo = [i \in 1..(enqueue_pos_ - dequeue_pos_) |->
                       ItemOf(pusher, data, dequeue_pos_ + i - 1)]
  /\ AbstractFifo' = [i \in 1..(enqueue_pos_' - dequeue_pos_') |->
                        ItemOf(pusher', data', dequeue_pos_' + i - 1)]
  BY DEF AbstractFifo, ItemAt, ItemOf, WritesAt

LEMMA ItemWithProducer ==
  ASSUME NEW pu, NEW da, NEW pos, NEW p \in Producers, WritesAt(pu[p], pos),
         \A q \in Producers : WritesAt(pu[q], pos) => q = p
  PROVE  ItemOf(pu, da, pos) = pu[p].item
  BY DEF ItemOf

LEMMA ItemInCell ==
  ASSUME NEW pu, NEW da, NEW pos, \A q \in Producers : ~WritesAt(pu[q], pos)
  PROVE  ItemOf(pu, da, pos) = da[CellOf(pos)]
  BY DEF ItemOf

LEMMA SameItem ==
  ASSUME NEW pu, NEW pv, NEW da, NEW db, NEW pos,
         \A p, q \in Producers : WritesAt(pu[p], pos) /\ WritesAt(pu[q], pos) => p = q,
         \A q \in Producers : WritesAt(pu[q], pos) <=> WritesAt(pv[q], pos),
         \A q \in Producers : WritesAt(pu[q], pos) => pv[q].item = pu[q].item,
         db[CellOf(pos)] = da[CellOf(pos)]
  PROVE  ItemOf(pv, db, pos) = ItemOf(pu, da, pos)
<1>1. CASE \E p \in Producers : WritesAt(pu[p], pos)
  <2>1. PICK p \in Producers : WritesAt(pu[p], pos)
    BY <1>1
  <2>2. ItemOf(pu, da, pos) = pu[p].item
    BY <2>1, ItemWithProducer
  <2>3. ItemOf(pv, db, pos) = pv[p].item
    BY <2>1, ItemWithProducer
  <2> QED
    BY <2>1, <2>2, <2>3
<1>2. CASE \A p \in Producers : ~WritesAt(pu[p], pos)
  BY <1>2, ItemInCell
<1> QED
  BY <1>1, <1>2

LEMMA AppendAsFunction ==
  ASSUME NEW S, NEW s \in Seq(S), NEW v \in S, NEW n \in Nat, Len(s) = n
  PROVE  Append(s, v) = [i \in 1..(n + 1) |-> IF i <= n THEN s[i] ELSE v]
<1>1. /\ Append(s, v) \in Seq(S) /\ Len(Append(s, v)) = n + 1
      /\ \A i \in 1..n : Append(s, v)[i] = s[i]
      /\ Append(s, v)[n + 1] = v
  BY AppendProperties
<1>2. Append(s, v) = [i \in 1..(n + 1) |-> Append(s, v)[i]]
  BY <1>1, LenProperties
<1>3. ASSUME NEW i \in 1..(n + 1)
      PROVE  Append(s, v)[i] = (IF i <= n THEN s[i] ELSE v)
  <2>1. CASE i <= n
    BY <1>1, <2>1
  <2>2. CASE i = n + 1
    BY <1>1, <2>2
  <2> QED
    BY <2>1, <2>2
<1> DEFINE a == Append(s, v)
<1> HIDE DEF a
<1>4. a = [i \in 1..(n + 1) |-> a[i]] /\ \A i \in 1..(n + 1) : a[i] = (IF i <= n THEN s[i] ELSE v)
  BY <1>2, <1>3 DEF a
<1>5. a = [i \in 1..(n + 1) |-> IF i <= n THEN s[i] ELSE v]
  BY <1>4
<1> QED
  BY <1>5 DEF a

LEMMA TailAsFunction ==
  ASSUME NEW S, NEW s \in Seq(S), s # <<>>, NEW n \in Nat, Len(s) = n
  PROVE  Tail(s) = [i \in 1..(n - 1) |-> s[i + 1]]
<1> DEFINE a == Tail(s)
<1>1. a \in Seq(S) /\ Len(a) = n - 1 /\ \A i \in 1..(n - 1) : a[i] = s[i + 1]
  BY HeadTailProperties
<1> HIDE DEF a
<1>2. a = [i \in 1..(n - 1) |-> a[i]]
  BY <1>1, LenProperties
<1>3. a = [i \in 1..(n - 1) |-> s[i + 1]]
  BY <1>1, <1>2
<1> QED
  BY <1>3 DEF a

LEMMA OneWriterPerPosition ==
  ASSUME RingInv, NEW pos
  PROVE  \A p, q \in Producers :
           WritesAt(pusher[p], pos) /\ WritesAt(pusher[q], pos) => p = q
  BY DEF RingInv, Pushers, Claimed, WritesAt

\* positions hold items or, never read, nothing
LEMMA ItemType ==
  ASSUME RingInv, NEW k \in Nat
  PROVE  ItemOf(pusher, data, k) \in Items \cup {Nothing}
<1>1. CASE \E p \in Producers : WritesAt(pusher[p], k)
  <2>1. PICK p \in Producers : WritesAt(pusher[p], k)
    BY <1>1
  <2>2. ItemOf(pusher, data, k) = pusher[p].item
    BY <2>1, ItemWithProducer, OneWriterPerPosition
  <2> QED
    BY <2>2 DEF RingInv, TypeOK
<1>2. CASE \A p \in Producers : ~WritesAt(pusher[p], k)
  <2>1. ItemOf(pusher, data, k) = data[CellOf(k)]
    BY <1>2, ItemInCell
  <2> QED
    BY <2>1, CellType DEF RingInv, TypeOK
<1> QED
  BY <1>1, <1>2

LEMMA FifoType ==
  ASSUME RingInv
  PROVE  /\ AbstractFifo \in Seq(Items \cup {Nothing})
         /\ Len(AbstractFifo) = enqueue_pos_ - dequeue_pos_
         /\ \A i \in 1..(enqueue_pos_ - dequeue_pos_) :
              AbstractFifo[i] = ItemOf(pusher, data, dequeue_pos_ + i - 1)
<1> DEFINE n == enqueue_pos_ - dequeue_pos_
<1>1. n \in Nat
  BY Positions
<1>2. \A i \in 1..n : dequeue_pos_ + i - 1 \in Nat
  BY <1>1, Positions
<1>3. \A i \in 1..n : ItemOf(pusher, data, dequeue_pos_ + i - 1) \in Items \cup {Nothing}
  BY <1>2, ItemType
<1>4. AbstractFifo = [i \in 1..n |-> ItemOf(pusher, data, dequeue_pos_ + i - 1)]
  BY AbstractFifoIs
<1> HIDE DEF n
<1>5. AbstractFifo \in [1..n -> Items \cup {Nothing}]
  BY <1>3, <1>4
<1>6. AbstractFifo \in Seq(Items \cup {Nothing}) /\ Len(AbstractFifo) = n
  BY <1>1, <1>5
<1> QED
  BY <1>4, <1>6 DEF n

\* a step that moves neither position and no item keeps the abstract queue
LEMMA FifoStays ==
  ASSUME RingInv, UNCHANGED <<enqueue_pos_, dequeue_pos_>>,
         \A k \in Nat : dequeue_pos_ <= k /\ k < enqueue_pos_
           => ItemOf(pusher', data', k) = ItemOf(pusher, data, k)
  PROVE  AbstractFifo' = AbstractFifo
<1>1. \A i \in 1..(enqueue_pos_ - dequeue_pos_) :
        /\ dequeue_pos_ + i - 1 \in Nat /\ dequeue_pos_ <= dequeue_pos_ + i - 1
        /\ dequeue_pos_ + i - 1 < enqueue_pos_
  BY Positions
<1>2. \A i \in 1..(enqueue_pos_ - dequeue_pos_) :
        ItemOf(pusher', data', dequeue_pos_ + i - 1)
          = ItemOf(pusher, data, dequeue_pos_ + i - 1)
  BY <1>1
<1> QED
  BY <1>2, AbstractFifoIs

GotOf(r, da) == IF r.pc = "read" THEN da[CellOf(r.pos)] ELSE r.item

LEMMA AbstractGotIs ==
  /\ AbstractGot = [c \in Consumers |-> GotOf(popper[c], data)]
  /\ AbstractGot' = [c \in Consumers |-> GotOf(popper'[c], data')]
  BY DEF AbstractGot, GotOf

\* a producer's step that neither claims nor writes
LEMMA QuietPush ==
  ASSUME RingInv, NEW p \in Producers,
         \A q \in Producers : q # p => pusher'[q] = pusher[q],
         pusher[p].pc # "write", pusher'[p].pc # "write",
         UNCHANGED <<enqueue_pos_, dequeue_pos_, data, popper>>
  PROVE  UNCHANGED <<AbstractFifo, AbstractGot>>
<1>1. ASSUME NEW k \in Nat
      PROVE  ItemOf(pusher', data', k) = ItemOf(pusher, data, k)
  <2>1. \A q \in Producers : WritesAt(pusher[q], k) <=> WritesAt(pusher'[q], k)
    BY DEF WritesAt
  <2>2. \A q \in Producers : WritesAt(pusher[q], k) => pusher'[q].item = pusher[q].item
    BY DEF WritesAt
  <2> QED
    BY <2>1, <2>2, OneWriterPerPosition, SameItem
<1>2. AbstractFifo' = AbstractFifo
  BY <1>1, FifoStays
<1> QED
  BY <1>2, AbstractGotIs

\* a consumer's step that does not change what it has popped
LEMMA QuietPop ==
  ASSUME RingInv, NEW c \in Consumers,
         \A d \in Consumers : d # c => popper'[d] = popper[d],
         GotOf(popper'[c], data) = GotOf(popper[c], data),
         UNCHANGED <<enqueue_pos_, dequeue_pos_, data, pusher>>
  PROVE  UNCHANGED <<AbstractFifo, AbstractGot>>
<1>1. AbstractFifo' = AbstractFifo
  BY AbstractFifoIs
<1>2. \A d \in Consumers : GotOf(popper'[d], data') = GotOf(popper[d], data)
  OBVIOUS
<1> QED
  BY <1>1, <1>2, AbstractGotIs

\* the payload reaches the cell of the position it was claimed for
LEMMA PushWriteIsQuiet ==
  ASSUME RingInv, NEW p \in Producers, PushWrite(p)
  PROVE  UNCHANGED <<AbstractFifo, AbstractGot>>
<1> DEFINE pos == pusher[p].pos
<1>1. /\ pusher[p].pc = "write" /\ pos \in Nat /\ Claimed(pusher[p])
      /\ dequeue_pos_ <= pos /\ pos < enqueue_pos_ /\ sequence[CellOf(pos)] = pos
  BY DEF RingInv, TypeOK, Pushers, PusherOK, Claimed, PushWrite
<1>2. /\ data' = [data EXCEPT ![CellOf(pos)] = pusher[p].item]
      /\ pusher'[p].pc = "publish"
      /\ \A q \in Producers : q # p => pusher'[q] = pusher[q]
      /\ UNCHANGED <<enqueue_pos_, dequeue_pos_, popper>>
  BY DEF PushWrite, RingInv, TypeOK
<1>3. /\ data'[CellOf(pos)] = pusher[p].item
      /\ \A k \in Nat : CellOf(k) # CellOf(pos) => data'[CellOf(k)] = data[CellOf(k)]
  BY <1>1, <1>2, CellType DEF RingInv, TypeOK
<1>4. ASSUME NEW k \in Nat, dequeue_pos_ <= k, k < enqueue_pos_
      PROVE  ItemOf(pusher', data', k) = ItemOf(pusher, data, k)
  <2>1. CASE k = pos
    <3>1. ItemOf(pusher, data, k) = pusher[p].item
      BY <1>1, <2>1, ItemWithProducer, OneWriterPerPosition DEF WritesAt
    <3>2. \A q \in Producers : ~WritesAt(pusher'[q], k)
      BY <1>1, <1>2, <2>1, OneWriterPerPosition DEF WritesAt
    <3>3. ItemOf(pusher', data', k) = data'[CellOf(k)]
      BY <3>2, ItemInCell
    <3> QED
      BY <1>3, <2>1, <3>1, <3>3
  <2>2. CASE k # pos
    <3>1. CellOf(k) # CellOf(pos)
      <4>1. k - pos < Capacity /\ pos - k < Capacity
        BY <1>1, <1>4, Positions, Sizes
      <4> HIDE DEF pos
      <4> QED
        BY <1>1, <2>2, <4>1, CellNear
    <3>2. \A q \in Producers : WritesAt(pusher[q], k) <=> WritesAt(pusher'[q], k)
      BY <1>2, <2>2 DEF WritesAt
    <3>3. \A q \in Producers : WritesAt(pusher[q], k) => pusher'[q].item = pusher[q].item
      BY <1>2, <2>2 DEF WritesAt
    <3>4. data'[CellOf(k)] = data[CellOf(k)]
      BY <1>3, <3>1
    <3> QED
      BY <3>2, <3>3, <3>4, OneWriterPerPosition, SameItem
  <2> QED
    BY <2>1, <2>2
<1>5. AbstractFifo' = AbstractFifo
  BY <1>2, <1>4, FifoStays
<1>6. ASSUME NEW c \in Consumers
      PROVE  GotOf(popper'[c], data') = GotOf(popper[c], data)
  <2>1. popper[c].pos \in Nat
    BY DEF RingInv, TypeOK
  <2>2. CASE popper[c].pc = "read"
    <3>1. sequence[CellOf(popper[c].pos)] = popper[c].pos + 1
      BY <2>2 DEF RingInv, Poppers, PopperOK, Taken
    <3>2. CellOf(popper[c].pos) # CellOf(pos)
      BY <1>1, <2>1, <3>1, CellNext
    <3> QED
      BY <1>2, <1>3, <2>1, <2>2, <3>2 DEF GotOf
  <2>3. CASE popper[c].pc # "read"
    BY <1>2, <2>3 DEF GotOf
  <2> QED
    BY <2>2, <2>3
<1> QED
  BY <1>5, <1>6, AbstractGotIs

\* a push takes effect when its exchange claims the position
LEMMA ClaimIsPush ==
  ASSUME RingInv, NEW p \in Producers, PushCas(p),
         PushTakes(p), enqueue_pos_' = pusher[p].pos + 1,
         pusher'[p].pc = "write", pusher'[p].pos = pusher[p].pos,
         pusher'[p].item = pusher[p].item,
         \A q \in Producers : q # p => pusher'[q] = pusher[q]
  PROVE  \E v \in Items : Fifo!Push(v)
<1> DEFINE n == enqueue_pos_ - dequeue_pos_
           v == pusher[p].item
<1>1. /\ pusher[p].pc = "cas" /\ pusher[p].pos = enqueue_pos_ /\ v \in Items
      /\ sequence[CellOf(enqueue_pos_)] = enqueue_pos_
      /\ enqueue_pos_' = enqueue_pos_ + 1
      /\ UNCHANGED <<dequeue_pos_, data, popper>>
  BY DEF PushCas, PushTakes, RingInv, Pushers, PusherOK
<1>2. /\ pusher'[p].pc = "write" /\ pusher'[p].pos = enqueue_pos_
      /\ pusher'[p].item = v
      /\ \A q \in Producers : q # p => pusher'[q] = pusher[q]
  BY <1>1 DEF RingInv, TypeOK
<1>3. n \in Nat /\ n < Capacity /\ enqueue_pos_' - dequeue_pos_' = n + 1
  BY <1>1, ClaimHasRoom, Positions, Sizes
<1>4. \A q \in Producers : WritesAt(pusher'[q], enqueue_pos_) => q = p
  <2>1. \A q \in Producers : Claimed(pusher[q]) => pusher[q].pos < enqueue_pos_
    BY DEF RingInv, Pushers, PusherOK
  <2> QED
    BY <1>2, <2>1, Positions DEF WritesAt, Claimed
<1>5. ItemOf(pusher', data', enqueue_pos_) = v
  <2>1. WritesAt(pusher'[p], enqueue_pos_)
    BY <1>2 DEF WritesAt
  <2>2. ItemOf(pusher', data', enqueue_pos_) = pusher'[p].item
    BY <1>4, <2>1, ItemWithProducer
  <2> QED
    BY <1>2, <2>2
<1>6. ASSUME NEW k \in Nat, k < enqueue_pos_
      PROVE  ItemOf(pusher', data', k) = ItemOf(pusher, data, k)
  <2>1. \A q \in Producers : WritesAt(pusher[q], k) <=> WritesAt(pusher'[q], k)
    <3>1. ~WritesAt(pusher[p], k) /\ ~WritesAt(pusher'[p], k)
      BY <1>1, <1>2, <1>6, Positions DEF WritesAt
    <3> QED
      BY <1>2, <3>1
  <2>2. \A q \in Producers : WritesAt(pusher[q], k) => pusher'[q].item = pusher[q].item
    BY <1>1, <1>2 DEF WritesAt
  <2> QED
    BY <1>1, <2>1, <2>2, OneWriterPerPosition, SameItem
<1>7. AbstractFifo' = Append(AbstractFifo, v)
  <2>1. AbstractFifo' = [i \in 1..(n + 1) |->
                           ItemOf(pusher', data', dequeue_pos_ + i - 1)]
    BY <1>1, <1>3, AbstractFifoIs
  <2>2. /\ AbstractFifo \in Seq(Items \cup {Nothing}) /\ Len(AbstractFifo) = n
        /\ \A i \in 1..n : AbstractFifo[i] = ItemOf(pusher, data, dequeue_pos_ + i - 1)
    BY FifoType
  <2>3. dequeue_pos_ + (n + 1) - 1 = enqueue_pos_
    BY Positions
  <2>4. ASSUME NEW i \in 1..n
        PROVE  ItemOf(pusher', data', dequeue_pos_ + i - 1) = AbstractFifo[i]
    <3>1. dequeue_pos_ + i - 1 \in Nat /\ dequeue_pos_ + i - 1 < enqueue_pos_
      BY <1>3, Positions
    <3> QED
      BY <1>6, <2>2, <3>1
  <2> HIDE DEF n, v
  <2>5. Append(AbstractFifo, v) =
          [i \in 1..(n + 1) |-> IF i <= n THEN AbstractFifo[i] ELSE v]
    <3>1. v \in Items \cup {Nothing} /\ n \in Nat
      BY <1>1, <1>3 DEF v
    <3> QED
      BY <2>2, <3>1, AppendAsFunction
  <2>6. ASSUME NEW i \in 1..(n + 1)
        PROVE  ItemOf(pusher', data', dequeue_pos_ + i - 1)
                 = (IF i <= n THEN AbstractFifo[i] ELSE v)
    <3>1. CASE i <= n
      <4>1. i \in 1..n
        BY <1>3, <3>1
      <4> QED
        BY <2>4, <3>1, <4>1
    <3>2. CASE ~(i <= n)
      <4>1. i = n + 1
        BY <1>3, <3>2
      <4> QED
        BY <1>5, <2>3, <3>2, <4>1
    <3> QED
      BY <3>1, <3>2
  <2> QED
    BY <2>1, <2>5, <2>6
<1>8. AbstractGot' = AbstractGot
  BY <1>1, AbstractGotIs
<1>9. Len(AbstractFifo) < Capacity
  BY <1>3, FifoType
<1> HIDE DEF v
<1> QED
  BY <1>1, <1>7, <1>8, <1>9 DEF Fifo!Push

\* a pop takes effect when its exchange takes the position: the oldest item,
\* which its producer has published
LEMMA TakeIsPop ==
  ASSUME RingInv, NEW c \in Consumers, PopCas(c),
         dequeue_pos_ = popper[c].pos, dequeue_pos_' = popper[c].pos + 1,
         popper' = [popper EXCEPT ![c].pc = "read"]
  PROVE  Fifo!Pop(c)
<1> DEFINE n == enqueue_pos_ - dequeue_pos_
<1>1. /\ popper[c].pc = "cas" /\ popper[c].pos = dequeue_pos_
      /\ sequence[CellOf(dequeue_pos_)] = dequeue_pos_ + 1
      /\ dequeue_pos_' = dequeue_pos_ + 1
      /\ UNCHANGED <<enqueue_pos_, data, pusher>>
  BY DEF PopCas, RingInv, Poppers, PopperOK
<1>2. /\ popper'[c].pc = "read" /\ popper'[c].pos = dequeue_pos_
      /\ \A d \in Consumers : d # c => popper'[d] = popper[d]
  BY <1>1 DEF RingInv, TypeOK
<1>3. n \in Nat /\ n > 0 /\ enqueue_pos_' - dequeue_pos_' = n - 1
  BY <1>1, TakesAnItem, Positions
<1>4. /\ AbstractFifo \in Seq(Items \cup {Nothing}) /\ Len(AbstractFifo) = n
      /\ \A i \in 1..n : AbstractFifo[i] = ItemOf(pusher, data, dequeue_pos_ + i - 1)
  BY FifoType
<1>5. AbstractFifo # <<>>
  BY <1>3, <1>4
<1>6. Head(AbstractFifo) = data[CellOf(dequeue_pos_)]
  <2>1. \A q \in Producers : ~WritesAt(pusher[q], dequeue_pos_)
    BY <1>1, Positions DEF WritesAt, RingInv, Pushers, PusherOK, Claimed
  <2>2. ItemOf(pusher, data, dequeue_pos_) = data[CellOf(dequeue_pos_)]
    BY <2>1, ItemInCell
  <2>3. AbstractFifo[1] = ItemOf(pusher, data, dequeue_pos_ + 1 - 1)
    BY <1>3, <1>4
  <2>4. dequeue_pos_ + 1 - 1 = dequeue_pos_
    BY Positions
  <2> QED
    BY <1>4, <1>5, <2>2, <2>3, <2>4
<1>7. AbstractFifo' = Tail(AbstractFifo)
  <2>1. AbstractFifo' = [i \in 1..(n - 1) |->
                           ItemOf(pusher, data, (dequeue_pos_ + 1) + i - 1)]
    BY <1>1, <1>3, AbstractFifoIs
  <2> HIDE DEF n
  <2>2. Tail(AbstractFifo) = [i \in 1..(n - 1) |-> AbstractFifo[i + 1]]
    BY <1>3, <1>4, <1>5, TailAsFunction
  <2>3. ASSUME NEW i \in 1..(n - 1)
        PROVE  AbstractFifo[i + 1] = ItemOf(pusher, data, (dequeue_pos_ + 1) + i - 1)
    <3>1. i + 1 \in 1..n /\ dequeue_pos_ + (i + 1) - 1 = (dequeue_pos_ + 1) + i - 1
      BY <1>3, Positions
    <3> QED
      BY <1>4, <3>1
  <2> QED
    BY <2>1, <2>2, <2>3
<1>8. AbstractGot' = [AbstractGot EXCEPT ![c] = Head(AbstractFifo)]
  <2>1. GotOf(popper'[c], data') = Head(AbstractFifo)
    BY <1>1, <1>2, <1>6 DEF GotOf
  <2>2. \A d \in Consumers : d # c => GotOf(popper'[d], data') = GotOf(popper[d], data)
    BY <1>1, <1>2
  <2> QED
    BY <2>1, <2>2, AbstractGotIs
<1> QED
  BY <1>5, <1>7, <1>8 DEF Fifo!Pop

-----------------------------------------------------------------------------
LEMMA ProducerRefines ==
  ASSUME RingInv, NEW p \in Producers,
         PushLoad(p) \/ PushDiff(p) \/ PushCas(p) \/ PushWrite(p) \/ PushPublish(p)
  PROVE  Fifo!Next \/ UNCHANGED <<AbstractFifo, AbstractGot>>
<1>1. CASE PushWrite(p)
  BY <1>1, PushWriteIsQuiet
<1>2. CASE PushCas(p) /\ PushTakes(p) /\ enqueue_pos_' = pusher[p].pos + 1
           /\ pusher' = [pusher EXCEPT ![p].pc = "write"]
  <2>1. /\ pusher'[p].pc = "write" /\ pusher'[p].pos = pusher[p].pos
        /\ pusher'[p].item = pusher[p].item
        /\ \A q \in Producers : q # p => pusher'[q] = pusher[q]
    BY <1>2 DEF RingInv, TypeOK
  <2> QED
    BY <1>2, <2>1, ClaimIsPush DEF Fifo!Next
<1>3. CASE /\ PushCas(p) /\ UNCHANGED enqueue_pos_
           /\ pusher' = [pusher EXCEPT ![p].pc = "diff", ![p].pos = enqueue_pos_]
  <2>1. /\ \A q \in Producers : q # p => pusher'[q] = pusher[q]
        /\ pusher[p].pc # "write" /\ pusher'[p].pc # "write"
        /\ UNCHANGED <<enqueue_pos_, dequeue_pos_, data, popper>>
    BY <1>3 DEF PushCas, RingInv, TypeOK
  <2> QED
    BY <2>1, QuietPush
<1>4. CASE PushLoad(p) \/ PushPublish(p)
  <2>1. /\ \A q \in Producers : q # p => pusher'[q] = pusher[q]
        /\ pusher[p].pc # "write" /\ pusher'[p].pc # "write"
        /\ UNCHANGED <<enqueue_pos_, dequeue_pos_, data, popper>>
    BY <1>4 DEF PushLoad, PushPublish, RingInv, TypeOK
  <2> QED
    BY <2>1, QuietPush
<1>5. CASE PushDiff(p)
  <2>1. /\ \A q \in Producers : q # p => pusher'[q] = pusher[q]
        /\ pusher[p].pc # "write"
        /\ UNCHANGED <<enqueue_pos_, dequeue_pos_, data, popper>>
    BY <1>5 DEF PushDiff, RingInv, TypeOK
  <2>2. pusher'[p].pc # "write"
    BY <1>5, PushDiffClaimsNothing DEF Claimed
  <2> QED
    BY <2>1, <2>2, QuietPush
<1> QED
  BY <1>1, <1>2, <1>3, <1>4, <1>5 DEF PushCas

LEMMA ConsumerRefines ==
  ASSUME RingInv, NEW c \in Consumers,
         PopLoad(c) \/ PopDiff(c) \/ PopCas(c) \/ PopRead(c) \/ PopRecycle(c)
  PROVE  Fifo!Next \/ UNCHANGED <<AbstractFifo, AbstractGot>>
<1>0. popper[c] \in PopRecord /\ popper \in [Consumers -> PopRecord]
  BY DEF RingInv, TypeOK, PopRecord
<1>1. CASE PopCas(c) /\ dequeue_pos_ = popper[c].pos
           /\ dequeue_pos_' = popper[c].pos + 1
           /\ popper' = [popper EXCEPT ![c].pc = "read"]
  BY <1>1, TakeIsPop DEF Fifo!Next
<1>2. CASE \/ PopLoad(c) \/ PopRecycle(c) \/ PopRead(c)
           \/ /\ PopCas(c) /\ UNCHANGED dequeue_pos_
              /\ popper' = [popper EXCEPT ![c].pc = "diff", ![c].pos = dequeue_pos_]
  <2>1. /\ \A d \in Consumers : d # c => popper'[d] = popper[d]
        /\ UNCHANGED <<enqueue_pos_, dequeue_pos_, data, pusher>>
    BY <1>0, <1>2 DEF PopLoad, PopRecycle, PopRead, PopCas
  <2>2. GotOf(popper'[c], data) = GotOf(popper[c], data)
    BY <1>0, <1>2 DEF PopLoad, PopRecycle, PopRead, PopCas, GotOf, PopRecord
  <2> QED
    BY <2>1, <2>2, QuietPop
<1>3. CASE PopDiff(c)
  <2>1. /\ \A d \in Consumers : d # c => popper'[d] = popper[d]
        /\ UNCHANGED <<enqueue_pos_, dequeue_pos_, data, pusher>>
    BY <1>0, <1>3 DEF PopDiff
  <2>2. GotOf(popper'[c], data) = GotOf(popper[c], data)
    <3>1. popper[c].pc # "read" /\ popper'[c].pc # "read"
      BY <1>3, PopDiffKeepsItem DEF PopDiff, Taken
    <3>2. popper'[c].item = popper[c].item
      BY <1>3, PopDiffKeepsItem
    <3> QED
      BY <3>1, <3>2 DEF GotOf
  <2> QED
    BY <2>1, <2>2, QuietPop
<1> QED
  BY <1>1, <1>2, <1>3 DEF PopCas

\* The ring buffer implements a FIFO of at most Capacity items, for every
\* capacity above one and any number of producers, consumers and operations:
\* nothing is lost, duplicated, reordered or overwritten.
THEOREM RingImplementsFifo == Spec => ImplementsFifo
<1>1. ASSUME Init PROVE Fifo!Init
  <2>1. AbstractFifo = <<>>
    <3>1. enqueue_pos_ - dequeue_pos_ = 0
      BY <1>1 DEF Init
    <3>2. AbstractFifo = [i \in 1..0 |-> ItemOf(pusher, data, dequeue_pos_ + i - 1)]
      BY <3>1, AbstractFifoIs
    <3> QED
      BY <3>2
  <2>2. AbstractGot = [c \in Consumers |-> Nothing]
    BY <1>1 DEF AbstractGot, Init
  <2> QED
    BY <2>1, <2>2 DEF Fifo!Init
<1>2. ASSUME RingInv, [Next]_vars
      PROVE  [Fifo!Next]_<<AbstractFifo, AbstractGot>>
  <2>1. CASE UNCHANGED vars
    <3>1. UNCHANGED <<AbstractFifo, AbstractGot>>
      BY <2>1, AbstractFifoIs, AbstractGotIs DEF vars
    <3> QED
      BY <3>1
  <2>2. CASE Next
    BY <1>2, <2>2, ProducerRefines, ConsumerRefines DEF Next
  <2> QED
    BY <1>2, <2>1, <2>2
<1> QED
  BY <1>1, <1>2, RingInvariant, PTL DEF Spec, ImplementsFifo, Fifo!Spec
=============================================================================
