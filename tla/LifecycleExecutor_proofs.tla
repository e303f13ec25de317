----------------------- MODULE LifecycleExecutor_proofs -----------------------
(***************************************************************************)
(* Theorems about LifecycleExecutor, for any number of producers, workers  *)
(* and tasks and any capacity of the queue.                                *)
(***************************************************************************)
EXTENDS LifecycleExecutor, FiniteSetTheorems, SequenceTheorems, TLAPS

-----------------------------------------------------------------------------
(* Arithmetic of a size_t.                                                 *)

LEMMA Remainder ==
  ASSUME NEW W \in Nat, W > 0, NEW q \in Int, NEW r \in Int, 0 <= r, r < W
  PROVE  (W * q + r) % W = r
  BY Z3

LEMMA Division ==
  ASSUME NEW W \in Nat, W > 0, NEW x \in Int
  PROVE  \E q \in Int : \E r \in 0..W-1 : x = W * q + r
<1> DEFINE q == x \div W
<1>1. q \in Int /\ W * q <= x /\ x < W * q + W
  BY Z3
<1> HIDE DEF q
<1>2. x - W * q \in 0..W-1 /\ x = W * q + (x - W * q)
  BY <1>1
<1> QED
  BY <1>1, <1>2

\* Counting up and down commutes with the wrap-around.
LEMMA WrapUp ==
  ASSUME NEW W \in Nat, W > 0, NEW x \in Int
  PROVE  ((x % W) + 1) % W = (x + 1) % W
<1>1. PICK q \in Int : \E r \in 0..W-1 : x = W * q + r
  BY Division
<1>2. PICK r \in 0..W-1 : x = W * q + r
  BY <1>1
<1>3. x % W = r
  BY <1>2, Remainder
<1>4. CASE r + 1 < W
  <2>1. x + 1 = W * q + (r + 1)
    BY <1>2
  <2>2. (W * q + (r + 1)) % W = r + 1
    BY <1>4, Remainder
  <2>3. (r + 1) % W = r + 1
    BY <1>4, Z3
  <2> QED
    BY <1>3, <2>1, <2>2, <2>3
<1>5. CASE r + 1 = W
  <2>1. x + 1 = W * (q + 1) + 0
    BY <1>2, <1>5, Z3
  <2>2. (W * (q + 1) + 0) % W = 0
    BY Remainder
  <2>3. (r + 1) % W = 0
    BY <1>5, Z3
  <2> QED
    BY <1>3, <2>1, <2>2, <2>3
<1> QED
  BY <1>4, <1>5

LEMMA WrapDown ==
  ASSUME NEW W \in Nat, W > 0, NEW x \in Int
  PROVE  ((x % W) - 1) % W = (x - 1) % W
<1>1. PICK q \in Int : \E r \in 0..W-1 : x = W * q + r
  BY Division
<1>2. PICK r \in 0..W-1 : x = W * q + r
  BY <1>1
<1>3. x % W = r
  BY <1>2, Remainder
<1>4. CASE r > 0
  <2>1. x - 1 = W * q + (r - 1)
    BY <1>2
  <2>2. (W * q + (r - 1)) % W = r - 1
    BY <1>4, Remainder
  <2>3. (r - 1) % W = r - 1
    BY <1>4, Z3
  <2> QED
    BY <1>3, <2>1, <2>2, <2>3
<1>5. CASE r = 0
  <2>1. x - 1 = W * (q - 1) + (W - 1)
    BY <1>2, <1>5, Z3
  <2>2. (W * (q - 1) + (W - 1)) % W = W - 1
    BY Remainder
  <2>3. (0 - 1) % W = W - 1
    BY Z3
  <2> QED
    BY <1>3, <1>5, <2>1, <2>2, <2>3
<1> QED
  BY <1>4, <1>5

-----------------------------------------------------------------------------
(* The inductive invariant.                                                *)

Ended == control \in {"notify", "join", "stopped"}

\* Who has a task at hand has a real one.
AtHand ==
  /\ \A p \in Producers : producer[p].pc # "out" => producer[p].task \in Tasks
  /\ \A w \in Workers :
       worker[w].pc \in {"popped", "handle"} => worker[w].task \in Tasks

\* The thread that starts and stops the pool, and what the workers know of it.
Control ==
  /\ running_ <=> control \in {"spawn", "started"}
  /\ control = "new" => \A w \in Workers : worker[w].pc = "out"
  /\ control \notin {"new", "spawn"} => Workers # {}
  /\ \A w \in Workers : worker[w].pc \in {"check_empty", "done"} => Ended
  /\ control = "stopped" => \A w \in Workers : worker[w].pc = "done"

\* A place that is not published has a producer that will publish it.
Unpublished ==
  \A i \in 1..Len(queue) : ~queue[i].ready =>
    \E p \in Producers :
      producer[p].pc = "publish" /\ producer[p].task = queue[i].task

InQueue(t) == \E i \in 1..Len(queue) : queue[i].task = t
InHand(t) ==
  \E w \in Workers : worker[w].pc \in {"popped", "handle"} /\ worker[w].task = t
Offered(t) ==
  \E p \in Producers :
    producer[p].pc \in {"publish", "count", "notify"} /\ producer[p].task = t

\* A task that was pushed is queued, in the hands of a worker, or handled.
Kept ==
  \A t \in Tasks : t \in accepted \/ Offered(t) =>
                     InQueue(t) \/ InHand(t) \/ t \in handled

\* After a quiet stop nobody pushes any more, and the first worker to leave
\* left an empty queue.
Drained ==
  quiet /\ Ended =>
    /\ \A p \in Producers : producer[p].pc = "out"
    /\ (\E w \in Workers : worker[w].pc = "done") => queue = <<>>
    /\ control = "stopped" => pending_ = 0

PoolInv ==
  TypeOK /\ AtHand /\ Control /\ Unpublished /\ Kept /\ Drained /\ PendingBalance

-----------------------------------------------------------------------------
(* Types.                                                                  *)

LEMMA TypesStep ==
  ASSUME TypeOK, AtHand, [Next]_vars PROVE TypeOK' /\ AtHand'
<1> USE DEF TypeOK, AtHand
<1>0. /\ Wrap \in Nat /\ Wrap > 0
      /\ \A n \in Int : n % Wrap \in 0..Wrap-1
  <2>1. Cardinality(Producers) \in Nat /\ Cardinality(Workers) \in Nat
    BY ExecutorAssumption, FS_CardinalityType
  <2>2. Wrap \in Nat /\ Wrap > 0
    BY <2>1, ExecutorAssumption
  <2> QED
    BY <2>2, Z3
<1>1. CASE ControlStep
  <2>1. CASE Start \/ Stop
    BY <2>1 DEF Start, Stop, History
  <2>2. ASSUME NEW w \in Workers, Spawn(w) PROVE TypeOK' /\ AtHand'
    BY <2>2 DEF Spawn, History
  <2>3. CASE StopNotify
    <3>1. \A w \in Workers : worker'[w] = worker[w] \/
            /\ worker'[w] = [worker[w] EXCEPT !.pc = "lock"]
      BY <2>3 DEF StopNotify, Woken
    <3>2. worker' \in [Workers ->
            [pc : {"out", "drain", "popped", "handle", "check", "check_empty",
                   "lock", "holds", "waiting", "done"},
             task : Tasks \cup {Nothing}]]
      BY <2>3 DEF StopNotify, Woken
    <3>3. \A w \in Workers : worker'[w].pc \in {"popped", "handle"} =>
            worker'[w] = worker[w]
      BY <3>1
    <3> QED
      BY <2>3, <3>2, <3>3 DEF StopNotify, History
  <2>4. CASE StopJoin
    BY <1>0, <2>4 DEF StopJoin, History
  <2> QED
    BY <1>1, <2>1, <2>2, <2>3, <2>4 DEF ControlStep
<1>2. ASSUME NEW p \in Producers, EnqueueCheck(p) \/ EnqueueStep(p)
      PROVE  TypeOK' /\ AtHand'
  <2>1. CASE EnqueueCheck(p)
    <3>1. PICK t \in todo :
            /\ todo' = todo \ {t}
            /\ producer' = [producer EXCEPT ![p] =
                 IF running_ THEN [pc |-> "push", task |-> t] ELSE Idle]
      BY <2>1 DEF EnqueueCheck
    <3>2. UNCHANGED <<running_, pending_, queue, worker, control, History>>
      BY <2>1 DEF EnqueueCheck
    <3> QED
      BY <3>1, <3>2 DEF Idle, History
  <2>2. CASE EnqueuePush(p)
    <3>1. producer[p].task \in Tasks
      BY <2>2 DEF EnqueuePush
    <3>2. /\ queue' \in Seq([task : Tasks, ready : BOOLEAN])
          /\ Len(queue') = Len(queue) + 1 /\ Len(queue) < Capacity
      BY <2>2, <3>1 DEF EnqueuePush, HasRoom
    <3>3. Len(queue') <= Capacity
      BY <3>2, ExecutorAssumption
    <3>4. /\ producer' = [producer EXCEPT ![p].pc = "publish"]
          /\ UNCHANGED <<running_, pending_, worker, control, todo, History>>
      BY <2>2 DEF EnqueuePush
    <3> QED
      BY <3>1, <3>2, <3>3, <3>4 DEF History
  <2>3. CASE EnqueueFull(p)
    <3>1. /\ producer' = [producer EXCEPT ![p] = Idle]
          /\ UNCHANGED <<running_, pending_, queue, worker, control, todo, History>>
      BY <2>3 DEF EnqueueFull
    <3>2. /\ producer' \in [Producers ->
               [pc : {"out", "push", "publish", "count", "notify"},
                task : Tasks \cup {Nothing}]]
          /\ \A q \in Producers : producer'[q].pc # "out" => producer'[q] = producer[q]
      BY <3>1 DEF Idle
    <3> QED
      BY <3>1, <3>2 DEF History
  <2>4. CASE EnqueuePublish(p)
    <3>1. /\ DOMAIN queue = 1..Len(queue)
          /\ queue' = [i \in 1..Len(queue) |->
               IF queue[i].task = producer[p].task
               THEN [queue[i] EXCEPT !.ready = TRUE] ELSE queue[i]]
      BY <2>4 DEF EnqueuePublish
    <3>2. ASSUME NEW i \in 1..Len(queue)
          PROVE  queue'[i] \in [task : Tasks, ready : BOOLEAN]
      <4>1. queue[i] \in [task : Tasks, ready : BOOLEAN]
        BY ElementOfSeq
      <4>2. queue'[i] = [queue[i] EXCEPT !.ready = TRUE] \/ queue'[i] = queue[i]
        BY <3>1
      <4> QED
        BY <4>1, <4>2
    <3>3. /\ queue' \in Seq([task : Tasks, ready : BOOLEAN])
          /\ Len(queue') = Len(queue)
      BY <3>1, <3>2
    <3> QED
      BY <2>4, <3>3 DEF EnqueuePublish, History
  <2>5. CASE EnqueueCount(p)
    <3>1. /\ pending_' = (pending_ + 1) % Wrap
          /\ producer' = [producer EXCEPT ![p].pc = "notify"]
          /\ producer[p].pc = "count"
          /\ UNCHANGED <<running_, queue, worker, control, todo, History>>
      BY <2>5 DEF EnqueueCount, Counted
    <3>2. pending_' \in 0..Wrap-1
      BY <1>0, <3>1
    <3> QED
      BY <3>1, <3>2 DEF History
  <2>6. CASE EnqueueNotify(p)
    <3>1. /\ accepted' = accepted \cup {producer[p].task}
          /\ producer[p].task \in Tasks
          /\ producer' = [producer EXCEPT ![p] = Idle]
          /\ UNCHANGED <<running_, pending_, queue, control, todo, handled, quiet>>
      BY <2>6 DEF EnqueueNotify
    <3>2. \/ UNCHANGED worker
          \/ \E w \in Workers : worker' = Woken({w}) /\ worker[w].pc = "waiting"
      BY <2>6 DEF EnqueueNotify, WorkersAt
    <3>3. /\ worker' \in [Workers ->
               [pc : {"out", "drain", "popped", "handle", "check",
                      "check_empty", "lock", "holds", "waiting", "done"},
                task : Tasks \cup {Nothing}]]
          /\ \A w \in Workers : worker'[w].pc \in {"popped", "handle"} =>
               worker'[w] = worker[w]
      BY <3>2 DEF Woken
    <3>4. /\ producer' \in [Producers ->
               [pc : {"out", "push", "publish", "count", "notify"},
                task : Tasks \cup {Nothing}]]
          /\ \A q \in Producers : producer'[q].pc # "out" => producer'[q] = producer[q]
      BY <3>1 DEF Idle
    <3> QED
      BY <3>1, <3>3, <3>4
  <2> QED
    BY <1>2, <2>1, <2>2, <2>3, <2>4, <2>5, <2>6 DEF EnqueueStep
<1>3. ASSUME NEW w \in Workers, WorkerStep(w) PROVE TypeOK' /\ AtHand'
  <2>1. CASE Drain(w)
    <3>1. /\ Head(queue) \in [task : Tasks, ready : BOOLEAN]
          /\ Tail(queue) \in Seq([task : Tasks, ready : BOOLEAN])
          /\ Len(Tail(queue)) = Len(queue) - 1
      <4>1. queue \in Seq([task : Tasks, ready : BOOLEAN]) /\ queue # <<>>
        BY <2>1 DEF Drain, HasTask
      <4> QED
        BY <4>1, HeadTailProperties
    <3>2. Len(Tail(queue)) <= Capacity
      BY <3>1, ExecutorAssumption
    <3> QED
      BY <2>1, <3>1, <3>2 DEF Drain, History
  <2>2. CASE DrainCount(w)
    <3>1. /\ pending_' = (pending_ - 1) % Wrap
          /\ worker' = [worker EXCEPT ![w].pc = "handle"]
          /\ worker[w].pc = "popped"
          /\ UNCHANGED <<running_, queue, producer, control, todo, History>>
      BY <2>2 DEF DrainCount
    <3>2. pending_' \in 0..Wrap-1
      BY <1>0, <3>1
    <3> QED
      BY <3>1, <3>2 DEF History
  <2>3. CASE Handle(w)
    <3>1. /\ worker' = [worker EXCEPT ![w] = [pc |-> "drain", task |-> Nothing]]
          /\ worker[w].task \in Tasks
          /\ handled' = handled \cup {worker[w].task}
          /\ UNCHANGED <<running_, pending_, queue, producer, control, todo,
                         accepted, quiet>>
      BY <2>3 DEF Handle
    <3> QED
      BY <3>1
  <2>4. CASE DrainNothing(w) \/ Check(w) \/ CheckEmpty(w) \/ Lock(w)
             \/ Block(w) \/ IdleTimeout(w)
    <3>1. \E pc \in {"drain", "check", "check_empty", "lock", "holds",
                     "waiting", "done"} :
            worker' = [worker EXCEPT ![w].pc = pc]
      BY <2>4 DEF DrainNothing, Check, CheckEmpty, Lock, Block, IdleTimeout
    <3>2. UNCHANGED <<running_, pending_, queue, producer, control, todo, History>>
      BY <2>4 DEF DrainNothing, Check, CheckEmpty, Lock, Block, IdleTimeout
    <3> QED
      BY <3>1, <3>2 DEF History
  <2> QED
    BY <1>3, <2>1, <2>2, <2>3, <2>4 DEF WorkerStep
<1>4. CASE UNCHANGED vars
  BY <1>4 DEF vars
<1> QED
  BY <1>1, <1>2, <1>3, <1>4 DEF Next

-----------------------------------------------------------------------------
(* What the steps of enqueue and drain_one do to the queue.                *)

Others(p) == \A q \in Producers \ {p} : producer'[q] = producer[q]
OtherWorkers(w) == \A v \in Workers \ {w} : worker'[v] = worker[v]

LEMMA PushFacts ==
  ASSUME TypeOK, AtHand, NEW p \in Producers, EnqueuePush(p)
  PROVE  /\ Len(queue) \in Nat /\ Len(queue') = Len(queue) + 1
         /\ \A i \in 1..Len(queue) : queue'[i] = queue[i]
         /\ queue'[Len(queue) + 1].task = producer[p].task
         /\ producer[p].pc = "push" /\ producer'[p].pc = "publish"
         /\ producer'[p].task = producer[p].task
         /\ Others(p)
<1>1. producer[p].task \in Tasks
  BY DEF EnqueuePush, AtHand
<1> DEFINE place == [task |-> producer[p].task, ready |-> FALSE]
<1>2. place \in [task : Tasks, ready : BOOLEAN] /\ place.task = producer[p].task
  BY <1>1
<1>3. queue' = Append(queue, place) /\ queue \in Seq([task : Tasks, ready : BOOLEAN])
  BY DEF EnqueuePush, TypeOK
<1> HIDE DEF place
<1>4. /\ Len(queue) \in Nat /\ Len(queue') = Len(queue) + 1
      /\ \A i \in 1..Len(queue) : queue'[i] = queue[i]
      /\ queue'[Len(queue) + 1] = place
  BY <1>2, <1>3, AppendProperties, LenProperties
<1>5. /\ producer[p].pc = "push" /\ producer'[p].pc = "publish"
      /\ producer'[p].task = producer[p].task /\ Others(p)
  BY DEF EnqueuePush, TypeOK, Others
<1> QED
  BY <1>2, <1>4, <1>5

LEMMA PublishFacts ==
  ASSUME TypeOK, NEW p \in Producers, EnqueuePublish(p)
  PROVE  /\ Len(queue') = Len(queue) /\ Len(queue) \in Nat
         /\ \A i \in 1..Len(queue) :
              /\ queue'[i].task = queue[i].task
              /\ ~queue'[i].ready =>
                   ~queue[i].ready /\ queue[i].task # producer[p].task
         /\ producer[p].pc = "publish" /\ producer'[p].pc = "count"
         /\ producer'[p].task = producer[p].task
         /\ Others(p)
<1>1. queue \in Seq([task : Tasks, ready : BOOLEAN])
  BY DEF TypeOK
<1>2. Len(queue) \in Nat /\ DOMAIN queue = 1..Len(queue)
  BY <1>1, LenProperties
<1>3. queue' = [i \in 1..Len(queue) |->
                  IF queue[i].task = producer[p].task
                  THEN [queue[i] EXCEPT !.ready = TRUE] ELSE queue[i]]
  BY <1>2 DEF EnqueuePublish
<1>4. Len(queue') = Len(queue)
  <2>1. DOMAIN queue' = 1..Len(queue)
    BY <1>3
  <2> QED
    BY <1>2, <2>1
<1>5. ASSUME NEW i \in 1..Len(queue)
      PROVE  /\ queue'[i].task = queue[i].task
             /\ ~queue'[i].ready =>
                  ~queue[i].ready /\ queue[i].task # producer[p].task
  <2>1. queue[i] \in [task : Tasks, ready : BOOLEAN]
    BY <1>1, ElementOfSeq
  <2>2. queue'[i] = IF queue[i].task = producer[p].task
                    THEN [queue[i] EXCEPT !.ready = TRUE] ELSE queue[i]
    BY <1>3
  <2> QED
    BY <2>1, <2>2
<1>6. /\ producer[p].pc = "publish" /\ producer'[p].pc = "count"
      /\ producer'[p].task = producer[p].task /\ Others(p)
  BY DEF EnqueuePublish, TypeOK, Others
<1> QED
  BY <1>2, <1>4, <1>5, <1>6

LEMMA DrainFacts ==
  ASSUME TypeOK, NEW w \in Workers, Drain(w)
  PROVE  /\ Len(queue) \in Nat /\ Len(queue) > 0 /\ Len(queue') = Len(queue) - 1
         /\ \A i \in 1..Len(queue) - 1 : queue'[i] = queue[i + 1]
         /\ worker'[w].pc = "popped" /\ worker'[w].task = queue[1].task
         /\ worker[w].pc = "drain"
         /\ OtherWorkers(w)
<1>1. queue \in Seq([task : Tasks, ready : BOOLEAN]) /\ queue # <<>>
  BY DEF TypeOK, Drain, HasTask
<1>2. queue' = Tail(queue)
  BY DEF Drain
<1>3. /\ Len(queue') = Len(queue) - 1 /\ Len(queue) \in Nat
      /\ \A i \in 1..Len(queue') : queue'[i] = queue[i + 1]
  BY <1>1, <1>2, HeadTailProperties, LenProperties
<1>4. Len(queue) > 0 /\ Head(queue) = queue[1]
  BY <1>1, <1>3, EmptySeq
<1>5. /\ worker'[w] = [pc |-> "popped", task |-> Head(queue).task]
      /\ worker[w].pc = "drain"
      /\ OtherWorkers(w)
  BY DEF Drain, TypeOK, OtherWorkers
<1> QED
  BY <1>3, <1>4, <1>5

\* start() and stop()
LEMMA ControlInv ==
  ASSUME TypeOK, Control, [Next]_vars PROVE Control'
<1>1. CASE Start
  BY <1>1 DEF Start, Control, Ended
<1>2. ASSUME NEW w \in Workers, Spawn(w) PROVE Control'
  <2>1. /\ \A v \in Workers : worker'[v].pc \in {"check_empty", "done"} =>
             worker[v].pc \in {"check_empty", "done"}
        /\ control = "spawn" /\ control' \in {"spawn", "started"}
        /\ UNCHANGED running_
    BY <1>2 DEF Spawn, TypeOK
  <2>2. running_ /\ running_'
    BY <2>1 DEF Control
  <2>3. \A v \in Workers : worker'[v].pc \notin {"check_empty", "done"}
    BY <2>1 DEF Control, Ended
  <2> QED
    BY <2>1, <2>2, <2>3 DEF Control, Ended
<1>3. CASE Stop
  <2>1. control = "started" /\ control' = "notify" /\ ~running_' /\ UNCHANGED worker
    BY <1>3 DEF Stop
  <2> QED
    BY <2>1 DEF Control, Ended
<1>4. CASE StopNotify
  <2>1. /\ \A v \in Workers : worker'[v].pc \in {"check_empty", "done"} =>
             worker[v].pc \in {"check_empty", "done"}
        /\ control = "notify" /\ control' = "join"
        /\ UNCHANGED running_
    BY <1>4 DEF StopNotify, Woken, TypeOK
  <2> QED
    BY <2>1 DEF Control, Ended
<1>5. CASE StopJoin
  <2>1. \A w \in Workers : worker'[w].pc = "done"
    BY <1>5 DEF StopJoin, WorkersAt
  <2> QED
    BY <1>5, <2>1 DEF StopJoin, Control, Ended
<1>6. ASSUME NEW p \in Producers, EnqueueCheck(p) \/ EnqueueStep(p) PROVE Control'
  <2>1. CASE EnqueueNotify(p)
    <3>1. \A v \in Workers : worker'[v].pc = worker[v].pc \/
            (worker[v].pc = "waiting" /\ worker'[v].pc = "lock")
      BY <2>1 DEF EnqueueNotify, Woken, TypeOK, WorkersAt
    <3>2. \A v \in Workers : worker'[v].pc \in {"check_empty", "done"} =>
            worker[v].pc = worker'[v].pc
      BY <3>1
    <3>3. \A v \in Workers : worker[v].pc \in {"out", "done"} =>
            worker'[v].pc = worker[v].pc
      BY <3>1
    <3>4. UNCHANGED <<running_, control>>
      BY <2>1 DEF EnqueueNotify
    <3> QED
      BY <3>2, <3>3, <3>4 DEF Control, Ended
  <2>2. CASE ~EnqueueNotify(p)
    <3>1. UNCHANGED <<running_, worker, control>>
      BY <1>6, <2>2 DEF EnqueueCheck, EnqueueStep, EnqueuePush, EnqueueFull,
                        EnqueuePublish, EnqueueCount
    <3> QED
      BY <3>1 DEF Control, Ended
  <2> QED
    BY <2>1, <2>2
<1>7. ASSUME NEW w \in Workers, WorkerStep(w) PROVE Control'
  <2>1. UNCHANGED <<running_, control>>
    BY <1>7 DEF WorkerStep, Drain, DrainCount, Handle, DrainNothing, Check,
                CheckEmpty, Lock, Block, IdleTimeout
  <2>2. /\ OtherWorkers(w)
        /\ worker[w].pc \notin {"out", "done"}
        /\ worker'[w].pc = "check_empty" => ~running_
        /\ worker'[w].pc = "done" => worker[w].pc = "check_empty"
    <3>1. CASE Drain(w) \/ DrainCount(w) \/ Handle(w)
      BY <3>1 DEF Drain, DrainCount, Handle, TypeOK, OtherWorkers
    <3>2. CASE DrainNothing(w) \/ CheckEmpty(w) \/ Block(w) \/ IdleTimeout(w)
      BY <3>2 DEF DrainNothing, CheckEmpty, Block, IdleTimeout, IdleWaitEnds,
                  TypeOK, OtherWorkers
    <3>3. CASE Check(w) \/ Lock(w)
      BY <3>3 DEF Check, Stopping, Lock, TypeOK, OtherWorkers
    <3> QED
      BY <1>7, <3>1, <3>2, <3>3 DEF WorkerStep
  <2>3. control \notin {"new", "stopped"}
    BY <2>2 DEF Control
  <2>4. ~running_ => Ended \/ control = "new"
    BY DEF Control, Ended, TypeOK
  <2> QED
    BY <2>1, <2>2, <2>3, <2>4 DEF Control, Ended, OtherWorkers
<1>8. CASE UNCHANGED vars
  BY <1>8 DEF vars, Control, Ended
<1> QED
  BY <1>1, <1>2, <1>3, <1>4, <1>5, <1>6, <1>7, <1>8 DEF Next, ControlStep

-----------------------------------------------------------------------------
(* No task is lost.                                                        *)

LEMMA KeptQuiet ==
  ASSUME Unpublished, Kept, UNCHANGED queue, accepted' \subseteq accepted,
         handled \subseteq handled',
         \A p \in Producers : producer[p].pc = "publish" => producer'[p] = producer[p],
         \A p \in Producers :
           producer'[p].pc \in {"publish", "count", "notify"} =>
             /\ producer[p].pc \in {"publish", "count", "notify"}
             /\ producer'[p].task = producer[p].task,
         \A w \in Workers : worker[w].pc \in {"popped", "handle"} =>
           worker'[w].task = worker[w].task /\ worker'[w].pc \in {"popped", "handle"}
  PROVE  Unpublished' /\ Kept'
<1>1. Unpublished'
  BY DEF Unpublished
<1>2. ASSUME NEW t \in Tasks
      PROVE  /\ InQueue(t) => InQueue(t)'
             /\ InHand(t) => InHand(t)'
             /\ Offered(t)' => Offered(t)
  BY DEF InQueue, InHand, Offered
<1>3. ASSUME NEW t \in Tasks, t \in accepted' \/ Offered(t)'
      PROVE  InQueue(t)' \/ InHand(t)' \/ t \in handled'
  BY <1>2, <1>3 DEF Kept
<1> QED
  BY <1>1, <1>3 DEF Kept

LEMMA KeptEnqueue ==
  ASSUME TypeOK, AtHand, Unpublished, Kept, NEW p \in Producers,
         EnqueueCheck(p) \/ EnqueueStep(p)
  PROVE  Unpublished' /\ Kept'
<1>1. CASE EnqueueCheck(p) \/ EnqueueFull(p)
  <2>1. /\ producer[p].pc \in {"out", "push"} /\ producer'[p].pc \in {"out", "push"}
        /\ Others(p)
    BY <1>1 DEF EnqueueCheck, EnqueueFull, Idle, TypeOK, Others
  <2>2. UNCHANGED <<queue, worker, accepted, handled>>
    BY <1>1 DEF EnqueueCheck, EnqueueFull, History
  <2> QED
    BY <2>1, <2>2, KeptQuiet DEF Others
<1>2. CASE EnqueuePush(p)
  <2>1. UNCHANGED <<worker, accepted, handled>>
    BY <1>2 DEF EnqueuePush, History
  <2>2. Unpublished'
    <3> SUFFICES ASSUME NEW i \in 1..Len(queue'), ~queue'[i].ready
                 PROVE  \E q \in Producers :
                          /\ producer'[q].pc = "publish"
                          /\ producer'[q].task = queue'[i].task
      BY DEF Unpublished
    <3>1. CASE i = Len(queue) + 1
      BY <1>2, <3>1, PushFacts
    <3>2. CASE i # Len(queue) + 1
      <4>1. i \in 1..Len(queue) /\ queue'[i] = queue[i]
        BY <1>2, <3>2, PushFacts
      <4>2. PICK q \in Producers :
              producer[q].pc = "publish" /\ producer[q].task = queue[i].task
        BY <4>1 DEF Unpublished
      <4>3. producer'[q] = producer[q]
        BY <1>2, <4>2, PushFacts DEF Others
      <4> QED
        BY <4>1, <4>2, <4>3
    <3> QED
      BY <3>1, <3>2
  <2>3. ASSUME NEW t \in Tasks
        PROVE  /\ InQueue(t) => InQueue(t)'
               /\ InHand(t) => InHand(t)'
               /\ Offered(t)' => Offered(t) \/ InQueue(t)'
    <3>1. InQueue(t) => InQueue(t)'
      <4> SUFFICES ASSUME NEW i \in 1..Len(queue), queue[i].task = t
                   PROVE  \E j \in 1..Len(queue') : queue'[j].task = t
        BY DEF InQueue
      <4>1. i \in 1..Len(queue') /\ queue'[i].task = t
        BY <1>2, PushFacts
      <4> QED
        BY <4>1
    <3>2. Offered(t)' => Offered(t) \/ InQueue(t)'
      <4>1. producer[p].task = t => InQueue(t)'
        <5>1. Len(queue) + 1 \in 1..Len(queue')
          BY <1>2, PushFacts
        <5> QED
          BY <1>2, <5>1, PushFacts DEF InQueue
      <4> QED
        BY <1>2, <4>1, PushFacts DEF Offered, Others
    <3> QED
      BY <2>1, <3>1, <3>2 DEF InHand
  <2>4. ASSUME NEW t \in Tasks, t \in accepted' \/ Offered(t)'
        PROVE  InQueue(t)' \/ InHand(t)' \/ t \in handled'
    BY <2>1, <2>3, <2>4 DEF Kept
  <2> QED
    BY <2>2, <2>4 DEF Kept
<1>3. CASE EnqueuePublish(p)
  <2>1. UNCHANGED <<worker, accepted, handled>>
    BY <1>3 DEF EnqueuePublish, History
  <2>2. Unpublished'
    <3> SUFFICES ASSUME NEW i \in 1..Len(queue'), ~queue'[i].ready
                 PROVE  \E q \in Producers :
                          /\ producer'[q].pc = "publish"
                          /\ producer'[q].task = queue'[i].task
      BY DEF Unpublished
    <3>1. /\ i \in 1..Len(queue) /\ queue'[i].task = queue[i].task
          /\ ~queue[i].ready /\ queue[i].task # producer[p].task
      BY <1>3, PublishFacts
    <3>2. PICK q \in Producers :
            producer[q].pc = "publish" /\ producer[q].task = queue[i].task
      BY <3>1 DEF Unpublished
    <3>3. producer'[q] = producer[q]
      BY <1>3, <3>1, <3>2, PublishFacts DEF Others
    <3> QED
      BY <3>1, <3>2, <3>3
  <2>3. ASSUME NEW t \in Tasks
        PROVE  /\ InQueue(t) => InQueue(t)'
               /\ InHand(t) => InHand(t)'
               /\ Offered(t)' => Offered(t)
    <3>1. InQueue(t) => InQueue(t)'
      BY <1>3, PublishFacts DEF InQueue
    <3>2. Offered(t)' => Offered(t)
      BY <1>3, PublishFacts DEF Offered, Others
    <3> QED
      BY <2>1, <3>1, <3>2 DEF InHand
  <2>4. ASSUME NEW t \in Tasks, t \in accepted' \/ Offered(t)'
        PROVE  InQueue(t)' \/ InHand(t)' \/ t \in handled'
    BY <2>1, <2>3, <2>4 DEF Kept
  <2> QED
    BY <2>2, <2>4 DEF Kept
<1>4. CASE EnqueueCount(p)
  <2>1. /\ producer[p].pc = "count" /\ producer'[p].pc = "notify"
        /\ producer'[p].task = producer[p].task /\ Others(p)
    BY <1>4 DEF EnqueueCount, TypeOK, Others
  <2>2. UNCHANGED <<queue, worker, accepted, handled>>
    BY <1>4 DEF EnqueueCount, History
  <2> QED
    BY <2>1, <2>2, KeptQuiet DEF Others
<1>5. CASE EnqueueNotify(p)
  <2>1. /\ producer[p].pc = "notify" /\ producer'[p].pc = "out" /\ Others(p)
    BY <1>5 DEF EnqueueNotify, Idle, TypeOK, Others
  <2>2. /\ UNCHANGED <<queue, handled>>
        /\ accepted' = accepted \cup {producer[p].task}
    BY <1>5 DEF EnqueueNotify
  <2>3. \A v \in Workers : worker[v].pc \in {"popped", "handle"} =>
          worker'[v] = worker[v]
    BY <1>5 DEF EnqueueNotify, Woken, TypeOK, WorkersAt
  <2>4. Unpublished'
    BY <2>1, <2>2 DEF Unpublished, Others
  <2>5. ASSUME NEW t \in Tasks
        PROVE  /\ InQueue(t) => InQueue(t)'
               /\ InHand(t) => InHand(t)'
               /\ Offered(t)' => Offered(t)
               /\ t \in accepted' => t \in accepted \/ Offered(t)
    BY <2>1, <2>2, <2>3 DEF InQueue, InHand, Offered, Others
  <2>6. ASSUME NEW t \in Tasks, t \in accepted' \/ Offered(t)'
        PROVE  InQueue(t)' \/ InHand(t)' \/ t \in handled'
    BY <2>2, <2>5, <2>6 DEF Kept
  <2> QED
    BY <2>4, <2>6 DEF Kept
<1> QED
  BY <1>1, <1>2, <1>3, <1>4, <1>5 DEF EnqueueStep

LEMMA KeptWorker ==
  ASSUME TypeOK, AtHand, Unpublished, Kept, NEW w \in Workers, WorkerStep(w)
  PROVE  Unpublished' /\ Kept'
<1>0. UNCHANGED <<producer, accepted>>
  BY DEF WorkerStep, Drain, DrainCount, Handle, DrainNothing, Check,
     CheckEmpty, Lock, Block, IdleTimeout, History
<1>1. CASE Drain(w)
  <2>0. UNCHANGED handled
    BY <1>1 DEF Drain, History
  <2>1. Unpublished'
    <3> SUFFICES ASSUME NEW i \in 1..Len(queue'), ~queue'[i].ready
                 PROVE  \E q \in Producers :
                          /\ producer[q].pc = "publish"
                          /\ producer[q].task = queue'[i].task
      BY <1>0 DEF Unpublished
    <3>1. i + 1 \in 1..Len(queue) /\ queue'[i] = queue[i + 1]
      BY <1>1, DrainFacts
    <3> QED
      BY <3>1 DEF Unpublished
  <2>2. ASSUME NEW t \in Tasks
        PROVE  /\ InQueue(t) => InQueue(t)' \/ InHand(t)'
               /\ InHand(t) => InHand(t)'
    <3>1. ASSUME NEW i \in 1..Len(queue), queue[i].task = t
          PROVE  InQueue(t)' \/ InHand(t)'
      <4>1. CASE i = 1
        BY <1>1, <3>1, <4>1, DrainFacts DEF InHand
      <4>2. CASE i > 1
        <5>1. i - 1 \in 1..Len(queue') /\ queue'[i - 1] = queue[i]
          BY <1>1, <4>2, DrainFacts
        <5> QED
          BY <3>1, <5>1 DEF InQueue
      <4> QED
        BY <4>1, <4>2
    <3>2. InHand(t) => InHand(t)'
      BY <1>1, DrainFacts DEF InHand, OtherWorkers
    <3> QED
      BY <3>1, <3>2 DEF InQueue
  <2> QED
    BY <1>0, <2>0, <2>1, <2>2 DEF Kept, Offered
<1>2. CASE Handle(w)
  <2>1. /\ handled' = handled \cup {worker[w].task} /\ UNCHANGED queue
        /\ OtherWorkers(w)
    BY <1>2 DEF Handle, TypeOK, OtherWorkers
  <2>2. ASSUME NEW t \in Tasks
        PROVE  /\ InQueue(t) => InQueue(t)'
               /\ InHand(t) => InHand(t)' \/ t \in handled'
               /\ Offered(t)' => Offered(t)
    BY <1>0, <2>1 DEF InQueue, InHand, Offered, OtherWorkers
  <2> QED
    BY <1>0, <2>1, <2>2 DEF Kept, Unpublished
<1>3. CASE ~Drain(w) /\ ~Handle(w)
  <2>1. UNCHANGED <<queue, handled>>
    BY <1>3 DEF WorkerStep, DrainCount, DrainNothing, Check, CheckEmpty, Lock,
                Block, IdleTimeout, History
  <2>2. /\ OtherWorkers(w)
        /\ worker[w].pc \in {"popped", "handle"} =>
             worker'[w].task = worker[w].task /\ worker'[w].pc \in {"popped", "handle"}
    BY <1>3 DEF WorkerStep, DrainCount, DrainNothing, Check, CheckEmpty, Lock,
                Block, IdleTimeout, IdleWaitEnds, TypeOK, OtherWorkers
  <2> QED
    BY <1>0, <2>1, <2>2, KeptQuiet DEF OtherWorkers
<1> QED
  BY <1>1, <1>2, <1>3

LEMMA KeptStep ==
  ASSUME TypeOK, AtHand, Unpublished, Kept, [Next]_vars
  PROVE  Unpublished' /\ Kept'
<1>1. CASE ControlStep
  <2>1. UNCHANGED <<queue, producer, accepted, handled>>
    BY <1>1 DEF ControlStep, Start, Spawn, Stop, StopNotify, StopJoin, History
  <2>2. \A v \in Workers : worker[v].pc \in {"popped", "handle"} =>
          worker'[v] = worker[v]
    BY <1>1 DEF ControlStep, Start, Spawn, Stop, StopNotify, StopJoin, Woken,
                WorkersAt, TypeOK
  <2> QED
    BY <2>1, <2>2, KeptQuiet
<1>2. CASE UNCHANGED vars
  BY <1>2, KeptQuiet DEF vars
<1> QED
  BY <1>1, <1>2, KeptEnqueue, KeptWorker DEF Next

\* With all producers outside enqueue, an empty answer means an empty queue.
LEMMA EmptyIsEmpty ==
  ASSUME TypeOK, Unpublished, \A p \in Producers : producer[p].pc = "out", Empty
  PROVE  queue = <<>>
<1> SUFFICES ASSUME queue # <<>> PROVE FALSE
  OBVIOUS
<1>1. queue \in Seq([task : Tasks, ready : BOOLEAN])
  BY DEF TypeOK
<1>2. Len(queue) \in Nat /\ Len(queue) # 0
  BY <1>1, EmptySeq, LenProperties
<1>3. 1 \in 1..Len(queue) /\ ~queue[1].ready
  BY <1>2 DEF Empty, HasTask
<1> QED
  BY <1>3 DEF Unpublished

LEMMA DrainedStep ==
  ASSUME TypeOK, Control, Unpublished, Drained, [Next]_vars PROVE Drained'
<1> SUFFICES ASSUME quiet', Ended'
             PROVE  /\ \A p \in Producers : producer'[p].pc = "out"
                    /\ (\E w \in Workers : worker'[w].pc = "done") => queue' = <<>>
                    /\ control' = "stopped" => pending_' = 0
  BY DEF Drained
<1>1. CASE Stop
  <2>1. \A p \in Producers : producer[p].pc = "out"
    BY <1>1 DEF Stop, ProducersAt
  <2>2. \A w \in Workers : worker[w].pc # "done"
    BY <1>1 DEF Stop, Control, Ended
  <2> QED
    BY <1>1, <2>1, <2>2 DEF Stop
<1>2. CASE ~Stop
  <2>1. quiet /\ Ended
    <3>1. CASE Start \/ (\E w \in Workers : Spawn(w))
      BY <3>1 DEF Start, Spawn, Ended
    <3>2. CASE StopNotify \/ StopJoin \/ UNCHANGED vars
      BY <3>2 DEF StopNotify, StopJoin, Ended, History, vars
    <3>3. ASSUME NEW p \in Producers, EnqueueCheck(p) \/ EnqueueStep(p)
          PROVE  UNCHANGED <<quiet, control>>
      BY <3>3 DEF EnqueueCheck, EnqueueStep, EnqueuePush, EnqueueFull,
                  EnqueuePublish, EnqueueCount, EnqueueNotify, History
    <3>4. ASSUME NEW w \in Workers, WorkerStep(w) PROVE UNCHANGED <<quiet, control>>
      BY <3>4 DEF WorkerStep, Drain, DrainCount, Handle, DrainNothing, Check,
                  CheckEmpty, Lock, Block, IdleTimeout, History
    <3> QED
      BY <1>2, <3>1, <3>2, <3>3, <3>4 DEF Next, ControlStep, Ended
  <2>2. /\ \A p \in Producers : producer[p].pc = "out"
        /\ (\E w \in Workers : worker[w].pc = "done") => queue = <<>>
        /\ control = "stopped" => pending_ = 0
        /\ ~running_
    BY <2>1 DEF Drained, Control, Ended
  <2>3. CASE StopNotify
    <3>1. \A w \in Workers : worker'[w].pc = "done" => worker[w].pc = "done"
      BY <2>3 DEF StopNotify, Woken, TypeOK
    <3> QED
      BY <2>2, <2>3, <3>1 DEF StopNotify
  <2>4. CASE StopJoin
    BY <2>2, <2>4 DEF StopJoin
  <2>5. ASSUME NEW p \in Producers, EnqueueCheck(p) \/ EnqueueStep(p)
        PROVE  /\ \A q \in Producers : producer'[q].pc = "out"
               /\ UNCHANGED <<queue, worker, control, pending_>>
    <3>1. EnqueueCheck(p)
      BY <2>2, <2>5 DEF EnqueueStep, EnqueuePush, EnqueueFull, EnqueuePublish,
                        EnqueueCount, EnqueueNotify
    <3> QED
      BY <2>2, <3>1 DEF EnqueueCheck, Idle, TypeOK
  <2>6. ASSUME NEW w \in Workers, WorkerStep(w)
        PROVE  /\ UNCHANGED <<producer, control>> /\ control # "stopped"
               /\ (\E v \in Workers : worker'[v].pc = "done") => queue' = <<>>
    <3>1. UNCHANGED <<producer, control>>
      BY <2>6 DEF WorkerStep, Drain, DrainCount, Handle, DrainNothing, Check,
                  CheckEmpty, Lock, Block, IdleTimeout
    <3>2. OtherWorkers(w) /\ worker[w].pc # "done"
      BY <2>6 DEF WorkerStep, Drain, DrainCount, Handle, DrainNothing, Check,
                  CheckEmpty, Lock, Block, IdleTimeout, IdleWaitEnds, TypeOK,
                  OtherWorkers
    <3>3. control # "stopped"
      BY <3>2 DEF Control
    <3>4. CASE CheckEmpty(w)
      <4>1. UNCHANGED queue /\ (worker'[w].pc = "done" => Empty)
        BY <3>4 DEF CheckEmpty, MayQuit, TypeOK
      <4>2. worker'[w].pc = "done" => queue = <<>>
        BY <2>2, <4>1, EmptyIsEmpty
      <4> QED
        BY <2>2, <3>1, <3>2, <3>3, <4>1, <4>2 DEF OtherWorkers
    <3>5. CASE ~CheckEmpty(w)
      <4>1. worker'[w].pc # "done"
        <5>1. CASE Check(w)
          <6>1. \E pc \in {"check_empty", "drain", "lock"} :
                  worker' = [worker EXCEPT ![w].pc = pc]
            BY <5>1 DEF Check
          <6> QED
            BY <6>1 DEF TypeOK
        <5>2. CASE Drain(w)
          BY <5>2, DrainFacts
        <5>3. CASE DrainCount(w) \/ Handle(w)
          <6>1. \/ worker' = [worker EXCEPT ![w].pc = "handle"]
                \/ worker' = [worker EXCEPT ![w] = [pc |-> "drain", task |-> Nothing]]
            BY <5>3 DEF DrainCount, Handle
          <6> QED
            BY <6>1 DEF TypeOK
        <5>4. CASE DrainNothing(w) \/ Lock(w) \/ Block(w) \/ IdleTimeout(w)
          BY <5>4 DEF DrainNothing, Lock, Block, IdleTimeout, TypeOK
        <5> QED
          BY <2>6, <3>5, <5>1, <5>2, <5>3, <5>4 DEF WorkerStep
      <4>2. queue = <<>> => UNCHANGED queue
        BY <2>6 DEF WorkerStep, Drain, HasTask, DrainCount, Handle,
           DrainNothing, Check, CheckEmpty, Lock, Block, IdleTimeout
      <4> QED
        BY <2>2, <3>1, <3>2, <3>3, <4>1, <4>2 DEF OtherWorkers
    <3> QED
      BY <3>4, <3>5
  <2>7. CASE UNCHANGED vars
    BY <2>2, <2>7 DEF vars
  <2>8. CASE Start \/ (\E w \in Workers : Spawn(w))
    BY <2>1, <2>8 DEF Start, Spawn, Ended
  <2> QED
    BY <1>2, <2>2, <2>3, <2>4, <2>5, <2>6, <2>7, <2>8 DEF Next, ControlStep
<1> QED
  BY <1>1, <1>2

-----------------------------------------------------------------------------
(* The counter.                                                            *)

LEMMA CountJoins ==
  ASSUME NEW S, NEW A, IsFiniteSet(S), A \subseteq S, NEW x \in S, x \notin A
  PROVE  Cardinality(A \cup {x}) = Cardinality(A) + 1 /\ Cardinality(A) \in Nat
<1>1. IsFiniteSet(A)
  BY FS_Subset
<1> QED
  BY <1>1, FS_AddElement, FS_CardinalityType

\* A thread that goes from one place to another changes two of the counts.
LEMMA ProducerGoes ==
  ASSUME NEW p \in Producers, NEW a, NEW b, a # b,
         producer[p].pc = a, producer'[p].pc = b, Others(p)
  PROVE  /\ Cardinality(ProducersAt(a)) = Cardinality(ProducersAt(a)') + 1
         /\ Cardinality(ProducersAt(b)') = Cardinality(ProducersAt(b)) + 1
         /\ Cardinality(ProducersAt(a)') \in Nat
         /\ Cardinality(ProducersAt(b)) \in Nat
         /\ \A x : x \notin {a, b} => ProducersAt(x)' = ProducersAt(x)
<1>1. /\ ProducersAt(a) = ProducersAt(a)' \cup {p} /\ p \notin ProducersAt(a)'
      /\ ProducersAt(b)' = ProducersAt(b) \cup {p} /\ p \notin ProducersAt(b)
      /\ ProducersAt(a)' \subseteq Producers /\ ProducersAt(b) \subseteq Producers
      /\ \A x : x \notin {a, b} => ProducersAt(x)' = ProducersAt(x)
  BY DEF ProducersAt, Others
<1> QED
  BY <1>1, CountJoins, ExecutorAssumption

LEMMA WorkerGoes ==
  ASSUME NEW w \in Workers, NEW a, NEW b, a # b,
         worker[w].pc = a, worker'[w].pc = b, OtherWorkers(w)
  PROVE  /\ Cardinality(WorkersAt(a)) = Cardinality(WorkersAt(a)') + 1
         /\ Cardinality(WorkersAt(b)') = Cardinality(WorkersAt(b)) + 1
         /\ Cardinality(WorkersAt(a)') \in Nat
         /\ Cardinality(WorkersAt(b)) \in Nat
<1>1. /\ WorkersAt(a) = WorkersAt(a)' \cup {w} /\ w \notin WorkersAt(a)'
      /\ WorkersAt(b)' = WorkersAt(b) \cup {w} /\ w \notin WorkersAt(b)
      /\ WorkersAt(a)' \subseteq Workers /\ WorkersAt(b) \subseteq Workers
  BY DEF WorkersAt, OtherWorkers
<1> QED
  BY <1>1, CountJoins, ExecutorAssumption

\* What pending_ counts, once the updates on their way have arrived.
Owed == Len(queue) + Cardinality(WorkersAt("popped"))
          - Cardinality(ProducersAt("publish")) - Cardinality(ProducersAt("count"))

LEMMA Counts ==
  ASSUME TypeOK
  PROVE  /\ Len(queue) \in Nat
         /\ Cardinality(WorkersAt("popped")) \in Nat
         /\ Cardinality(ProducersAt("publish")) \in Nat
         /\ Cardinality(ProducersAt("count")) \in Nat
<1>1. Len(queue) \in Nat
  BY LenProperties DEF TypeOK
<1>2. /\ IsFiniteSet(WorkersAt("popped")) /\ IsFiniteSet(ProducersAt("publish"))
      /\ IsFiniteSet(ProducersAt("count"))
  BY ExecutorAssumption, FS_Subset DEF WorkersAt, ProducersAt
<1>3. /\ Cardinality(WorkersAt("popped")) \in Nat
      /\ Cardinality(ProducersAt("publish")) \in Nat
      /\ Cardinality(ProducersAt("count")) \in Nat
  BY <1>2, FS_CardinalityType
<1> QED
  BY <1>1, <1>3

LEMMA OwedUnchanged ==
  ASSUME UNCHANGED queue, WorkersAt("popped")' = WorkersAt("popped"),
         ProducersAt("publish")' = ProducersAt("publish"),
         ProducersAt("count")' = ProducersAt("count")
  PROVE  Owed' = Owed
  BY DEF Owed

LEMMA BalanceStep ==
  ASSUME TypeOK, AtHand, Control, PendingBalance, [Next]_vars
  PROVE  PendingBalance'
<1>0. Wrap \in Nat /\ Wrap > 0 /\ Owed \in Int
  <2>1. Cardinality(Producers) \in Nat /\ Cardinality(Workers) \in Nat
    BY ExecutorAssumption, FS_CardinalityType
  <2> QED
    BY <2>1, ExecutorAssumption, Counts DEF Owed
<1> SUFFICES ASSUME control' # "stopped" PROVE pending_' = Owed' % Wrap
  BY DEF PendingBalance, Owed
<1>1. CASE ControlStep \/ UNCHANGED vars
  <2>1. /\ UNCHANGED <<queue, producer, pending_>>
        /\ control # "stopped"
    BY <1>1 DEF ControlStep, Start, Spawn, Stop, StopNotify, StopJoin, vars
  <2>2. \A v \in Workers : worker'[v].pc = "popped" <=> worker[v].pc = "popped"
    BY <1>1 DEF ControlStep, Start, Spawn, Stop, StopNotify, StopJoin, Woken,
                WorkersAt, TypeOK, vars
  <2>3. Owed' = Owed
    BY <2>1, <2>2, OwedUnchanged DEF WorkersAt, ProducersAt
  <2> QED
    BY <2>1, <2>3 DEF PendingBalance, Owed
<1>2. ASSUME NEW p \in Producers, EnqueueCheck(p) \/ EnqueueStep(p)
      PROVE  pending_' = Owed' % Wrap
  <2>0. pending_ = Owed % Wrap
    <3>1. UNCHANGED control
      BY <1>2 DEF EnqueueCheck, EnqueueStep, EnqueuePush, EnqueueFull,
                  EnqueuePublish, EnqueueCount, EnqueueNotify
    <3> QED
      BY <3>1 DEF PendingBalance, Owed
  <2>1. CASE EnqueueCheck(p) \/ EnqueueFull(p) \/ EnqueueNotify(p)
    <3>1. UNCHANGED <<queue, pending_>>
      BY <2>1 DEF EnqueueCheck, EnqueueFull, EnqueueNotify
    <3>2. \A v \in Workers : worker'[v].pc = "popped" <=> worker[v].pc = "popped"
      BY <2>1 DEF EnqueueCheck, EnqueueFull, EnqueueNotify, Woken, WorkersAt, TypeOK
    <3>3. /\ producer[p].pc \notin {"publish", "count"}
          /\ producer'[p].pc \notin {"publish", "count"} /\ Others(p)
      BY <2>1 DEF EnqueueCheck, EnqueueFull, EnqueueNotify, Idle, TypeOK, Others
    <3>4. Owed' = Owed
      BY <3>1, <3>2, <3>3, OwedUnchanged DEF WorkersAt, ProducersAt, Others
    <3> QED
      BY <2>0, <3>1, <3>4
  <2>2. CASE EnqueuePush(p)
    <3>1. UNCHANGED <<pending_, worker>>
      BY <2>2 DEF EnqueuePush
    <3>2. /\ Cardinality(ProducersAt("publish")') = Cardinality(ProducersAt("publish")) + 1
          /\ Cardinality(ProducersAt("publish")) \in Nat
          /\ ProducersAt("count")' = ProducersAt("count")
      <4>1. producer[p].pc = "push" /\ producer'[p].pc = "publish" /\ Others(p)
        BY <2>2, PushFacts
      <4> QED
        BY <4>1, ProducerGoes
    <3>3. Len(queue') = Len(queue) + 1 /\ Len(queue) \in Nat
      BY <2>2, PushFacts
    <3>4. WorkersAt("popped")' = WorkersAt("popped")
      BY <3>1 DEF WorkersAt
    <3>5. Owed' = Owed
      BY <1>0, <3>2, <3>3, <3>4, Counts DEF Owed
    <3> QED
      BY <2>0, <3>1, <3>5
  <2>3. CASE EnqueuePublish(p)
    <3>1. UNCHANGED <<pending_, worker>>
      BY <2>3 DEF EnqueuePublish
    <3>2. /\ Cardinality(ProducersAt("publish")) = Cardinality(ProducersAt("publish")') + 1
          /\ Cardinality(ProducersAt("count")') = Cardinality(ProducersAt("count")) + 1
          /\ Cardinality(ProducersAt("publish")') \in Nat
      BY <2>3, PublishFacts, ProducerGoes
    <3>3. Len(queue') = Len(queue) /\ WorkersAt("popped")' = WorkersAt("popped")
      BY <2>3, <3>1, PublishFacts DEF WorkersAt
    <3>4. Owed' = Owed
      BY <3>2, <3>3, Counts DEF Owed
    <3> QED
      BY <2>0, <3>1, <3>4
  <2>4. CASE EnqueueCount(p)
    <3>1. /\ pending_' = (pending_ + 1) % Wrap /\ UNCHANGED <<queue, worker>>
          /\ producer[p].pc = "count" /\ producer'[p].pc = "notify" /\ Others(p)
      BY <2>4 DEF EnqueueCount, Counted, TypeOK, Others
    <3>2. /\ Cardinality(ProducersAt("count")) = Cardinality(ProducersAt("count")') + 1
          /\ Cardinality(ProducersAt("count")') \in Nat
          /\ ProducersAt("publish")' = ProducersAt("publish")
      BY <3>1, ProducerGoes
    <3>3. WorkersAt("popped")' = WorkersAt("popped")
      BY <3>1 DEF WorkersAt
    <3>4. Owed' = Owed + 1
      BY <3>1, <3>2, <3>3, Counts DEF Owed
    <3> QED
      BY <1>0, <2>0, <3>1, <3>4, WrapUp
  <2> QED
    BY <1>2, <2>1, <2>2, <2>3, <2>4 DEF EnqueueStep
<1>3. ASSUME NEW w \in Workers, WorkerStep(w) PROVE pending_' = Owed' % Wrap
  <2>0. /\ pending_ = Owed % Wrap
        /\ ProducersAt("publish")' = ProducersAt("publish")
        /\ ProducersAt("count")' = ProducersAt("count")
    <3>1. UNCHANGED <<control, producer>>
      BY <1>3 DEF WorkerStep, Drain, DrainCount, Handle, DrainNothing, Check,
                  CheckEmpty, Lock, Block, IdleTimeout
    <3> QED
      BY <3>1 DEF PendingBalance, Owed, ProducersAt
  <2>1. CASE Drain(w)
    <3>1. UNCHANGED pending_
      BY <2>1 DEF Drain
    <3>2. /\ Cardinality(WorkersAt("popped")') = Cardinality(WorkersAt("popped")) + 1
          /\ Cardinality(WorkersAt("popped")) \in Nat
      BY <2>1, DrainFacts, WorkerGoes
    <3>3. Len(queue') = Len(queue) - 1 /\ Len(queue) \in Nat
      BY <2>1, DrainFacts
    <3>4. Owed' = Owed
      BY <2>0, <3>2, <3>3, Counts DEF Owed
    <3> QED
      BY <2>0, <3>1, <3>4
  <2>2. CASE DrainCount(w)
    <3>1. /\ pending_' = (pending_ - 1) % Wrap /\ UNCHANGED queue
          /\ worker[w].pc = "popped" /\ worker'[w].pc = "handle" /\ OtherWorkers(w)
      BY <2>2 DEF DrainCount, TypeOK, OtherWorkers
    <3>2. /\ Cardinality(WorkersAt("popped")) = Cardinality(WorkersAt("popped")') + 1
          /\ Cardinality(WorkersAt("popped")') \in Nat
      BY <3>1, WorkerGoes
    <3>3. Owed' = Owed - 1
      BY <2>0, <3>1, <3>2, Counts DEF Owed
    <3> QED
      BY <1>0, <2>0, <3>1, <3>3, WrapDown
  <2>3. CASE ~Drain(w) /\ ~DrainCount(w)
    <3>1. UNCHANGED <<queue, pending_>>
      BY <1>3, <2>3 DEF WorkerStep, Handle, DrainNothing, Check, CheckEmpty,
                        Lock, Block, IdleTimeout
    <3>2. /\ OtherWorkers(w) /\ worker[w].pc # "popped" /\ worker'[w].pc # "popped"
      <4>1. CASE Handle(w)
        BY <4>1 DEF Handle, TypeOK, OtherWorkers
      <4>2. CASE ~Handle(w)
        <5>1. /\ worker[w].pc # "popped"
              /\ \E pc \in {"drain", "check", "check_empty", "lock", "holds",
                            "waiting", "done"} :
                   worker' = [worker EXCEPT ![w].pc = pc]
          BY <1>3, <2>3, <4>2 DEF WorkerStep, DrainNothing, Check, CheckEmpty,
             Lock, Block, IdleTimeout, IdleWaitEnds
        <5> QED
          BY <5>1 DEF TypeOK, OtherWorkers
      <4> QED
        BY <4>1, <4>2
    <3>3. Owed' = Owed
      BY <2>0, <3>1, <3>2, OwedUnchanged DEF WorkersAt, OtherWorkers
    <3> QED
      BY <2>0, <3>1, <3>3
  <2> QED
    BY <2>1, <2>2, <2>3
<1> QED
  BY <1>1, <1>2, <1>3 DEF Next

-----------------------------------------------------------------------------
(* The theorems.                                                           *)

LEMMA PoolInit == Init => PoolInv
<1> SUFFICES ASSUME Init PROVE PoolInv
  OBVIOUS
<1> USE DEF Init, Idle
<1>1. Wrap \in Nat /\ Wrap > 0
  <2>1. Cardinality(Producers) \in Nat /\ Cardinality(Workers) \in Nat
    BY ExecutorAssumption, FS_CardinalityType
  <2> QED
    BY <2>1, ExecutorAssumption
<1>2. queue = <<>> /\ Len(queue) = 0 /\ queue \in Seq([task : Tasks, ready : BOOLEAN])
  OBVIOUS
<1>3. TypeOK
  <2>1. pending_ \in 0..(Wrap - 1) /\ Len(queue) <= Capacity
    BY <1>1, <1>2, ExecutorAssumption
  <2>2. /\ producer \in [Producers ->
             [pc : {"out", "push", "publish", "count", "notify"},
              task : Tasks \cup {Nothing}]]
        /\ worker \in [Workers ->
             [pc : {"out", "drain", "popped", "handle", "check", "check_empty",
                    "lock", "holds", "waiting", "done"},
              task : Tasks \cup {Nothing}]]
    OBVIOUS
  <2> QED
    BY <1>2, <2>1, <2>2 DEF TypeOK
<1>4. AtHand /\ Unpublished /\ Drained
  BY <1>2 DEF AtHand, Unpublished, Drained, Ended
<1>5. Control
  BY DEF Control, Ended
<1>6. Kept
  BY DEF Kept, Offered
<1>7. PendingBalance
  <2>1. WorkersAt("popped") = {} /\ ProducersAt("publish") = {} /\ ProducersAt("count") = {}
    BY DEF WorkersAt, ProducersAt
  <2>2. /\ Cardinality(WorkersAt("popped")) = 0
        /\ Cardinality(ProducersAt("publish")) = 0
        /\ Cardinality(ProducersAt("count")) = 0
    BY <2>1, FS_EmptySet
  <2> HIDE DEF Init
  <2>3. Owed = 0
    BY <1>2, <2>2 DEF Owed
  <2>4. 0 % Wrap = 0
    BY <1>1, Z3
  <2>5. pending_ = 0
    BY DEF Init
  <2> QED
    BY <2>3, <2>4, <2>5 DEF PendingBalance, Owed
<1> QED
  BY <1>3, <1>4, <1>5, <1>6, <1>7 DEF PoolInv

LEMMA PoolStep == PoolInv /\ [Next]_vars => PoolInv'
  BY TypesStep, ControlInv, KeptStep, DrainedStep, BalanceStep DEF PoolInv

\* The types, and with them that the ring never holds more tasks than it has
\* cells.
THEOREM ExecutorTypes == Spec => []TypeOK
<1>1. PoolInv => TypeOK
  BY DEF PoolInv
<1> QED
  BY <1>1, PoolInit, PoolStep, PTL DEF Spec

\* pending_ differs from the number of queued tasks by exactly the updates on
\* their way (enqueue's fetch_add, drain_one's fetch_sub), the size_t's
\* wrap-around below zero included.
THEOREM PendingIsBalanced == Spec => []PendingBalance
<1>1. PoolInv => PendingBalance
  BY DEF PoolInv
<1> QED
  BY <1>1, PoolInit, PoolStep, PTL DEF Spec

\* A stop() that finds no enqueue in progress returns with every accepted task
\* handled, the queue empty and pending() zero (stop, worker_loop).
THEOREM QuietStopLosesNothing == Spec => []QuietStopDrains
<1>1. PoolInv => QuietStopDrains
  <2> SUFFICES ASSUME PoolInv, control = "stopped", quiet
               PROVE  accepted \subseteq handled /\ queue = <<>> /\ pending_ = 0
    BY DEF QuietStopDrains
  <2>1. /\ \A w \in Workers : worker[w].pc = "done"
        /\ \E w \in Workers : worker[w].pc = "done"
    BY DEF PoolInv, Control
  <2>2. queue = <<>> /\ pending_ = 0
    BY <2>1 DEF PoolInv, Drained, Ended
  <2>3. ASSUME NEW t \in accepted PROVE t \in handled
    <3>1. t \in Tasks
      BY DEF PoolInv, TypeOK
    <3>2. ~InHand(t)
      BY <2>1 DEF InHand
    <3>3. ~InQueue(t)
      BY <2>2 DEF InQueue
    <3> QED
      BY <3>1, <3>2, <3>3 DEF PoolInv, Kept
  <2> QED
    BY <2>2, <2>3
<1> QED
  BY <1>1, PoolInit, PoolStep, PTL DEF Spec

=============================================================================
