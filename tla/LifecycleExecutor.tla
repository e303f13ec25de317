-------------------------- MODULE LifecycleExecutor --------------------------
(***************************************************************************)
(* execution::LifecycleExecutor: the fixed pool of workers that runs one   *)
(* trade lifecycle per task (and, in OrderManager, the fill queries).      *)
(*                                                                         *)
(* The queue is an MPMCRingBuffer, seen at the granularity that matters to *)
(* its callers: a push first claims its place and then publishes it, and   *)
(* while the oldest place is unpublished try_pop and empty() both answer   *)
(* "empty", whatever is behind it.                                         *)
(***************************************************************************)
EXTENDS Integers, Sequences, FiniteSets

CONSTANTS
  Producers, Workers, Tasks,
  Capacity,               \* of the queue
  Wrap,                   \* 2^64: pending_ is a size_t
  Nothing

ASSUME ExecutorAssumption ==
  /\ Capacity \in Nat \ {0} /\ Wrap \in Nat
  /\ IsFiniteSet(Producers) /\ IsFiniteSet(Workers)
  /\ Wrap > Capacity + Cardinality(Producers) + Cardinality(Workers)
  /\ Nothing \notin Tasks

VARIABLES
  running_, pending_,
  queue,                  \* claimed places, oldest first: [task, ready]
  producer,               \* producer[p]: its place in enqueue, and its task
  worker,                 \* worker[w]: its place in worker_loop, and its task
  control,                \* the thread that calls start() and stop()
  todo,                   \* tasks no producer has offered yet
  accepted, handled,      \* history: enqueue returned true; the handler returned
  quiet                   \* history: no enqueue was in progress when stop began

vars == <<running_, pending_, queue, producer, worker, control, todo,
          accepted, handled, quiet>>

Idle == [pc |-> "out", task |-> Nothing]

Init ==
  /\ running_ = FALSE /\ pending_ = 0 /\ queue = <<>>
  /\ producer = [p \in Producers |-> Idle]
  /\ worker = [w \in Workers |-> Idle]
  /\ control = "new" /\ todo = Tasks
  /\ accepted = {} /\ handled = {} /\ quiet = TRUE

ProducersAt(pc) == {p \in Producers : producer[p].pc = pc}
WorkersAt(pc) == {w \in Workers : worker[w].pc = pc}
History == <<accepted, handled, quiet>>

\* try_pop succeeds, and queue_.empty() is false, when the oldest place is
\* published
HasTask == queue # <<>> /\ queue[1].ready
Empty == ~HasTask

-----------------------------------------------------------------------------
(* start() and stop(), called by one thread.                               *)

Start ==
  /\ control = "new"
  /\ running_' = TRUE /\ control' = "spawn"
  /\ UNCHANGED <<pending_, queue, producer, worker, todo, History>>

Spawn(w) ==
  /\ control = "spawn" /\ worker[w].pc = "out"
  /\ worker' = [worker EXCEPT ![w].pc = "drain"]
  /\ control' = IF WorkersAt("out") = {w} THEN "started" ELSE "spawn"
  /\ UNCHANGED <<running_, pending_, queue, producer, todo, History>>

Stop ==
  /\ control = "started"
  /\ running_' = FALSE /\ control' = "notify"
  /\ quiet' = (ProducersAt("out") = Producers)
  /\ UNCHANGED <<pending_, queue, producer, worker, todo, accepted, handled>>

\* a worker that waits re-acquires wake_mutex_ and looks again
Woken(W) == [w \in Workers |-> IF w \in W THEN [worker[w] EXCEPT !.pc = "lock"]
                               ELSE worker[w]]

StopNotify ==
  /\ control = "notify"
  /\ worker' = Woken(WorkersAt("waiting"))
  /\ control' = "join"
  /\ UNCHANGED <<running_, pending_, queue, producer, todo, History>>

StopJoin ==
  /\ control = "join" /\ WorkersAt("done") = Workers
  /\ pending_' = 0 /\ control' = "stopped"
  /\ UNCHANGED <<running_, queue, producer, worker, todo, History>>

-----------------------------------------------------------------------------
(* enqueue(task).                                                          *)

EnqueueCheck(p) ==
  /\ producer[p].pc = "out"
  /\ \E t \in todo :
       /\ todo' = todo \ {t}
       /\ producer' = [producer EXCEPT ![p] =
                         IF running_ THEN [pc |-> "push", task |-> t] ELSE Idle]
  /\ UNCHANGED <<running_, pending_, queue, worker, control, History>>

HasRoom == Len(queue) < Capacity

EnqueuePush(p) ==
  /\ producer[p].pc = "push" /\ HasRoom
  /\ queue' = Append(queue, [task |-> producer[p].task, ready |-> FALSE])
  /\ producer' = [producer EXCEPT ![p].pc = "publish"]
  /\ UNCHANGED <<running_, pending_, worker, control, todo, History>>

\* every one of the push_spin_count + 1 attempts found the buffer full; a
\* worker half-way through try_pop still occupies the place it took
EnqueueFull(p) ==
  /\ producer[p].pc = "push"
  /\ Len(queue) + Cardinality(WorkersAt("popped")) >= Capacity
  /\ producer' = [producer EXCEPT ![p] = Idle]
  /\ UNCHANGED <<running_, pending_, queue, worker, control, todo, History>>

EnqueuePublish(p) ==
  /\ producer[p].pc = "publish"
  /\ queue' = [i \in DOMAIN queue |->
                 IF queue[i].task = producer[p].task
                 THEN [queue[i] EXCEPT !.ready = TRUE] ELSE queue[i]]
  /\ producer' = [producer EXCEPT ![p].pc = "count"]
  /\ UNCHANGED <<running_, pending_, worker, control, todo, History>>

\* mutant: the task is counted only while the pool runs
Counted_running(n) == IF running_ THEN (n + 1) % Wrap ELSE n

Counted(n) == (n + 1) % Wrap

EnqueueCount(p) ==
  /\ producer[p].pc = "count"
  /\ pending_' = Counted(pending_)
  /\ producer' = [producer EXCEPT ![p].pc = "notify"]
  /\ UNCHANGED <<running_, queue, worker, control, todo, History>>

\* wake_cv_.notify_one(), without wake_mutex_: a worker that has evaluated the
\* predicate but does not wait yet misses it
EnqueueNotify(p) ==
  /\ producer[p].pc = "notify"
  /\ \/ WorkersAt("waiting") = {} /\ UNCHANGED worker
     \/ \E w \in WorkersAt("waiting") : worker' = Woken({w})
  /\ producer' = [producer EXCEPT ![p] = Idle]
  /\ accepted' = accepted \cup {producer[p].task}
  /\ UNCHANGED <<running_, pending_, queue, control, todo, handled, quiet>>

-----------------------------------------------------------------------------
(* worker_loop.                                                            *)

Drain(w) ==
  /\ worker[w].pc = "drain" /\ HasTask
  /\ queue' = Tail(queue)
  /\ worker' = [worker EXCEPT ![w] = [pc |-> "popped", task |-> Head(queue).task]]
  /\ UNCHANGED <<running_, pending_, producer, control, todo, History>>

DrainCount(w) ==
  /\ worker[w].pc = "popped"
  /\ pending_' = (pending_ - 1) % Wrap
  /\ worker' = [worker EXCEPT ![w].pc = "handle"]
  /\ UNCHANGED <<running_, queue, producer, control, todo, History>>

Handle(w) ==
  /\ worker[w].pc = "handle"
  /\ handled' = handled \cup {worker[w].task}
  /\ worker' = [worker EXCEPT ![w] = [pc |-> "drain", task |-> Nothing]]
  /\ UNCHANGED <<running_, pending_, queue, producer, control, todo,
                 accepted, quiet>>

DrainNothing(w) ==
  /\ worker[w].pc = "drain" /\ Empty
  /\ worker' = [worker EXCEPT ![w].pc = "check"]
  /\ UNCHANGED <<running_, pending_, queue, producer, control, todo, History>>

\* mutant: the worker may leave while the pool runs
Stopping_always == TRUE

Stopping == ~running_

\* running_ is loaded first, queue_.empty() afterwards; while the pool runs
\* the worker spins (back to drain_one) or goes to sleep
Check(w) ==
  /\ worker[w].pc = "check"
  /\ \E pc \in IF Stopping THEN {"check_empty"} ELSE {"drain", "lock"} :
       worker' = [worker EXCEPT ![w].pc = pc]
  /\ UNCHANGED <<running_, pending_, queue, producer, control, todo, History>>

\* mutant: the worker leaves as soon as the pool has stopped
MayQuit_at_once == TRUE

MayQuit == Empty

CheckEmpty(w) ==
  /\ worker[w].pc = "check_empty"
  /\ worker' = [worker EXCEPT ![w].pc = IF MayQuit THEN "done" ELSE "drain"]
  /\ UNCHANGED <<running_, pending_, queue, producer, control, todo, History>>

\* wake_mutex_ is held at "holds"; wait_for gives it up when it blocks
Lock(w) ==
  /\ worker[w].pc = "lock" /\ WorkersAt("holds") = {}
  /\ worker' = [worker EXCEPT ![w].pc =
                  IF ~running_ \/ HasTask THEN "drain" ELSE "holds"]
  /\ UNCHANGED <<running_, pending_, queue, producer, control, todo, History>>

Block(w) ==
  /\ worker[w].pc = "holds"
  /\ worker' = [worker EXCEPT ![w].pc = "waiting"]
  /\ UNCHANGED <<running_, pending_, queue, producer, control, todo, History>>

\* mutant: wait() instead of wait_for()
IdleWaitEnds_never(w) == FALSE

IdleWaitEnds(w) == worker[w].pc = "waiting"

IdleTimeout(w) ==
  /\ IdleWaitEnds(w)
  /\ worker' = [worker EXCEPT ![w].pc = "drain"]
  /\ UNCHANGED <<running_, pending_, queue, producer, control, todo, History>>

-----------------------------------------------------------------------------
ControlStep == Start \/ (\E w \in Workers : Spawn(w)) \/ Stop
                 \/ StopNotify \/ StopJoin
EnqueueStep(p) == EnqueuePush(p) \/ EnqueueFull(p) \/ EnqueuePublish(p)
                    \/ EnqueueCount(p) \/ EnqueueNotify(p)
WorkerStep(w) == Drain(w) \/ DrainCount(w) \/ Handle(w) \/ DrainNothing(w)
                   \/ Check(w) \/ CheckEmpty(w) \/ Lock(w) \/ Block(w)
                   \/ IdleTimeout(w)

Next == \/ ControlStep
        \/ \E p \in Producers : EnqueueCheck(p) \/ EnqueueStep(p)
        \/ \E w \in Workers : WorkerStep(w)

Spec == Init /\ [][Next]_vars

\* The operating system runs every thread: one inside enqueue or worker_loop
\* goes on, and so does a stop() that was called.  Nothing obliges anybody to
\* call enqueue or stop.
FairSpec ==
  /\ Spec
  /\ \A p \in Producers : WF_vars(EnqueueStep(p))
  /\ \A w \in Workers : WF_vars(WorkerStep(w)) /\ WF_vars(Spawn(w))
  /\ WF_vars(StopNotify \/ StopJoin)

-----------------------------------------------------------------------------
(* Properties.                                                             *)

\* Types; at most Capacity places are claimed.
TypeOK ==
  /\ running_ \in BOOLEAN /\ pending_ \in 0..(Wrap - 1)
  /\ queue \in Seq([task : Tasks, ready : BOOLEAN]) /\ Len(queue) <= Capacity
  /\ producer \in [Producers ->
       [pc : {"out", "push", "publish", "count", "notify"},
        task : Tasks \cup {Nothing}]]
  /\ worker \in [Workers ->
       [pc : {"out", "drain", "popped", "handle", "check", "check_empty",
              "lock", "holds", "waiting", "done"},
        task : Tasks \cup {Nothing}]]
  /\ control \in {"new", "spawn", "started", "notify", "join", "stopped"}
  /\ todo \subseteq Tasks /\ accepted \subseteq Tasks /\ handled \subseteq Tasks
  /\ quiet \in BOOLEAN

\* pending_ is the number of queued tasks, up to the counter updates that are
\* still on their way.  A worker's decrement may come before the producer's
\* increment: then the size_t wraps below zero, and only for as long as that
\* producer stands between its push and its fetch_add.
PendingBalance ==
  control # "stopped" =>
    pending_ = (Len(queue) + Cardinality(WorkersAt("popped"))
                  - Cardinality(ProducersAt("publish"))
                  - Cardinality(ProducersAt("count"))) % Wrap

\* stop() loses nothing if no enqueue is in progress when it is called: every
\* task whose enqueue returned true has been handled when stop() returns, the
\* queue is empty and pending() is 0.
QuietStopDrains ==
  control = "stopped" /\ quiet =>
    accepted \subseteq handled /\ queue = <<>> /\ pending_ = 0

\* Again and again every task whose enqueue returned true has been handled (or
\* the pool was stopped), although a worker can miss the notification or see
\* the queue as empty behind an unpublished place: no worker leaves while the
\* pool runs, and none sleeps for good.
AcceptedIsHandled == []<>(accepted \subseteq handled \/ ~running_)

\* A stop() that was called returns, whatever the workers were doing.
StopReturns == control = "notify" ~> control = "stopped"

=============================================================================
