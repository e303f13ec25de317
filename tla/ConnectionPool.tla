--------------------------- MODULE ConnectionPool ---------------------------
(***************************************************************************)
(* network::ConnectionPool: keep-alive connections that threads borrow for *)
(* one request.  acquire() works under pool_mutex_, but lets go of it to   *)
(* open a new connection and to wait, whereas mark_failed() opens the      *)
(* replacement under it; release() stores the state and                    *)
(* notifies without the mutex.  A notification wakes one waiter, or none   *)
(* if the only candidate has not begun to wait.                            *)
(***************************************************************************)
EXTENDS Integers, FiniteSets

CONSTANTS
  Callers,
  Conns,                  \* bound: connections that exist at a time
  pool_size, max_pool_size,
  NoConn, Nobody

ASSUME PoolAssumption ==
  /\ IsFiniteSet(Callers) /\ IsFiniteSet(Conns)
  /\ pool_size \in Nat /\ max_pool_size \in Nat /\ pool_size <= max_pool_size
  /\ NoConn \notin Conns /\ Nobody \notin Callers

VARIABLES
  running_,
  connections_,           \* the pool
  connState,              \* connState[k]: Connected, InUse, or unopened
  pool_mutex_,            \* who holds it, or Nobody
  at,                     \* at[c]: its place in acquire() or in the guard
  conn                    \* conn[c]: what acquire() gave it

poolVars == <<running_, connections_, connState, pool_mutex_, at, conn>>

PoolInit ==
  /\ running_ = FALSE /\ connections_ = {}
  /\ connState = [k \in Conns |-> "unopened"]
  /\ pool_mutex_ = Nobody
  /\ at = [c \in Callers |-> "out"]
  /\ conn = [c \in Callers |-> NoConn]

Unopened == {k \in Conns : connState[k] = "unopened"}
\* which name a new connection gets is of no importance
Opened(k) == Unopened # {} /\ k = CHOOSE u \in Unopened : TRUE
Free == {k \in connections_ : connState[k] = "Connected"}
Unlocked == pool_mutex_ = Nobody
At(c, from, to) == at[c] = from /\ at' = [at EXCEPT ![c] = to]
Give(c, k) == conn' = [conn EXCEPT ![c] = k]
Set(k, s) == connState' = [connState EXCEPT ![k] = s]
Everybody == \A c \in Callers : at[c] = "out"

-----------------------------------------------------------------------------
(* initialize() and shutdown(), called before and after the requests.      *)

initialize ==
  /\ ~running_ /\ connections_ = {}
  /\ running_' = TRUE
  /\ \E K \in SUBSET Unopened :
       /\ Cardinality(K) <= pool_size
       /\ connections_' = K
       /\ connState' = [k \in Conns |-> IF k \in K THEN "Connected"
                                        ELSE connState[k]]
  /\ UNCHANGED <<pool_mutex_, at, conn>>

shutdown ==
  /\ running_ /\ Everybody /\ Unlocked
  /\ running_' = FALSE /\ connections_' = {}
  /\ connState' = [k \in Conns |-> IF k \in connections_ THEN "unopened"
                                   ELSE connState[k]]
  /\ UNCHANGED <<pool_mutex_, at, conn>>

-----------------------------------------------------------------------------
(* acquire().                                                              *)

MayGrow == Cardinality(connections_) < max_pool_size

\* the scan; try_acquire() is a compare-and-swap
TakeFree(c, to) ==
  \E k \in Free : Set(k, "InUse") /\ Give(c, k) /\ at' = [at EXCEPT ![c] = to]

acquire(c) ==
  /\ at[c] = "acquire" /\ Unlocked
  /\ \/ TakeFree(c, "using") /\ UNCHANGED pool_mutex_
     \/ /\ Free = {} /\ MayGrow /\ at' = [at EXCEPT ![c] = "create"]
        /\ UNCHANGED <<connState, conn, pool_mutex_>>
     \/ /\ Free = {} /\ ~MayGrow /\ at' = [at EXCEPT ![c] = "towait"]
        /\ pool_mutex_' = c
        /\ UNCHANGED <<connState, conn>>
  /\ UNCHANGED <<running_, connections_>>

\* create_connection(), without the mutex
created(c) ==
  /\ At(c, "create", "append")
  /\ \E k \in Conns : Opened(k) /\ Set(k, "Connected") /\ Give(c, k)
  /\ UNCHANGED <<running_, connections_, pool_mutex_>>

not_created(c) ==
  /\ At(c, "create", "towait") /\ Unlocked /\ pool_mutex_' = c
  /\ UNCHANGED <<running_, connections_, connState, conn>>

\* mutant: the new connection is put into the pool as free
AppendedState_free == "Connected"

AppendedState == "InUse"

\* under the mutex again; the size is not compared again
append(c) ==
  /\ At(c, "append", "using") /\ Unlocked
  /\ connections_' = connections_ \cup {conn[c]}
  /\ Set(conn[c], AppendedState)
  /\ UNCHANGED <<running_, pool_mutex_, conn>>

\* wait_until lets go of the mutex
wait(c) ==
  /\ At(c, "towait", "waiting") /\ pool_mutex_ = c /\ pool_mutex_' = Nobody
  /\ UNCHANGED <<running_, connections_, connState, conn>>

\* woken: the scan, and the next wait if the deadline is not reached
rescan(c) ==
  /\ at[c] = "woken" /\ Unlocked
  /\ \/ TakeFree(c, "using") /\ UNCHANGED pool_mutex_
     \/ /\ Free = {} /\ at' = [at EXCEPT ![c] = "towait"] /\ pool_mutex_' = c
        /\ UNCHANGED <<connState, conn>>
  /\ UNCHANGED <<running_, connections_>>

\* mutant: wait() instead of wait_until()
DeadlinePasses_never(c) == FALSE

DeadlinePasses(c) == at[c] = "waiting"

\* the deadline: one more scan, then nullptr
deadline(c) ==
  /\ DeadlinePasses(c) /\ Unlocked
  /\ \/ TakeFree(c, "using")
     \/ /\ Free = {} /\ at' = [at EXCEPT ![c] = "failed"]
        /\ UNCHANGED <<connState, conn>>
  /\ UNCHANGED <<running_, connections_, pool_mutex_>>

-----------------------------------------------------------------------------
(* The guard's destructor: release(), or mark_failed() with its            *)
(* replacement; then notify_one().                                         *)

release(c) ==
  /\ At(c, "release", "notify")
  /\ Set(conn[c], "Connected") /\ Give(c, NoConn)
  /\ UNCHANGED <<running_, connections_, pool_mutex_>>

\* mutant: the failed connection stays in the pool
Discarded_none(c) == {}

Discarded(c) == {conn[c]}

\* mutant: the replacement is put into the pool as in use
ReplacementState_used == "InUse"

ReplacementState == "Connected"

mark_failed(c) ==
  /\ At(c, "fail", "replacing") /\ Unlocked /\ pool_mutex_' = c
  /\ UNCHANGED <<running_, connections_, connState, conn>>

\* create_connection() again, under the mutex; without a replacement the
\* connection is erased
replace_connection(c) ==
  /\ At(c, "replacing", "notify") /\ pool_mutex_ = c /\ pool_mutex_' = Nobody
  /\ Give(c, NoConn)
  /\ \/ \E k \in Conns :
          /\ Opened(k)
          /\ connections_' = (connections_ \ Discarded(c)) \cup {k}
          /\ connState' = [connState EXCEPT ![conn[c]] = "unopened",
                                            ![k] = ReplacementState]
     \/ /\ connections_' = connections_ \ Discarded(c)
        /\ Set(conn[c], "unopened")
  /\ UNCHANGED running_

notify_one(c) ==
  /\ at[c] = "notify"
  /\ LET W == {w \in Callers : at[w] = "waiting"}
     IN  IF W = {} THEN at' = [at EXCEPT ![c] = "out"]
         ELSE \E w \in W : at' = [at EXCEPT ![c] = "out", ![w] = "woken"]
  /\ UNCHANGED <<running_, connections_, connState, pool_mutex_, conn>>

Acquiring(c) ==
  \/ acquire(c) \/ created(c) \/ not_created(c) \/ append(c) \/ wait(c)
  \/ rescan(c) \/ deadline(c)

PoolTypeOK ==
  /\ running_ \in BOOLEAN /\ connections_ \subseteq Conns
  /\ connState \in [Conns -> {"unopened", "Connected", "InUse"}]
  /\ pool_mutex_ \in Callers \cup {Nobody}
  /\ conn \in [Callers -> Conns \cup {NoConn}]

\* A stream is used by the one caller that borrowed it, and it is still in the
\* pool, which owns it: two requests never mix on one connection and none is
\* sent on a connection that was replaced or erased under it.
Exclusive ==
  \A c \in Callers : at[c] \in {"using", "release", "fail", "replacing"} =>
    /\ conn[c] \in connections_ /\ connState[conn[c]] = "InUse"
    /\ \A d \in Callers \ {c} : conn[d] # conn[c]

\* No connection is lost to the pool: one that is marked in use has a caller
\* that will give it back.
NoneLeaked ==
  \A k \in connections_ : connState[k] = "InUse" =>
    \E c \in Callers : conn[c] = k

\* Callers that open connections at once all saw room, so the pool may outgrow
\* max_pool_size, but never both that and the number of threads: a connection
\* is opened only when every other one is in use.
PoolIsBounded ==
  \/ Cardinality(connections_) <= max_pool_size
  \/ Cardinality(connections_) <= Cardinality(Callers)
=============================================================================
