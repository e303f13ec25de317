------------------------- MODULE RestClient_proofs -------------------------
(***************************************************************************)
(* Theorems about RestClient and its ConnectionPool, for any number of     *)
(* threads and connections, any pool sizes and any number of retries.      *)
(***************************************************************************)
EXTENDS RestClient, FiniteSetTheorems, TLAPS

-----------------------------------------------------------------------------
(* The pool.                                                               *)

Places == {"out", "acquire", "create", "append", "towait", "waiting",
           "woken", "failed", "using", "release", "fail", "replacing",
           "notify"}
Borrowing == {"using", "release", "fail", "replacing"}

\* Who holds which connection, and in which state it then is.  A new
\* connection belongs to its opener before it belongs to the pool.
Ownership ==
  /\ PoolTypeOK
  /\ at \in [Callers -> Places]
  /\ \A c \in Callers : conn[c] # NoConn <=> at[c] \in Borrowing \cup {"append"}
  /\ \A c \in Callers : at[c] = "append" =>
       connState[conn[c]] = "Connected" /\ conn[c] \notin connections_
  /\ \A c \in Callers : at[c] \in Borrowing =>
       connState[conn[c]] = "InUse" /\ conn[c] \in connections_
  /\ \A c, d \in Callers : conn[c] # NoConn /\ conn[c] = conn[d] => c = d
  /\ \A k \in connections_ : connState[k] # "unopened"
  /\ NoneLeaked

LEMMA OpenedIsUnopened ==
  ASSUME NEW k, Opened(k) PROVE k \in Conns /\ connState[k] = "unopened"
  BY DEF Opened, Unopened

USE DEF Places, Borrowing

LEMMA OwnershipTakes ==
  ASSUME Ownership, NEW c \in Callers, at[c] \in {"acquire", "woken", "waiting"},
         TakeFree(c, "using"),
         running_' = running_, connections_' = connections_,
         pool_mutex_' \in Callers \cup {Nobody}
  PROVE  Ownership'
<1>1. PICK k \in Free :
        /\ connState' = [connState EXCEPT ![k] = "InUse"]
        /\ conn' = [conn EXCEPT ![c] = k]
        /\ at' = [at EXCEPT ![c] = "using"]
  BY DEF TakeFree, Set, Give
<1>2. k \in connections_ /\ k \in Conns /\ connState[k] = "Connected" /\ k # NoConn
  BY PoolAssumption DEF Free, Ownership, PoolTypeOK
<1>3. PoolTypeOK' /\ at' \in [Callers -> Places]
  BY <1>1, <1>2 DEF Ownership, PoolTypeOK
<1>4. \A d \in Callers : conn[d] # k
  BY <1>2 DEF Ownership
<1>5. conn[c] = NoConn
  BY DEF Ownership
<1>6. \A d \in Callers \ {c} : at'[d] = at[d] /\ conn'[d] = conn[d]
  BY <1>1 DEF Ownership, PoolTypeOK
<1>7. /\ at'[c] = "using" /\ conn'[c] = k
      /\ \A j \in Conns : connState'[j] = IF j = k THEN "InUse" ELSE connState[j]
  BY <1>1, <1>2 DEF Ownership, PoolTypeOK
<1>8. NoneLeaked'
  <2> SUFFICES ASSUME NEW j \in connections_, connState'[j] = "InUse"
               PROVE  \E d \in Callers : conn'[d] = j
    BY DEF NoneLeaked
  <2>1. CASE j = k
    BY <2>1, <1>7
  <2>2. CASE j # k
    <3>1. connState[j] = "InUse"
      BY <2>2, <1>7 DEF Ownership, PoolTypeOK
    <3>2. PICK d \in Callers : conn[d] = j
      BY <3>1 DEF Ownership, NoneLeaked
    <3>3. d # c
      BY <3>2, <1>5, PoolAssumption DEF Ownership, PoolTypeOK
    <3> QED
      BY <3>2, <3>3, <1>6
  <2> QED
    BY <2>1, <2>2
<1>9. \A d \in Callers \ {c} :
        conn[d] # NoConn => connState'[conn[d]] = connState[conn[d]]
  BY <1>4, <1>7 DEF Ownership, PoolTypeOK
<1>10. \A j \in connections_' : connState'[j] # "unopened"
  BY <1>7 DEF Ownership, PoolTypeOK
<1> QED
  BY <1>2, <1>3, <1>4, <1>6, <1>7, <1>8, <1>9, <1>10 DEF Ownership

\* A step that gives, takes and returns no connection.
LEMMA OwnershipMoves ==
  ASSUME Ownership, UNCHANGED <<connections_, connState, conn>>,
         running_' \in BOOLEAN, pool_mutex_' \in Callers \cup {Nobody},
         at' \in [Callers -> Places],
         \A d \in Callers : at'[d] = at[d]
           \/ {at[d], at'[d]} \subseteq Borrowing
           \/ {at[d], at'[d]} \subseteq Places \ (Borrowing \cup {"append"})
  PROVE  Ownership'
<1>1. PoolTypeOK' /\ NoneLeaked'
  BY DEF Ownership, PoolTypeOK, NoneLeaked
<1> QED
  BY <1>1 DEF Ownership

LEMMA OwnershipCreates ==
  ASSUME Ownership, NEW c \in Callers, created(c) PROVE Ownership'
<1>1. PICK k \in Conns :
        /\ Opened(k)
        /\ connState' = [connState EXCEPT ![k] = "Connected"]
        /\ conn' = [conn EXCEPT ![c] = k]
        /\ at[c] = "create" /\ at' = [at EXCEPT ![c] = "append"]
  BY DEF created, At, Set, Give
<1>2. connState[k] = "unopened" /\ k # NoConn
  BY <1>1, OpenedIsUnopened, PoolAssumption
<1>3. connections_' = connections_ /\ k \notin connections_
  BY <1>2 DEF created, Ownership
<1>4. PoolTypeOK' /\ at' \in [Callers -> Places]
  BY <1>1 DEF created, Ownership, PoolTypeOK
<1>5. conn[c] = NoConn /\ \A d \in Callers : conn[d] # k
  BY <1>1, <1>2 DEF Ownership
<1>6. \A d \in Callers \ {c} : at'[d] = at[d] /\ conn'[d] = conn[d]
  BY <1>1 DEF Ownership, PoolTypeOK
<1>7. /\ at'[c] = "append" /\ conn'[c] = k
      /\ \A j \in Conns : connState'[j] = IF j = k THEN "Connected" ELSE connState[j]
  BY <1>1 DEF Ownership, PoolTypeOK
<1>8. NoneLeaked'
  <2> SUFFICES ASSUME NEW j \in connections_, connState'[j] = "InUse"
               PROVE  \E d \in Callers : conn'[d] = j
    BY <1>3 DEF NoneLeaked
  <2>1. connState[j] = "InUse" /\ j \in Conns
    BY <1>7 DEF Ownership, PoolTypeOK
  <2>2. PICK d \in Callers : conn[d] = j
    BY <2>1 DEF Ownership, NoneLeaked
  <2> QED
    BY <2>1, <2>2, <1>5, <1>6, PoolAssumption
<1>9. /\ \A d \in Callers \ {c} :
           conn[d] # NoConn => connState'[conn[d]] = connState[conn[d]]
      /\ \A j \in connections_ : connState'[j] = connState[j]
  BY <1>3, <1>5, <1>7 DEF Ownership, PoolTypeOK
<1> QED
  BY <1>2, <1>3, <1>4, <1>5, <1>6, <1>7, <1>8, <1>9 DEF Ownership

LEMMA OwnershipAppends ==
  ASSUME Ownership, NEW c \in Callers, append(c) PROVE Ownership'
<1> DEFINE k == conn[c]
<1>1. /\ at[c] = "append" /\ at' = [at EXCEPT ![c] = "using"]
      /\ connections_' = connections_ \cup {k}
      /\ connState' = [connState EXCEPT ![k] = "InUse"]
      /\ UNCHANGED <<running_, pool_mutex_, conn>>
  BY DEF append, At, Set, AppendedState
<1>2. k \in Conns /\ k # NoConn /\ connState[k] = "Connected" /\ k \notin connections_
  BY <1>1 DEF Ownership, PoolTypeOK
<1>3. PoolTypeOK' /\ at' \in [Callers -> Places]
  BY <1>1, <1>2 DEF Ownership, PoolTypeOK
<1>4. \A d \in Callers \ {c} : conn[d] # k
  BY <1>2 DEF Ownership
<1>5. /\ \A d \in Callers : at'[d] = IF d = c THEN "using" ELSE at[d]
      /\ \A j \in Conns : connState'[j] = IF j = k THEN "InUse" ELSE connState[j]
  BY <1>1 DEF Ownership, PoolTypeOK
<1>6. NoneLeaked'
  <2> SUFFICES ASSUME NEW j \in connections_', connState'[j] = "InUse"
               PROVE  \E d \in Callers : conn[d] = j
    BY <1>1 DEF NoneLeaked
  <2>1. CASE j = k
    BY <2>1
  <2>2. CASE j # k
    <3>1. j \in connections_ /\ connState[j] = "InUse"
      BY <2>2, <1>1, <1>5 DEF Ownership, PoolTypeOK
    <3> QED
      BY <3>1 DEF Ownership, NoneLeaked
  <2> QED
    BY <2>1, <2>2
<1>7. /\ \A d \in Callers \ {c} :
           conn[d] # NoConn => connState'[conn[d]] = connState[conn[d]]
      /\ \A j \in connections_ : connState'[j] = connState[j]
  BY <1>2, <1>4, <1>5 DEF Ownership, PoolTypeOK
<1> HIDE DEF k
<1>8. conn' = conn /\ conn[c] = k
  BY <1>1 DEF k
<1> QED
  BY <1>1, <1>2, <1>3, <1>4, <1>5, <1>6, <1>7, <1>8 DEF Ownership

LEMMA OwnershipReturns ==
  ASSUME Ownership, NEW c \in Callers, release(c) PROVE Ownership'
<1> DEFINE k == conn[c]
<1>1. /\ at[c] = "release" /\ at' = [at EXCEPT ![c] = "notify"]
      /\ connState' = [connState EXCEPT ![k] = "Connected"]
      /\ conn' = [conn EXCEPT ![c] = NoConn]
      /\ UNCHANGED <<running_, connections_, pool_mutex_>>
  BY DEF release, At, Set, Give
<1>2. k \in Conns /\ k # NoConn /\ k \in connections_
  BY <1>1, PoolAssumption DEF Ownership, PoolTypeOK
<1>3. PoolTypeOK' /\ at' \in [Callers -> Places]
  BY <1>1, <1>2 DEF Ownership, PoolTypeOK
<1>4. \A d \in Callers \ {c} : conn[d] # k
  BY <1>2 DEF Ownership
<1>5. /\ \A d \in Callers : at'[d] = IF d = c THEN "notify" ELSE at[d]
      /\ \A d \in Callers : conn'[d] = IF d = c THEN NoConn ELSE conn[d]
      /\ \A j \in Conns : connState'[j] = IF j = k THEN "Connected" ELSE connState[j]
  BY <1>1 DEF Ownership, PoolTypeOK
<1> HIDE DEF k
<1>6. NoneLeaked'
  <2> SUFFICES ASSUME NEW j \in connections_, connState'[j] = "InUse"
               PROVE  \E d \in Callers : conn'[d] = j
    BY <1>1 DEF NoneLeaked
  <2>1. j # k /\ connState[j] = "InUse"
    BY <1>5 DEF Ownership, PoolTypeOK
  <2>2. PICK d \in Callers : conn[d] = j
    BY <2>1 DEF Ownership, NoneLeaked
  <2> QED
    BY <2>1, <2>2, <1>5 DEF k
<1>7. /\ \A d \in Callers \ {c} :
           conn[d] # NoConn => connState'[conn[d]] = connState[conn[d]]
      /\ \A j \in connections_ : connState'[j] # "unopened"
  BY <1>2, <1>4, <1>5 DEF Ownership, PoolTypeOK
<1> QED
  BY <1>1, <1>2, <1>3, <1>4, <1>5, <1>6, <1>7 DEF Ownership

\* with a replacement or without one
LEMMA OwnershipReplaces ==
  ASSUME Ownership, NEW c \in Callers, replace_connection(c) PROVE Ownership'
<1> DEFINE k == conn[c]
           Kept == connections_ \ {k}
<1>1. /\ at[c] = "replacing" /\ at' = [at EXCEPT ![c] = "notify"]
      /\ conn' = [conn EXCEPT ![c] = NoConn]
      /\ UNCHANGED running_ /\ pool_mutex_' = Nobody
  BY DEF replace_connection, At, Give
<1>2. k \in Conns /\ k # NoConn /\ connState[k] = "InUse"
  BY <1>1, PoolAssumption DEF Ownership, PoolTypeOK
<1>3. \A d \in Callers \ {c} : conn[d] # k
  BY <1>2 DEF Ownership
<1>4. /\ \A d \in Callers : at'[d] = IF d = c THEN "notify" ELSE at[d]
      /\ \A d \in Callers : conn'[d] = IF d = c THEN NoConn ELSE conn[d]
  BY <1>1 DEF Ownership, PoolTypeOK
<1>5. PICK N \in SUBSET Conns :
        /\ \A j \in N : connState[j] = "unopened"
        /\ connections_' = Kept \cup N
        /\ connState' \in [Conns -> {"unopened", "Connected", "InUse"}]
        /\ \A j \in Conns : connState'[j] =
             IF j \in N THEN "Connected"
             ELSE IF j = k THEN "unopened" ELSE connState[j]
  <2>1. CASE \E j \in Conns :
               /\ Opened(j)
               /\ connections_' = (connections_ \ Discarded(c)) \cup {j}
               /\ connState' = [connState EXCEPT ![conn[c]] = "unopened",
                                                 ![j] = ReplacementState]
    <3>1. PICK j \in Conns :
               /\ Opened(j)
               /\ connections_' = Kept \cup {j}
               /\ connState' = [connState EXCEPT ![k] = "unopened",
                                                 ![j] = "Connected"]
      BY <2>1 DEF Discarded, ReplacementState
    <3>2. connState[j] = "unopened" /\ j # k
      BY <3>1, <1>2, OpenedIsUnopened
    <3> WITNESS {j} \in SUBSET Conns
    <3> QED
      BY <3>1, <3>2, <1>2 DEF Ownership, PoolTypeOK
  <2>2. CASE /\ connections_' = connections_ \ Discarded(c)
             /\ Set(conn[c], "unopened")
    <3> WITNESS {} \in SUBSET Conns
    <3> QED
      BY <2>2, <1>2 DEF Ownership, PoolTypeOK, Discarded, Set
  <2> QED
    BY <2>1, <2>2 DEF replace_connection
<1>6. k \notin N /\ connections_' \subseteq Conns
  BY <1>2, <1>5 DEF Ownership, PoolTypeOK
<1>7. PoolTypeOK' /\ at' \in [Callers -> Places]
  BY <1>1, <1>5, <1>6 DEF Ownership, PoolTypeOK
<1>8. NoneLeaked'
  <2> SUFFICES ASSUME NEW j \in connections_', connState'[j] = "InUse"
               PROVE  \E d \in Callers : conn'[d] = j
    BY DEF NoneLeaked
  <2>1. j \in Conns
    BY <1>6
  <2>2. j \notin N /\ j # k /\ connState[j] = "InUse"
    BY <2>1, <1>5, <1>6
  <2>3. PICK d \in Callers : conn[d] = j
    BY <2>2, <1>5 DEF Ownership, NoneLeaked
  <2> QED
    BY <2>2, <2>3, <1>4
<1> HIDE DEF k
<1>9. \A d \in Callers \ {c} : conn[d] # NoConn =>
        /\ connState'[conn[d]] = connState[conn[d]]
        /\ conn[d] \in connections_' <=> conn[d] \in connections_
  <2> SUFFICES ASSUME NEW d \in Callers \ {c}, conn[d] # NoConn
               PROVE  /\ connState'[conn[d]] = connState[conn[d]]
                      /\ conn[d] \in connections_' <=> conn[d] \in connections_
    OBVIOUS
  <2>1. conn[d] \in Conns /\ conn[d] # k /\ connState[conn[d]] # "unopened"
    BY <1>3 DEF Ownership, PoolTypeOK
  <2> QED
    BY <2>1, <1>5
<1>10. \A j \in connections_' : connState'[j] # "unopened"
  BY <1>5, <1>6 DEF Ownership, PoolTypeOK
<1> QED
  BY <1>4, <1>7, <1>8, <1>9, <1>10 DEF Ownership

\* initialize() and shutdown(); the latter runs when nobody has a connection
LEMMA OwnershipOwner ==
  ASSUME Ownership, initialize \/ shutdown PROVE Ownership'
<1>1. CASE initialize
  <2>1. PICK K \in SUBSET Unopened :
          /\ connections_' = K
          /\ connState' = [k \in Conns |-> IF k \in K THEN "Connected"
                                           ELSE connState[k]]
    BY <1>1 DEF initialize
  <2>2. K \subseteq Conns /\ \A k \in K : connState[k] = "unopened"
    BY DEF Unopened
  <2>3. connections_ = {} /\ running_' = TRUE /\ UNCHANGED <<pool_mutex_, at, conn>>
    BY <1>1 DEF initialize
  <2>4. PoolTypeOK' /\ at' \in [Callers -> Places]
    BY <2>1, <2>2, <2>3 DEF Ownership, PoolTypeOK
  <2>5. NoneLeaked' /\ \A k \in connections_' : connState'[k] # "unopened"
    BY <2>1, <2>2 DEF NoneLeaked
  <2>6. \A c \in Callers : at[c] = "append" =>
          connState'[conn[c]] = "Connected" /\ conn[c] \notin connections_'
    BY <2>1, <2>2 DEF Ownership, PoolTypeOK
  <2>7. \A c \in Callers : at[c] \notin Borrowing
    BY <2>3 DEF Ownership
  <2> QED
    BY <2>3, <2>4, <2>5, <2>6, <2>7 DEF Ownership
<1>2. CASE shutdown
  <2>1. /\ \A c \in Callers : at[c] = "out"
        /\ connections_' = {} /\ running_' = FALSE
        /\ UNCHANGED <<pool_mutex_, at, conn>>
        /\ connState' = [k \in Conns |-> IF k \in connections_ THEN "unopened"
                                         ELSE connState[k]]
    BY <1>2 DEF shutdown, Everybody
  <2>2. PoolTypeOK'
    BY <2>1 DEF Ownership, PoolTypeOK
  <2> QED
    BY <2>1, <2>2 DEF Ownership, NoneLeaked
<1> QED
  BY <1>1, <1>2

LEMMA OwnershipPool ==
  ASSUME Ownership, NEW c \in Callers, PoolStep(c) PROVE Ownership'
<1> USE DEF At
<1>1. CASE acquire(c)
  <2>1. CASE TakeFree(c, "using") /\ UNCHANGED pool_mutex_
    BY <1>1, <2>1, OwnershipTakes DEF acquire, Ownership, PoolTypeOK
  <2>2. CASE ~(TakeFree(c, "using") /\ UNCHANGED pool_mutex_)
    <3>1. /\ at[c] = "acquire"
          /\ \/ at' = [at EXCEPT ![c] = "create"] /\ UNCHANGED pool_mutex_
             \/ at' = [at EXCEPT ![c] = "towait"] /\ pool_mutex_' = c
          /\ UNCHANGED <<running_, connections_, connState, conn>>
      BY <1>1, <2>2 DEF acquire
    <3> QED
      BY <3>1, OwnershipMoves DEF Ownership, PoolTypeOK
  <2> QED
    BY <2>1, <2>2
<1>2. CASE created(c)
  BY <1>2, OwnershipCreates
<1>3. CASE not_created(c)
  BY <1>3, OwnershipMoves DEF not_created, Ownership, PoolTypeOK
<1>4. CASE append(c)
  BY <1>4, OwnershipAppends
<1>5. CASE wait(c)
  BY <1>5, OwnershipMoves DEF wait, Ownership, PoolTypeOK
<1>6. CASE rescan(c)
  <2>1. CASE TakeFree(c, "using") /\ UNCHANGED pool_mutex_
    BY <1>6, <2>1, OwnershipTakes DEF rescan, Ownership, PoolTypeOK
  <2>2. CASE ~(TakeFree(c, "using") /\ UNCHANGED pool_mutex_)
    <3>1. /\ at[c] = "woken" /\ at' = [at EXCEPT ![c] = "towait"]
          /\ pool_mutex_' = c
          /\ UNCHANGED <<running_, connections_, connState, conn>>
      BY <1>6, <2>2 DEF rescan
    <3> QED
      BY <3>1, OwnershipMoves DEF Ownership, PoolTypeOK
  <2> QED
    BY <2>1, <2>2
<1>7. CASE deadline(c)
  <2>1. at[c] = "waiting" /\ UNCHANGED <<running_, connections_, pool_mutex_>>
    BY <1>7 DEF deadline, DeadlinePasses
  <2>2. CASE TakeFree(c, "using")
    BY <2>1, <2>2, OwnershipTakes DEF Ownership, PoolTypeOK
  <2>3. CASE ~TakeFree(c, "using")
    <3>1. /\ at' = [at EXCEPT ![c] = "failed"]
          /\ UNCHANGED <<connState, conn>>
      BY <1>7, <2>3 DEF deadline
    <3> QED
      BY <2>1, <3>1, OwnershipMoves DEF Ownership, PoolTypeOK
  <2> QED
    BY <2>2, <2>3
<1>8. CASE release(c)
  BY <1>8, OwnershipReturns
<1>9. CASE mark_failed(c)
  BY <1>9, OwnershipMoves DEF mark_failed, Ownership, PoolTypeOK
<1>r. CASE replace_connection(c)
  BY <1>r, OwnershipReplaces
<1>10. CASE notify_one(c)
  <2>1. /\ at[c] = "notify"
        /\ \/ at' = [at EXCEPT ![c] = "out"]
           \/ \E w \in Callers :
                /\ at[w] = "waiting"
                /\ at' = [at EXCEPT ![c] = "out", ![w] = "woken"]
        /\ UNCHANGED <<running_, connections_, connState, pool_mutex_, conn>>
    BY <1>10 DEF notify_one
  <2>2. CASE at' = [at EXCEPT ![c] = "out"]
    BY <2>1, <2>2, OwnershipMoves DEF Ownership, PoolTypeOK
  <2>3. CASE \E w \in Callers :
               /\ at[w] = "waiting"
               /\ at' = [at EXCEPT ![c] = "out", ![w] = "woken"]
    <3>1. PICK w \in Callers :
               /\ at[w] = "waiting"
               /\ at' = [at EXCEPT ![c] = "out", ![w] = "woken"]
      BY <2>3
    <3>2. /\ at' \in [Callers -> Places]
          /\ \A d \in Callers :
               at'[d] = IF d = w THEN "woken" ELSE IF d = c THEN "out" ELSE at[d]
      BY <3>1, <2>1 DEF Ownership
    <3> QED
      BY <2>1, <3>1, <3>2, OwnershipMoves DEF Ownership, PoolTypeOK
  <2> QED
    BY <2>1, <2>2, <2>3
<1> QED
  BY <1>1, <1>2, <1>3, <1>4, <1>5, <1>6, <1>7, <1>8, <1>9, <1>r, <1>10
    DEF PoolStep, Acquiring

LEMMA OwnershipStep == Ownership /\ [Next]_vars => Ownership'
<1> SUFFICES ASSUME Ownership, [Next]_vars PROVE Ownership'
  OBVIOUS
<1>1. CASE Owner
  BY <1>1, OwnershipOwner DEF Owner
<1>2. ASSUME NEW c \in Callers, Requesting(c) PROVE Ownership'
  <2>1. CASE PoolStep(c)
    BY <2>1, OwnershipPool
  <2>2. CASE ~PoolStep(c)
    <3>1. /\ UNCHANGED <<running_, connections_, connState, pool_mutex_, conn>>
          /\ \/ at[c] = "out" /\ at' = [at EXCEPT ![c] = "acquire"]
             \/ at' = at
             \/ /\ at[c] = "using"
                /\ \E to \in {"release", "fail"} : at' = [at EXCEPT ![c] = to]
             \/ at[c] = "failed" /\ at' = [at EXCEPT ![c] = "out"]
      BY <1>2, <2>2 DEF Requesting, do_request, Write, Read, Broken,
                        NoConnection, At, poolVars
    <3> QED
      BY <3>1, OwnershipMoves DEF Ownership, PoolTypeOK
  <2> QED
    BY <2>1, <2>2
<1>3. ASSUME NEW c \in Callers, VenueExecutes(c) PROVE Ownership'
  BY <1>3, OwnershipMoves DEF VenueExecutes, poolVars, Ownership, PoolTypeOK
<1>4. CASE UNCHANGED vars
  BY <1>4, OwnershipMoves DEF vars, poolVars, Ownership, PoolTypeOK
<1> QED
  BY <1>1, <1>2, <1>3, <1>4 DEF Next

\* The pool starts with nobody holding anything, and every step keeps it so
\* that each connection has at most one holder.
LEMMA OwnershipHolds == Spec => []Ownership
<1>1. Init => Ownership
  <2> SUFFICES ASSUME Init PROVE Ownership
    OBVIOUS
  <2>1. PoolTypeOK /\ NoneLeaked
    BY DEF Init, PoolInit, PoolTypeOK, NoneLeaked
  <2> QED
    BY <2>1 DEF Init, PoolInit, Ownership
<1> QED
  BY <1>1, OwnershipStep, PTL DEF Spec

\* No connection is shared between requests or used after it left the pool,
\* however many threads acquire, open, fail and replace at once (acquire,
\* release, mark_failed).
THEOREM ConnectionsExclusive == Spec => []Exclusive
<1>1. Ownership => Exclusive
  BY DEF Ownership, Exclusive
<1> QED
  BY <1>1, OwnershipHolds, PTL

\* No connection is lost to the pool: whoever has it will give it back
\* (release, replace_connection).
THEOREM ConnectionsKept == Spec => []NoneLeaked
<1>1. Ownership => NoneLeaked
  BY DEF Ownership
<1> QED
  BY <1>1, OwnershipHolds, PTL

-----------------------------------------------------------------------------
(* The size of the pool.                                                   *)

\* the callers that have seen room and have not used it yet
Openers == {c \in Callers : at[c] \in {"create", "append"}}

PoolSize == Cardinality(connections_) + Cardinality(Openers)

\* what is in the pool or about to be; no request is under way while it is shut
Room ==
  /\ PoolSize <= Cardinality(Callers) \/ PoolSize <= max_pool_size
  /\ ~running_ => \A c \in Callers : at[c] = "out"

LEMMA PoolIsFinite ==
  ASSUME PoolTypeOK
  PROVE  /\ IsFiniteSet(connections_) /\ IsFiniteSet(Openers)
         /\ Cardinality(connections_) \in Nat /\ Cardinality(Openers) \in Nat
<1>1. IsFiniteSet(connections_)
  BY FS_Subset, PoolAssumption DEF PoolTypeOK
<1>2. IsFiniteSet(Openers)
  BY FS_Subset, PoolAssumption DEF Openers
<1> QED
  BY <1>1, <1>2, FS_CardinalityType

\* If no connection is free, each has a caller of its own: with the openers
\* and the one that has just looked they are no more than there are callers.
LEMMA RoomForOneMore ==
  ASSUME Ownership, NEW c \in Callers, at[c] = "acquire", Free = {}
  PROVE  PoolSize + 1 <= Cardinality(Callers)
<1> DEFINE H == {d \in Callers : at[d] \in Borrowing}
           f == [d \in H |-> conn[d]]
           O == Openers \cup {c}
<1>1. \A k \in connections_ : \E d \in H : conn[d] = k
  <2> SUFFICES ASSUME NEW k \in connections_ PROVE \E d \in H : conn[d] = k
    OBVIOUS
  <2>1. connState[k] = "InUse" /\ k # NoConn
    BY PoolAssumption DEF Ownership, PoolTypeOK, Free
  <2>2. PICK d \in Callers : conn[d] = k
    BY <2>1 DEF Ownership, NoneLeaked
  <2> QED
    BY <2>1, <2>2 DEF Ownership
<1>2. f \in Surjection(H, connections_)
  <2>1. \A d \in H : conn[d] \in connections_
    BY DEF Ownership
  <2> QED
    BY <1>1, <2>1 DEF Surjection
<1>3. IsFiniteSet(H) /\ IsFiniteSet(Callers \ H)
  BY FS_Subset, PoolAssumption
<1>4. Cardinality(connections_) <= Cardinality(H)
  BY <1>2, <1>3, FS_Surjection
<1>5. O \in SUBSET (Callers \ H) /\ c \notin Openers
  BY DEF Openers
<1>6. Cardinality(O) <= Cardinality(Callers \ H)
  BY <1>3, <1>5, FS_Subset
<1>7. /\ IsFiniteSet(Openers) /\ Cardinality(Openers) \in Nat
      /\ Cardinality(connections_) \in Nat
  BY PoolIsFinite DEF Ownership
<1>8. Cardinality(O) = Cardinality(Openers) + 1
  BY <1>5, <1>7, FS_AddElement
<1>9. Cardinality(Callers \ H) = Cardinality(Callers) - Cardinality(H)
  <2>1. Callers \cap H = H
    OBVIOUS
  <2>2. Cardinality(Callers \ H) = Cardinality(Callers) - Cardinality(Callers \cap H)
    BY FS_Difference, PoolAssumption
  <2> QED
    BY <2>1, <2>2
<1>10. Cardinality(H) \in Nat /\ Cardinality(Callers) \in Nat
  BY <1>3, PoolAssumption, FS_CardinalityType
<1> HIDE DEF H, O
<1> QED
  BY <1>4, <1>6, <1>7, <1>8, <1>9, <1>10 DEF PoolSize

\* Every other step of a caller keeps the sum or lowers it.
LEMMA SizeSteps ==
  ASSUME Ownership, Ownership', NEW c \in Callers, Requesting(c)
  PROVE  \/ Openers' = Openers /\ connections_' = connections_
         \/ Free = {} /\ at[c] = "acquire"
              /\ Openers' = Openers \cup {c} /\ connections_' = connections_
         \/ c \in Openers /\ Openers' = Openers \ {c}
              /\ connections_' \in {connections_, connections_ \cup {conn[c]}}
         \/ Openers' = Openers /\ conn[c] \in connections_
              /\ \/ connections_' = connections_ \ {conn[c]}
                 \/ \E k \in Conns : connections_' = (connections_ \ {conn[c]}) \cup {k}
<1>0. at \in [Callers -> Places]
  BY DEF Ownership
<1>1. ASSUME NEW to \in Places, at' = [at EXCEPT ![c] = to],
             at[c] \in {"create", "append"} <=> to \in {"create", "append"}
      PROVE  Openers' = Openers
  BY <1>0, <1>1 DEF Openers
<1>2. CASE ~PoolStep(c)
  <2>1. \/ at[c] = "out" /\ at' = [at EXCEPT ![c] = "acquire"]
        \/ at' = at
        \/ /\ at[c] = "using"
           /\ \E to \in {"release", "fail"} : at' = [at EXCEPT ![c] = to]
        \/ at[c] = "failed" /\ at' = [at EXCEPT ![c] = "out"]
    BY <1>2 DEF Requesting, do_request, Write, Read, Broken, NoConnection, At,
                poolVars
  <2>2. connections_' = connections_
    BY <1>2 DEF Requesting, do_request, Write, Read, Broken, NoConnection,
                poolVars
  <2>3. Openers' = Openers
    BY <1>1, <2>1 DEF Openers
  <2> QED
    BY <2>2, <2>3
<1> USE DEF At
<1>3. CASE acquire(c)
  <2>1. connections_' = connections_ /\ at[c] = "acquire"
    BY <1>3 DEF acquire
  <2>2. CASE Free = {} /\ at' = [at EXCEPT ![c] = "create"]
    BY <1>0, <2>1, <2>2 DEF Openers
  <2>3. CASE \E to \in {"using", "towait"} : at' = [at EXCEPT ![c] = to]
    BY <1>1, <2>1, <2>3
  <2> QED
    BY <1>3, <2>2, <2>3 DEF acquire, TakeFree
<1>4. CASE created(c)
  BY <1>1, <1>4 DEF created
<1>5. CASE not_created(c)
  BY <1>0, <1>5 DEF not_created, Openers
<1>6. CASE append(c)
  BY <1>0, <1>6 DEF append, Openers
<1>7. CASE wait(c) \/ release(c) \/ mark_failed(c)
  BY <1>1, <1>7 DEF wait, release, mark_failed
<1>8. CASE rescan(c) \/ deadline(c)
  <2>1. /\ at[c] \in {"woken", "waiting"} /\ connections_' = connections_
        /\ \E to \in {"using", "towait", "failed"} : at' = [at EXCEPT ![c] = to]
    BY <1>8 DEF rescan, deadline, DeadlinePasses, TakeFree
  <2> QED
    BY <1>1, <2>1
<1>9. CASE replace_connection(c)
  <2>1. /\ at[c] = "replacing" /\ at' = [at EXCEPT ![c] = "notify"]
        /\ \/ connections_' = connections_ \ {conn[c]}
           \/ \E k \in Conns : connections_' = (connections_ \ {conn[c]}) \cup {k}
    BY <1>9 DEF replace_connection, Discarded
  <2>2. conn[c] \in connections_
    BY <2>1 DEF Ownership
  <2> QED
    BY <1>1, <2>1, <2>2
<1>10. CASE notify_one(c)
  <2>1. /\ at[c] = "notify" /\ connections_' = connections_
        /\ \/ at' = [at EXCEPT ![c] = "out"]
           \/ \E w \in Callers :
                /\ at[w] = "waiting"
                /\ at' = [at EXCEPT ![c] = "out", ![w] = "woken"]
    BY <1>10 DEF notify_one
  <2>2. Openers' = Openers
    BY <1>0, <2>1 DEF Openers
  <2> QED
    BY <2>1, <2>2
<1> QED
  BY <1>2, <1>3, <1>4, <1>5, <1>6, <1>7, <1>8, <1>9, <1>10
  DEF PoolStep, Acquiring

LEMMA SizeStep ==
  ASSUME Ownership, Ownership', NEW c \in Callers, Requesting(c)
  PROVE  PoolSize' <= PoolSize \/ PoolSize' <= Cardinality(Callers)
<1>1. /\ IsFiniteSet(connections_) /\ IsFiniteSet(Openers)
      /\ Cardinality(connections_) \in Nat /\ Cardinality(Openers) \in Nat
  BY PoolIsFinite DEF Ownership
<1>2. CASE Openers' = Openers /\ connections_' = connections_
  BY <1>1, <1>2 DEF PoolSize
<1>3. CASE Free = {} /\ at[c] = "acquire"
           /\ Openers' = Openers \cup {c} /\ connections_' = connections_
  <2>1. c \notin Openers
    BY <1>3 DEF Openers
  <2>2. Cardinality(Openers') = Cardinality(Openers) + 1
    BY <1>1, <1>3, <2>1, FS_AddElement
  <2>3. PoolSize + 1 <= Cardinality(Callers)
    BY <1>3, RoomForOneMore
  <2> QED
    BY <1>1, <1>3, <2>2, <2>3 DEF PoolSize
<1>4. CASE c \in Openers /\ Openers' = Openers \ {c}
           /\ connections_' \in {connections_, connections_ \cup {conn[c]}}
  <2>1. Cardinality(Openers') = Cardinality(Openers) - 1
    BY <1>1, <1>4, FS_RemoveElement
  <2>2. /\ Cardinality(connections_') \in Nat
        /\ Cardinality(connections_') <= Cardinality(connections_) + 1
    <3> DEFINE k == conn[c]
    <3>1. Cardinality(connections_ \cup {k}) \in
            {Cardinality(connections_), Cardinality(connections_) + 1}
      BY <1>1, FS_AddElement
    <3>2. \/ Cardinality(connections_') = Cardinality(connections_)
          \/ Cardinality(connections_') = Cardinality(connections_ \cup {k})
      BY <1>4
    <3> HIDE DEF k
    <3> QED
      BY <1>1, <3>1, <3>2
  <2> QED
    BY <1>1, <2>1, <2>2 DEF PoolSize
<1>5. CASE Openers' = Openers /\ conn[c] \in connections_
              /\ \/ connections_' = connections_ \ {conn[c]}
                 \/ \E k \in Conns : connections_' = (connections_ \ {conn[c]}) \cup {k}
  <2> DEFINE Kept == connections_ \ {conn[c]}
  <2>1. IsFiniteSet(Kept) /\ Cardinality(Kept) = Cardinality(connections_) - 1
    BY <1>1, <1>5, FS_RemoveElement
  <2>2. \A k : Cardinality(Kept \cup {k}) \in {Cardinality(Kept), Cardinality(Kept) + 1}
    BY <2>1, FS_AddElement
  <2> HIDE DEF Kept
  <2>3. Cardinality(connections_') \in {Cardinality(Kept), Cardinality(Kept) + 1}
    BY <1>5, <2>2 DEF Kept
  <2> QED
    BY <1>1, <1>5, <2>1, <2>3 DEF PoolSize
<1> QED
  BY <1>2, <1>3, <1>4, <1>5, SizeSteps

LEMMA RoomStep == Ownership /\ Room /\ [Next]_vars => Room'
<1> SUFFICES ASSUME Ownership, Room, [Next]_vars PROVE Room'
  OBVIOUS
<1>0. Ownership' /\ at \in [Callers -> Places]
  BY OwnershipStep DEF Ownership
<1>1. /\ Cardinality(connections_) \in Nat /\ Cardinality(Openers) \in Nat
      /\ Cardinality(Callers) \in Nat /\ max_pool_size \in Nat
      /\ pool_size \in Nat /\ pool_size <= max_pool_size
  BY PoolIsFinite, PoolAssumption, FS_CardinalityType DEF Ownership
<1>2. CASE Owner
  <2>1. UNCHANGED at
    BY <1>2 DEF Owner, initialize, shutdown
  <2>2. \A c \in Callers : at[c] = "out"
    BY <1>2 DEF Owner, initialize, shutdown, Room, Everybody
  <2>3. Openers' = {} /\ Cardinality(Openers') = 0
    BY <2>1, <2>2, FS_EmptySet DEF Openers
  <2>4. Cardinality(connections_') \in Nat /\ Cardinality(connections_') <= max_pool_size
    <3>1. CASE initialize
      <4>1. PICK K \in SUBSET Unopened :
              Cardinality(K) <= pool_size /\ connections_' = K
        BY <3>1 DEF initialize
      <4>2. IsFiniteSet(connections_')
        BY <1>0, FS_Subset, PoolAssumption DEF Ownership, PoolTypeOK
      <4> QED
        BY <1>1, <4>1, <4>2, FS_CardinalityType
    <3>2. CASE shutdown
      BY <1>1, <3>2, FS_EmptySet DEF shutdown
    <3> QED
      BY <1>2, <3>1, <3>2 DEF Owner
  <2> QED
    BY <1>1, <2>1, <2>2, <2>3, <2>4 DEF Room, PoolSize
<1>3. ASSUME NEW c \in Callers, Requesting(c) PROVE Room'
  <2>1. PoolSize' <= PoolSize \/ PoolSize' <= Cardinality(Callers)
    BY <1>0, <1>3, SizeStep
  <2>2. PoolSize \in Nat /\ PoolSize' \in Nat
    <3>1. Cardinality(connections_') \in Nat /\ Cardinality(Openers') \in Nat
      <4>1. IsFiniteSet(connections_')
        BY <1>0, FS_Subset, PoolAssumption DEF Ownership, PoolTypeOK
      <4>2. IsFiniteSet(Openers')
        BY FS_Subset, PoolAssumption DEF Openers
      <4> QED
        BY <4>1, <4>2, FS_CardinalityType
    <3> QED
      BY <1>1, <3>1 DEF PoolSize
  <2>3. running_' = running_
    BY <1>3 DEF Requesting, do_request, Write, Read, Broken, NoConnection,
      PoolStep, Acquiring, acquire, created, not_created, append, wait, rescan,
      deadline, release, mark_failed, replace_connection, notify_one, poolVars
  <2>4. running_
    <3> SUFFICES ASSUME ~running_ PROVE FALSE
      OBVIOUS
    <3>1. at[c] = "out"
      BY DEF Room
    <3> QED
      BY <1>3, <3>1 DEF Requesting, do_request, Write, Read, Broken, NoConnection,
        PoolStep, Acquiring, acquire, created, not_created, append, wait, rescan,
        deadline, DeadlinePasses, release, mark_failed, replace_connection,
        notify_one, At
  <2> QED
    BY <1>1, <2>1, <2>2, <2>3, <2>4 DEF Room
<1>4. CASE UNCHANGED poolVars
  BY <1>4 DEF poolVars, Room, PoolSize, Openers
<1> QED
  BY <1>2, <1>3, <1>4 DEF Next, VenueExecutes, vars

\* However many callers open connections at once, the pool never outgrows both
\* max_pool_size and the number of threads (acquire, replace_connection).
THEOREM PoolStaysBounded == Spec => []PoolIsBounded
<1>1. Init => Room
  <2> SUFFICES ASSUME Init PROVE Room
    OBVIOUS
  <2>1. connections_ = {} /\ Openers = {} /\ \A c \in Callers : at[c] = "out"
    BY DEF Init, PoolInit, Openers
  <2>2. PoolSize = 0 /\ max_pool_size \in Nat
    BY <2>1, FS_EmptySet, PoolAssumption DEF PoolSize
  <2> QED
    BY <2>1, <2>2 DEF Room
<1>2. Ownership /\ Room => PoolIsBounded
  <2>1. Ownership => /\ Cardinality(connections_) \in Nat /\ Cardinality(Openers) \in Nat
                     /\ Cardinality(Callers) \in Nat /\ max_pool_size \in Nat
    BY PoolIsFinite, PoolAssumption, FS_CardinalityType DEF Ownership
  <2> QED
    BY <2>1 DEF Room, PoolSize, PoolIsBounded
<1> QED
  BY <1>1, <1>2, OwnershipHolds, RoomStep, PTL DEF Spec

-----------------------------------------------------------------------------
(* do_request implements RestPost.                                         *)

Pending == {"acquire", "create", "append", "towait", "waiting", "woken",
            "failed", "using"}

\* A request under way has no response yet and is on the wire only while its
\* caller uses a connection; a request was, or still may be, executed at most
\* once per attempt.
Attempts ==
  /\ at \in [Callers -> Places]
  /\ wire \in [Callers -> {"unsent", "sent", "executed"}]
  /\ response \in [Callers -> {"none", "answer", "error"}]
  /\ attempt \in [Callers -> Nat] /\ executed \in [Callers -> Nat]
  /\ late \in [Callers -> Nat]
  /\ \A c \in Callers :
       /\ wire[c] # "unsent" => at[c] = "using"
       /\ at[c] \in Pending => response[c] = "none"
       /\ response[c] = "none" => attempt[c] < MaxRetries
       /\ executed[c] + late[c] <= attempt[c]
            + (IF wire[c] = "executed" \/ response[c] = "answer" THEN 1 ELSE 0)

USE DEF Pending

requests == <<response, attempt, executed>>

\* The pool's own steps move a request under way to another place of it.
LEMMA PoolMoves ==
  ASSUME Attempts, NEW c \in Callers, PoolStep(c)
  PROVE  /\ UNCHANGED <<attempt, wire, late, response, executed>>
         /\ at' \in [Callers -> Places]
         /\ \A d \in Callers :
              /\ at[d] = "using" => at'[d] = "using"
              /\ at'[d] \in Pending => at[d] \in Pending
<1>1. UNCHANGED <<attempt, wire, late, response, executed>>
  BY DEF PoolStep
<1>2. CASE ~notify_one(c)
  <2>1. \E to \in Places :
          /\ at' = [at EXCEPT ![c] = to]
          /\ at[c] # "using"
          /\ to \in Pending => at[c] \in Pending
    BY <1>2 DEF PoolStep, Acquiring, acquire, created, not_created, append,
                wait, rescan, deadline, DeadlinePasses, release, mark_failed,
                replace_connection, TakeFree, At
  <2> QED
    BY <1>1, <2>1 DEF Attempts
<1>3. CASE notify_one(c)
  <2>1. /\ at[c] = "notify"
        /\ \/ at' = [at EXCEPT ![c] = "out"]
           \/ \E w \in Callers :
                /\ at[w] = "waiting"
                /\ at' = [at EXCEPT ![c] = "out", ![w] = "woken"]
    BY <1>3 DEF notify_one
  <2> QED
    BY <1>1, <2>1 DEF Attempts
<1> QED
  BY <1>2, <1>3

\* An attempt that ends without an answer is the abstract Unanswered.
LEMMA AttemptEnds ==
  ASSUME Attempts, NEW c \in Callers, at[c] \in {"using", "failed"},
         NextAttempt(c), UNCHANGED executed,
         wire' = [wire EXCEPT ![c] = "unsent"],
         late' = IF wire[c] = "sent" THEN [late EXCEPT ![c] = @ + 1] ELSE late,
         NEW to \in Places \ Pending, at' = [at EXCEPT ![c] = to]
  PROVE  Attempts' /\ Post!Unanswered(c)
<1>1. /\ response[c] = "none" /\ attempt[c] \in Nat /\ attempt[c] < MaxRetries
      /\ executed[c] \in Nat /\ late[c] \in Nat
      /\ executed[c] + late[c] <= attempt[c] + (IF wire[c] = "executed" THEN 1 ELSE 0)
  BY DEF Attempts
<1>2. /\ attempt' = [attempt EXCEPT ![c] = @ + 1]
      /\ \/ attempt[c] + 1 >= MaxRetries /\ response' = [response EXCEPT ![c] = "error"]
         \/ attempt[c] + 1 < MaxRetries /\ response' = response
  BY <1>1, RestAssumption DEF NextAttempt, LastAttempt, Settle
<1>3. attempt'[c] = attempt[c] + 1 /\ attempt' \in [Callers -> Nat]
  BY <1>1, <1>2 DEF Attempts
<1>4. Post!Unanswered(c)
  BY <1>1, <1>2, <1>3, RestAssumption DEF Post!Unanswered, Attempts
<1>5. /\ wire' \in [Callers -> {"unsent", "sent", "executed"}] /\ wire'[c] = "unsent"
      /\ late' \in [Callers -> Nat]
      /\ late'[c] = late[c] + (IF wire[c] = "sent" THEN 1 ELSE 0)
  BY DEF Attempts
<1>6. \A d \in Callers \ {c} :
        /\ at'[d] = at[d] /\ wire'[d] = wire[d] /\ response'[d] = response[d]
        /\ attempt'[d] = attempt[d] /\ late'[d] = late[d]
  BY <1>2 DEF Attempts
<1>7. at' \in [Callers -> Places] /\ at'[c] = to
  BY DEF Attempts
<1>8. response' \in [Callers -> {"none", "answer", "error"}] /\ response'[c] # "answer"
  BY <1>1, <1>2 DEF Attempts
<1>9. response'[c] = "none" => attempt[c] + 1 < MaxRetries
  BY <1>1, <1>2 DEF Attempts
<1>s. executed'[c] + late'[c] <= attempt'[c]
  <2>1. CASE wire[c] = "sent"
    BY <1>1, <1>3, <1>5, <2>1
  <2>2. CASE wire[c] # "sent"
    <3>1. late'[c] = late[c] /\ executed[c] + late[c] <= attempt[c] + 1
      BY <1>1, <1>5, <2>2
    <3> QED
      BY <1>1, <1>3, <3>1
  <2> QED
    BY <2>1, <2>2
<1>10. /\ wire'[c] # "unsent" => at'[c] = "using"
       /\ at'[c] \in Pending => response'[c] = "none"
       /\ response'[c] = "none" => attempt'[c] < MaxRetries
       /\ executed'[c] + late'[c] <= attempt'[c]
            + (IF wire'[c] = "executed" \/ response'[c] = "answer" THEN 1 ELSE 0)
  BY <1>1, <1>3, <1>5, <1>7, <1>8, <1>9, <1>s
<1> QED
  BY <1>3, <1>4, <1>5, <1>6, <1>7, <1>8, <1>10 DEF Attempts

\* Each step of a request keeps Attempts and is a step of RestPost or none.
LEMMA RequestStep ==
  ASSUME Attempts, NEW c \in Callers, Requesting(c)
  PROVE  Attempts' /\ (Post!Next \/ UNCHANGED requests)
<1>1. CASE do_request(c)
  <2>1. /\ response[c] = "none" /\ at' = [at EXCEPT ![c] = "acquire"]
        /\ at[c] = "out" /\ UNCHANGED <<wire, late, requests>>
    BY <1>1 DEF do_request, At, requests
  <2> QED
    BY <2>1 DEF Attempts, requests
<1>2. CASE Write(c)
  <2>1. /\ at[c] = "using" /\ wire[c] = "unsent"
        /\ wire' = [wire EXCEPT ![c] = "sent"] /\ UNCHANGED <<at, late, requests>>
    BY <1>2 DEF Write, poolVars, requests
  <2> QED
    BY <2>1 DEF Attempts, requests
<1>3. CASE Read(c)
  <2>1. /\ at[c] = "using" /\ wire' = [wire EXCEPT ![c] = "unsent"]
        /\ response' = [response EXCEPT ![c] = "answer"]
        /\ UNCHANGED <<attempt, late, executed>>
    BY <1>3 DEF Read, Returns, Settle
  <2>2. PICK to \in {"release", "fail"} : at' = [at EXCEPT ![c] = to]
    BY <1>3 DEF Read
  <2>3. Post!Answer(c)
    BY <2>1 DEF Post!Answer, Attempts
  <2>4. Attempts'
    BY <2>1, <2>2 DEF Attempts
  <2> QED
    BY <2>3, <2>4 DEF Post!Next
<1>4. CASE Broken(c)
  <2>1. /\ at[c] = "using" /\ at' = [at EXCEPT ![c] = "fail"]
        /\ NextAttempt(c) /\ wire' = [wire EXCEPT ![c] = "unsent"]
        /\ late' = IF wire[c] = "sent" THEN [late EXCEPT ![c] = @ + 1] ELSE late
        /\ UNCHANGED executed
    BY <1>4 DEF Broken, At
  <2>3. Attempts' /\ Post!Unanswered(c)
    BY <2>1, AttemptEnds
  <2> QED
    BY <2>3 DEF Post!Next
<1>5. CASE NoConnection(c)
  <2>1. /\ at[c] = "failed" /\ at' = [at EXCEPT ![c] = "out"]
        /\ NextAttempt(c) /\ UNCHANGED <<wire, late, executed>>
    BY <1>5 DEF NoConnection, At
  <2>2. /\ wire' = [wire EXCEPT ![c] = "unsent"]
        /\ late' = IF wire[c] = "sent" THEN [late EXCEPT ![c] = @ + 1] ELSE late
    BY <2>1 DEF Attempts
  <2>3. Attempts' /\ Post!Unanswered(c)
    BY <2>1, <2>2, AttemptEnds
  <2> QED
    BY <2>3 DEF Post!Next
<1>6. CASE PoolStep(c)
  BY <1>6, PoolMoves DEF Attempts, requests
<1> QED
  BY <1>1, <1>2, <1>3, <1>4, <1>5, <1>6 DEF Requesting

LEMMA AttemptsStep ==
  Attempts /\ [Next]_vars => Attempts' /\ [Post!Next]_requests
<1> SUFFICES ASSUME Attempts, [Next]_vars
             PROVE  Attempts' /\ [Post!Next]_requests
  OBVIOUS
<1>1. CASE Owner
  <2>1. UNCHANGED <<at, wire, late, requests>>
    BY <1>1 DEF Owner, initialize, shutdown, requests
  <2> QED
    BY <2>1 DEF Attempts, requests
<1>2. ASSUME NEW c \in Callers, Requesting(c)
      PROVE  Attempts' /\ [Post!Next]_requests
  BY <1>2, RequestStep
<1>3. ASSUME NEW c \in Callers, VenueExecutes(c)
      PROVE  Attempts' /\ [Post!Next]_requests
  <2>1. /\ executed' = [executed EXCEPT ![c] = @ + 1]
        /\ UNCHANGED <<at, attempt, response>>
        /\ \/ /\ wire[c] = "sent" /\ wire' = [wire EXCEPT ![c] = "executed"]
              /\ UNCHANGED late
           \/ /\ late[c] > 0 /\ late' = [late EXCEPT ![c] = @ - 1]
              /\ UNCHANGED wire
    BY <1>3 DEF VenueExecutes, poolVars
  <2>2. /\ attempt[c] \in Nat /\ executed[c] \in Nat /\ late[c] \in Nat
        /\ executed[c] + late[c] <= attempt[c]
             + (IF wire[c] = "executed" \/ response[c] = "answer" THEN 1 ELSE 0)
        /\ wire[c] # "unsent" => response[c] = "none"
    BY DEF Attempts
  <2>3. executed[c] < attempt[c] + (IF response[c] = "error" THEN 0 ELSE 1)
    <3>1. CASE wire[c] = "sent"
      BY <2>2, <3>1
    <3>2. CASE late[c] > 0
      BY <2>2, <3>2
    <3> QED
      BY <2>1, <3>1, <3>2
  <2>4. Post!Execute(c)
    BY <2>1, <2>3 DEF Post!Execute
  <2>5. Attempts'
    <3>1. CASE wire[c] = "sent" /\ wire' = [wire EXCEPT ![c] = "executed"] /\ UNCHANGED late
      BY <2>1, <2>2, <3>1 DEF Attempts
    <3>2. CASE late[c] > 0 /\ late' = [late EXCEPT ![c] = @ - 1] /\ UNCHANGED wire
      BY <2>1, <2>2, <3>2 DEF Attempts
    <3> QED
      BY <2>1, <3>1, <3>2
  <2> QED
    BY <2>4, <2>5 DEF Post!Next
<1>4. CASE UNCHANGED vars
  BY <1>4 DEF vars, poolVars, Attempts, requests
<1> QED
  BY <1>1, <1>2, <1>3, <1>4 DEF Next

\* do_request implements what RestClient::post promises, for any number of
\* callers and retries: at most MAX_RETRIES attempts, another one only after
\* one without an answer, at most one execution per attempt, no attempt after
\* the response, and after an error no more executions than attempts.
THEOREM RequestImplementsPost == Spec => ImplementsPost
<1>1. Init => Attempts /\ Post!Init
  BY RestAssumption DEF Init, PoolInit, Attempts, Post!Init
<1> QED
  BY <1>1, AttemptsStep, PTL DEF Spec, ImplementsPost, Post!Spec, requests
=============================================================================
