----------------------------- MODULE RestClient -----------------------------
(***************************************************************************)
(* exchange::RestClient: do_request on a ConnectionPool.  Each caller      *)
(* makes one request.  A request that was written may be executed by the   *)
(* venue (external) before its connection breaks, or after.                *)
(*                                                                         *)
(* write, read and the opening of a connection are synchronous calls, for  *)
(* which the time limit that expires_after sets does nothing: if the venue *)
(* stays silent they do not return.                                        *)
(***************************************************************************)
EXTENDS ConnectionPool

CONSTANT MaxRetries       \* MAX_RETRIES

ASSUME RestAssumption == MaxRetries \in Nat \ {0}

VARIABLES
  attempt,                \* attempt[c]: of do_request's loop
  wire,                   \* wire[c]: the request of this attempt
  late,                   \* late[c]: requests of broken attempts that the
                          \* venue may still execute
  response,               \* response[c]: what is returned
  executed

vars == <<poolVars, attempt, wire, late, response, executed>>

Init ==
  /\ PoolInit
  /\ attempt = [c \in Callers |-> 0]
  /\ wire = [c \in Callers |-> "unsent"]
  /\ late = [c \in Callers |-> 0]
  /\ response = [c \in Callers |-> "none"]
  /\ executed = [c \in Callers |-> 0]

Settle(c, r) == response' = [response EXCEPT ![c] = r]

do_request(c) ==
  /\ running_ /\ response[c] = "none" /\ At(c, "out", "acquire")
  /\ UNCHANGED <<running_, connections_, connState, pool_mutex_, conn,
                 attempt, wire, late, response, executed>>

\* http::write
Write(c) ==
  /\ at[c] = "using" /\ wire[c] = "unsent"
  /\ wire' = [wire EXCEPT ![c] = "sent"]
  /\ UNCHANGED <<poolVars, attempt, late, response, executed>>

VenueExecutes(c) ==
  /\ \/ /\ wire[c] = "sent" /\ wire' = [wire EXCEPT ![c] = "executed"]
        /\ UNCHANGED late
     \/ /\ late[c] > 0 /\ late' = [late EXCEPT ![c] = @ - 1]
        /\ UNCHANGED wire
  /\ executed' = [executed EXCEPT ![c] = @ + 1]
  /\ UNCHANGED <<poolVars, attempt, response>>

\* mutant: an answer other than 200 or 201 is tried again
Returns_if_ok(ok) == ok

\* any HTTP answer is returned, whatever its status
Returns(ok) == TRUE

\* http::read; "Connection: close" has the connection replaced
Read(c) ==
  /\ at[c] = "using" /\ wire[c] \in {"sent", "executed"}
  /\ \E to \in {"release", "fail"}, ok \in BOOLEAN :
       /\ at' = [at EXCEPT ![c] = to]
       /\ IF Returns(ok) THEN Settle(c, "answer") /\ UNCHANGED attempt
          ELSE /\ attempt' = [attempt EXCEPT ![c] = @ + 1]
               /\ UNCHANGED response
  /\ wire' = [wire EXCEPT ![c] = "unsent"]
  /\ UNCHANGED <<running_, connections_, connState, pool_mutex_, conn, late,
                 executed>>

LastAttempt(c) == attempt[c] + 1 >= MaxRetries

\* An attempt without an answer; after the last one the error is returned
NextAttempt(c) ==
  /\ attempt' = [attempt EXCEPT ![c] = @ + 1]
  /\ IF LastAttempt(c) THEN Settle(c, "error") ELSE UNCHANGED response

\* an exception from write or read: every error is tried again, the ones
\* that are not "retriable" too, since only the last attempt leaves the loop
Broken(c) ==
  /\ At(c, "using", "fail") /\ NextAttempt(c)
  /\ wire' = [wire EXCEPT ![c] = "unsent"]
  /\ late' = IF wire[c] = "sent" THEN [late EXCEPT ![c] = @ + 1] ELSE late
  /\ UNCHANGED <<running_, connections_, connState, pool_mutex_, conn, executed>>

\* acquire() gave nullptr
NoConnection(c) ==
  /\ At(c, "failed", "out") /\ NextAttempt(c)
  /\ UNCHANGED <<running_, connections_, connState, pool_mutex_, conn, wire,
                 late, executed>>

PoolStep(c) ==
  /\ \/ Acquiring(c) \/ release(c) \/ mark_failed(c) \/ replace_connection(c)
     \/ notify_one(c)
  /\ UNCHANGED <<attempt, wire, late, response, executed>>

Requesting(c) ==
  \/ do_request(c) \/ Write(c) \/ Read(c) \/ Broken(c) \/ NoConnection(c)
  \/ PoolStep(c)

\* main.cpp disconnects the venues when the threads that trade have ended
Owner ==
  /\ \/ initialize
     \/ shutdown /\ \A c \in Callers : attempt[c] > 0 => response[c] # "none"
  /\ UNCHANGED <<attempt, wire, late, response, executed>>

Next == Owner \/ \E c \in Callers : Requesting(c) \/ VenueExecutes(c)

Spec == Init /\ [][Next]_vars

\* The caller is inside a call that only the venue can end.
OnNetwork(c) == at[c] \in {"create", "using", "replacing"}

\* Threads run on, but nothing is assumed of the network: it may leave a
\* caller inside such a call for ever.
Fairness ==
  \A c \in Callers : WF_vars(~OnNetwork(c) /\ Requesting(c))

FairSpec == Spec /\ Fairness

TypeOK ==
  /\ PoolTypeOK
  /\ attempt \in [Callers -> 0..MaxRetries]
  /\ late \in [Callers -> 0..MaxRetries]
  /\ executed \in [Callers -> 0..MaxRetries]

Returned(c) == at[c] = "out" /\ response[c] # "none"

\* A request returns, with an answer or an error, unless the venue leaves it
\* for ever inside one call, or leaves another thread for ever inside the
\* opening of a replacement, under pool_mutex_.  In particular no retry, no
\* missed wake-up and no wait for the mutex holds it up, and a thread that
\* never comes back from write or read, with a connection of the pool in its
\* hands, does not hold up the others: acquire() gives them up at its
\* deadline (do_request, acquire, replace_connection).
RequestReturns ==
  \A c \in Callers :
    \/ (at[c] = "acquire") ~> Returned(c)
    \/ <>[]OnNetwork(c)
    \/ \E d \in Callers \ {c} : <>[](at[d] = "replacing")

Post == INSTANCE RestPost WITH attempts <- attempt
\* do_request implements what post() promises its callers.
ImplementsPost == Post!Spec
=============================================================================
