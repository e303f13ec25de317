------------------------------ MODULE RestPost ------------------------------
(***************************************************************************)
(* What a caller of RestClient::post may rely on: the request is tried at  *)
(* most MaxRetries times, it is tried again only if an attempt ended       *)
(* without an answer, and the response is the answer to the last attempt.  *)
(* An attempt without an answer may have been executed, or be executed     *)
(* later, after the response too.                                          *)
(***************************************************************************)
EXTENDS Integers

CONSTANTS Callers, MaxRetries

VARIABLES
  response,               \* response[c]: "none", "answer" or "error"
  attempts,               \* attempts[c]: that ended without an answer
  executed                \* executed[c]: times the venue executed it

Init ==
  /\ response = [c \in Callers |-> "none"]
  /\ attempts = [c \in Callers |-> 0]
  /\ executed = [c \in Callers |-> 0]

Answer(c) ==
  /\ response[c] = "none" /\ response' = [response EXCEPT ![c] = "answer"]
  /\ UNCHANGED <<attempts, executed>>

Execute(c) ==
  /\ executed[c] < attempts[c] + (IF response[c] = "error" THEN 0 ELSE 1)
  /\ executed' = [executed EXCEPT ![c] = @ + 1]
  /\ UNCHANGED <<attempts, response>>

Unanswered(c) ==
  /\ response[c] = "none" /\ attempts[c] < MaxRetries
  /\ attempts' = [attempts EXCEPT ![c] = @ + 1]
  /\ response' \in {response, [response EXCEPT ![c] = "error"]}
  /\ attempts'[c] = MaxRetries => response'[c] = "error"
  /\ UNCHANGED executed

Next == \E c \in Callers : Answer(c) \/ Execute(c) \/ Unanswered(c)

Spec == Init /\ [][Next]_<<response, attempts, executed>>
=============================================================================
