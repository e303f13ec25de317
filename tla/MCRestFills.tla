---------------------------- MODULE MCRestFills ----------------------------
(* The two ways in which a caller learns what became of its order, for TLC: *)
(* the answer to its POST (RestClient) and its fill query (FillQueries).    *)
(* They share no state: a behaviour follows one of them, the other rests.   *)
EXTENDS RestClient, FillQueries, TLC

VARIABLE learning         \* "answer" or "fill"

answerVars == <<learning, vars, fillVars>>

InAnswer(A) == learning = "answer" /\ A /\ UNCHANGED <<learning, fillVars>>
InFill(A) == learning = "fill" /\ A /\ UNCHANGED <<learning, vars>>

AnswerInit ==
  /\ Init /\ FillInit
  /\ \/ learning = "answer" /\ exchange = "Bybit"
     \/ learning = "fill"

\* the fairness of RestClient and of FillQueries
AnswerSpec ==
  /\ AnswerInit /\ [][InAnswer(Next) \/ InFill(FillNext)]_answerVars
  /\ \A c \in Callers : WF_answerVars(InAnswer(~OnNetwork(c) /\ Requesting(c)))
  /\ \A o \in Orders : WF_answerVars(InFill(Querying(o)))
=============================================================================
