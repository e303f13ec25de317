------------------------------- MODULE TradeWS -------------------------------
(***************************************************************************)
(* BybitTradeWS and OkxTradeWS (same structure), and the REST fallback of  *)
(* open_short and close_short, on top of a WebSocketClient: an order goes  *)
(* out over the WebSocket, its caller waits at most ORDER_TIMEOUT_MS for   *)
(* the acknowledgement, and whatever is not acknowledged is repeated over  *)
(* REST.  Each caller places one order; the order is named by its caller.  *)
(*                                                                         *)
(* The venue is external: it executes an order it receives in a session    *)
(* whose login came before it, or refuses it, and answers.  What it has    *)
(* received it may still execute after the connection is gone.             *)
(***************************************************************************)
EXTENDS WebSocketClient

CONSTANTS
  Auth,                   \* the login message
  MaxRetries              \* of RestClient::do_request (3)

ASSUME TradeAssumption ==
  MaxRetries \in Nat \ {0} /\ Auth \notin Senders \cup {NoMsg}

Callers == Senders

VARIABLES
  connected_, authenticated_, pending_orders_,
  caller,                 \* caller[c]: place in open_short, and REST attempts
  result,                 \* result[c]: what its promise holds
  status,                 \* status[c]: of the order returned
  loggedIn,               \* a login was written on this stream
  inbox,                  \* what the venue has received and not handled
  answers,                \* answers on their way, of this stream
  executed,               \* how often the venue executed the order of c
  unanswered              \* history: an attempt of c ended without an answer

tradeVars == <<connected_, authenticated_, pending_orders_, caller, result,
               status>>
venueVars == <<loggedIn, inbox, answers, executed, unanswered>>
vars == <<wsVars, tradeVars, venueVars>>

Login == [msg |-> Auth, in |-> TRUE, here |-> TRUE]
Count(f, c) == [f EXCEPT ![c] = @ + 1]
Mark(f, c) == [f EXCEPT ![c] = TRUE]

Init ==
  /\ WsInit
  /\ connected_ = FALSE /\ authenticated_ = FALSE /\ pending_orders_ = {}
  /\ caller = [c \in Callers |-> [pc |-> "out", tries |-> 0]]
  /\ result = [c \in Callers |-> "none"]
  /\ status = [c \in Callers |-> "none"]
  /\ loggedIn = FALSE /\ inbox = {} /\ answers = {}
  /\ executed = [c \in Callers |-> 0]
  /\ unanswered = [c \in Callers |-> FALSE]

Goto(c, pc) == caller' = [caller EXCEPT ![c].pc = pc]
Return(c, s) == Goto(c, "done") /\ status' = [status EXCEPT ![c] = s]

-----------------------------------------------------------------------------
(* The callbacks TradeWS::connect installs.                                *)

Connect ==
  /\ state_ = "Disconnected" /\ should_reconnect_ /\ connect
  /\ UNCHANGED <<tradeVars, venueVars>>

\* a new stream: what was under way to us on the old one is lost
Resolved ==
  /\ on_resolve
  /\ loggedIn' = FALSE /\ answers' = {}
  /\ inbox' = {[i EXCEPT !.here = FALSE] : i \in inbox}
  /\ UNCHANGED <<tradeVars, executed, unanswered>>

HandshakeDone ==
  /\ on_handshake /\ connected_' = TRUE
  /\ UNCHANGED <<authenticated_, pending_orders_, caller, result, status,
                 venueVars>>

authenticate ==
  /\ callback_push(Auth)
  /\ UNCHANGED <<tradeVars, venueVars>>

\* on_disconnect_: every pending order fails
FailPending ==
  /\ connected_' = FALSE /\ authenticated_' = FALSE
  /\ result' = [c \in Callers |-> IF c \in pending_orders_
                                  THEN "failed" ELSE result[c]]
  /\ unanswered' = [c \in Callers |-> unanswered[c] \/ c \in pending_orders_]
  /\ pending_orders_' = {}

Lost ==
  /\ answers' = {}
  /\ inbox' = {[i EXCEPT !.here = FALSE] : i \in inbox}

ReadClosed ==
  /\ on_read_closed /\ FailPending /\ Lost
  /\ UNCHANGED <<caller, status, loggedIn, executed>>

ReadError ==
  /\ on_read_error /\ Lost
  /\ UNCHANGED <<tradeVars, loggedIn, executed, unanswered>>

Disconnect ==
  /\ should_reconnect_ /\ phase # "none"
  /\ disconnect
  /\ connected_' = FALSE /\ authenticated_' = FALSE
  /\ UNCHANGED <<pending_orders_, caller, result, status, venueVars>>

Closed ==
  /\ on_close /\ FailPending
  /\ UNCHANGED <<caller, status, loggedIn, inbox, answers, executed>>

\* mutant: the answer goes to whatever order is pending
resolve_any_pending(c, r) ==
  IF pending_orders_ # {}
  THEN \E d \in pending_orders_ :
         /\ result' = [result EXCEPT ![d] = r]
         /\ pending_orders_' = pending_orders_ \ {d}
  ELSE UNCHANGED <<result, pending_orders_>>

\* on_message and resolve_pending
resolve_pending(c, r) ==
  IF c \in pending_orders_
  THEN /\ result' = [result EXCEPT ![c] = r]
       /\ pending_orders_' = pending_orders_ \ {c}
  ELSE UNCHANGED <<result, pending_orders_>>

on_message ==
  /\ CanRead
  /\ \E a \in answers :
       /\ answers' = answers \ {a}
       /\ IF a.msg = Auth
          THEN authenticated_' = TRUE /\ UNCHANGED <<result, pending_orders_>>
          ELSE resolve_pending(a.msg, a.r) /\ UNCHANGED authenticated_
  /\ UNCHANGED <<wsVars, connected_, caller, status, loggedIn, inbox, executed,
                 unanswered>>

-----------------------------------------------------------------------------
(* The caller: open_short with place_order_sync, then REST.                *)

\* trade_ws_->is_connected(), in open_short and again in place_order_sync
open_short(c) ==
  /\ caller[c].pc = "out"
  /\ Goto(c, IF connected_ /\ authenticated_ THEN "emplace" ELSE "rest")
  /\ UNCHANGED <<wsVars, connected_, authenticated_, pending_orders_, result,
                 status, venueVars>>

Emplace(c) ==
  /\ caller[c].pc = "emplace" /\ Goto(c, "wait")
  /\ pending_orders_' = pending_orders_ \cup {c}
  /\ send(c, c)
  /\ UNCHANGED <<connected_, authenticated_, result, status, venueVars>>

\* wait_for, once send() has returned
Waits(c) == caller[c].pc = "wait" /\ sender[c].pc = "out"

\* mutant: an acknowledgement is not a fill, so REST is tried as well
AckIsFill_never(r) == FALSE

AckIsFill(r) == r = "ack"

\* The promise was set: the order is filled, or falls back to REST
GetResult(c) ==
  /\ Waits(c) /\ result[c] # "none"
  /\ IF AckIsFill(result[c]) THEN Return(c, "Filled")
     ELSE Goto(c, "rest") /\ UNCHANGED status
  /\ UNCHANGED <<wsVars, connected_, authenticated_, pending_orders_, result,
                 venueVars>>

\* mutant: wait() instead of wait_for()
TimesOut_never(c) == FALSE

\* ORDER_TIMEOUT_MS have passed
TimesOut(c) == Waits(c) /\ result[c] = "none"

Timeout(c) ==
  /\ TimesOut(c) /\ Goto(c, "erase")
  /\ unanswered' = Mark(unanswered, c)
  /\ UNCHANGED <<wsVars, connected_, authenticated_, pending_orders_, result,
                 status, loggedIn, inbox, answers, executed>>

\* An answer that comes between the timeout and the erase is not looked at
Erased(c) == pending_orders_ \ {c}

EraseTimedOut(c) ==
  /\ caller[c].pc = "erase" /\ Goto(c, "rest")
  /\ pending_orders_' = Erased(c)
  /\ UNCHANGED <<wsVars, connected_, authenticated_, result, status, venueVars>>

-----------------------------------------------------------------------------
(* rest_client_->post: the venue executes and answers, refuses, or the     *)
(* connection breaks with or without the order executed (RestClient).      *)

RestFilled(c) ==
  /\ caller[c].pc = "rest" /\ Return(c, "Filled")
  /\ executed' = Count(executed, c)
  /\ UNCHANGED <<wsVars, connected_, authenticated_, pending_orders_, result,
                 loggedIn, inbox, answers, unanswered>>

RestRefused(c) ==
  /\ caller[c].pc = "rest" /\ Return(c, "Rejected")
  /\ UNCHANGED <<wsVars, connected_, authenticated_, pending_orders_, result,
                 venueVars>>

RetryLeft(c) == caller[c].tries + 1 < MaxRetries

RestBroken(c) ==
  /\ caller[c].pc = "rest" /\ Fail
  /\ executed' \in {executed, Count(executed, c)}
  /\ unanswered' = Mark(unanswered, c)
  /\ IF RetryLeft(c)
     THEN /\ caller' = [caller EXCEPT ![c].tries = @ + 1]
          /\ UNCHANGED status
     ELSE Return(c, "Rejected")
  /\ UNCHANGED <<netVars, writeVars, sender, connected_, authenticated_,
                 pending_orders_, result, loggedIn, inbox, answers>>

-----------------------------------------------------------------------------
(* The venue's side of the stream.                                         *)

\* on_write: the message is on its way; a login counts for what follows it
Written ==
  /\ on_write
  /\ inbox' = inbox \cup
       {[msg |-> inflight.msg, in |-> loggedIn, here |-> reading]}
  /\ loggedIn' = (loggedIn \/ inflight.msg = Auth)
  /\ UNCHANGED <<tradeVars, answers, executed, unanswered>>

Answered(i, r) ==
  answers' = IF i.here THEN answers \cup {[msg |-> i.msg, r |-> r]} ELSE answers

VenueAccepts(i) ==
  /\ i.msg = Auth \/ i.in
  /\ Answered(i, "ack") /\ inbox' = inbox \ {i}
  /\ executed' = IF i.msg = Auth THEN executed ELSE Count(executed, i.msg)
  /\ UNCHANGED <<wsVars, tradeVars, loggedIn, unanswered>>

VenueRefuses(i) ==
  /\ i.msg # Auth
  /\ Answered(i, "nak") /\ inbox' = inbox \ {i}
  /\ UNCHANGED <<wsVars, tradeVars, loggedIn, executed, unanswered>>

VenueLoses(i) ==
  /\ ~i.here /\ inbox' = inbox \ {i}
  /\ UNCHANGED <<wsVars, tradeVars, loggedIn, answers, executed, unanswered>>

-----------------------------------------------------------------------------
Internal == (Attempting \/ Draining) /\ UNCHANGED <<tradeVars, venueVars>>

Sending(c) ==
  /\ send_check(c) \/ send_push(c) \/ send_kick(c)
  /\ UNCHANGED <<tradeVars, venueVars>>

Stream ==
  \/ Connect \/ Resolved \/ HandshakeDone \/ authenticate \/ Written
  \/ ReadClosed \/ ReadError \/ Closed \/ on_message

Calling(c) ==
  \/ Sending(c)
  \/ open_short(c) \/ Emplace(c) \/ GetResult(c)
  \/ Timeout(c) \/ EraseTimedOut(c)
  \/ RestFilled(c) \/ RestRefused(c) \/ RestBroken(c)

Venue == \E i \in inbox : VenueAccepts(i) \/ VenueRefuses(i) \/ VenueLoses(i)

Next == Internal \/ Stream \/ Disconnect \/ Venue \/ \E c \in Callers : Calling(c)

Spec == Init /\ [][Next]_vars

TypeOK ==
  /\ WsTypeOK
  /\ connected_ \in BOOLEAN /\ authenticated_ \in BOOLEAN
  /\ pending_orders_ \subseteq Callers
  /\ caller \in [Callers -> [pc : {"out", "emplace", "wait", "erase", "rest",
                                   "done"},
                             tries : 0..MaxRetries-1]]
  /\ result \in [Callers -> {"none", "ack", "nak", "failed"}]
  /\ status \in [Callers -> {"none", "Filled", "Rejected"}]
  /\ executed \in [Callers -> 0..MaxRetries+1]

\* An order is executed twice only if one of its attempts ended without an
\* answer; an answered attempt, refused or acknowledged, is never repeated
\* over a venue that executed it.
OneUnlessUnanswered ==
  \A c \in Callers : executed[c] > 1 => unanswered[c]

\* An order the adapter reports filled was executed.
FilledIsExecuted ==
  \A c \in Callers : status[c] = "Filled" => executed[c] >= 1

\* While the connection is up, queued messages have a writer, or a sender
\* that is about to make one.
QueueIsDrained ==
  (/\ should_reconnect_ /\ state_ = "Connected"
   /\ strand = "free" /\ write_queue_ # <<>>)
    => is_writing_ \/ \E p \in Senders : sender[p].pc = "kick"

\* What the threads and the network do for certain: handlers that are due
\* run, a started resolution or handshake ends, a message that was written
\* reaches the venue, which answers, and a caller goes on or times out.  That
\* the REST request of the fallback returns is assumed of the venue: nothing
\* limits its time (RestClient).
Fairness ==
  /\ WF_vars(Internal) /\ WF_vars(Stream) /\ WF_vars(Venue)
  /\ \A c \in Callers : WF_vars(Calling(c))

FairSpec == Spec /\ Fairness

\* Every order returns, whatever the connection does.
PlacedReturns == \A c \in Callers : <>(caller[c].pc = "done")

\* A resolution, which a timer began a second or more after it was armed,
\* does not for ever come just between a handshake and the end of the write
\* of its login.
Unhurried == <>[][Resolved => StrandFree /\ (Writing => phase # "open")]_vars

\* Unless disconnect() is called, the client ends connected and logged in
\* once the network has stopped failing.
EndsLoggedIn ==
  Unhurried =>
    <>[](should_reconnect_ => state_ = "Connected" /\ authenticated_ /\ loggedIn)
=============================================================================
